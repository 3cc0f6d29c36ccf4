-------------------------- MODULE Validation_proofs --------------------------
(***************************************************************************)
(* Proofs about Validation, for any numbers of documents, DTDs and schemas *)
(* and any depth of nesting: the types, and, for programs that keep the    *)
(* usage rules these need, that a DTD has one owner and that a failed      *)
(* validation raises its own error.                                        *)
(***************************************************************************)
EXTENDS Validation, SequenceTheorems, TLAPS

-----------------------------------------------------------------------------
(* The stack of validations.                                               *)

\* Leaving the innermost validation leaves the outer ones as they are.
LEMMA OuterFrames ==
  ASSUME frames \in Seq(Frame), frames # <<>>
  PROVE  /\ Depth \in Nat \ {0}
         /\ DOMAIN frames = 1..Depth
         /\ Outer \in Seq(Frame) /\ Len(Outer) = Depth - 1
         /\ DOMAIN Outer = 1..Depth - 1
         /\ \A i \in 1..Depth - 1 : Outer[i] = frames[i]
         /\ Innermost \in Frame
<1>1. Depth \in Nat \ {0} /\ DOMAIN frames = 1..Depth /\ Innermost \in Frame
  BY DEF Depth, Innermost
<1>2. /\ Outer \in Seq(Frame) /\ Len(Outer) = Depth - 1
      /\ \A i \in 1..Depth - 1 : Outer[i] = frames[i]
  BY <1>1, SubSeqProperties DEF Depth, Outer
<1> QED BY <1>1, <1>2

\* Calling a validation puts one frame on top of the others.
LEMMA PushedFrames ==
  ASSUME frames \in Seq(Frame), NEW f \in Frame, frames' = Append(frames, f)
  PROVE  /\ Depth \in Nat
         /\ DOMAIN frames = 1..Depth
         /\ frames' \in Seq(Frame)
         /\ DOMAIN frames' = 1..Depth + 1
         /\ \A i \in 1..Depth : frames'[i] = frames[i]
         /\ frames'[Depth + 1] = f
BY DEF Depth

\* A change of flags leaves the document, and what it is validated by.
LEMMA FlaggedFrames ==
  ASSUME frames \in Seq(Frame), frames # <<>>, NEW g \in Frame,
         frames' = [frames EXCEPT ![Depth] = g]
  PROVE  /\ Depth \in DOMAIN frames
         /\ frames' \in Seq(Frame)
         /\ DOMAIN frames' = DOMAIN frames
         /\ \A i \in DOMAIN frames : frames'[i] = IF i = Depth THEN g ELSE frames[i]
<1>1. Depth \in 1..Len(frames)
  BY DEF Depth
<1>2. frames' \in Seq(Frame)
  BY <1>1, ExceptSeq
<1> QED BY <1>1, <1>2
-----------------------------------------------------------------------------
(* Types.                                                                  *)

\* Making an object, and failing to.
LEMMA MakeKeepsTypes ==
  ASSUME ValidationTypeOK, Make
  PROVE  ValidationTypeOK'
<1>1. OnStack' = OnStack /\ garbage = {} /\ garbage' = {} /\ frames' = frames /\ handler' = handler
  BY DEF Make, document_new, document_edit, dtd_initialize, schema_init, relaxng_init, relaxng_init_fails,
         parse_fails, Running, OnStack, Validated, heap
<1>2. raised' \in Address /\ lastError' \in Address
  BY DEF Make, document_new, document_edit, dtd_initialize, schema_init, relaxng_init, relaxng_init_fails,
         parse_fails, Quiet, Forget, Address, ValidationTypeOK
<1>3. dtds' \subseteq Dtd /\ extSubset' = extSubset
  BY DEF Make, document_new, document_edit, dtd_initialize, schema_init, relaxng_init, relaxng_init_fails,
         parse_fails, heap, ValidationTypeOK
<1>5. unparsed' \subseteq objects' \cap Schema
  BY DEF Make, document_new, document_edit, dtd_initialize, schema_init, relaxng_init, relaxng_init_fails,
         parse_fails, heap, New, ValidationTypeOK
<1>4. objects \subseteq objects' /\ objects' \subseteq Object /\ held' \subseteq held \cup objects'
  BY DEF Make, document_new, document_edit, dtd_initialize, schema_init, relaxng_init, relaxng_init_fails,
         parse_fails, heap, New, Object, ValidationTypeOK
<1> QED BY <1>1, <1>2, <1>3, <1>4, <1>5 DEF ValidationTypeOK

\* Starting a validation: its receiver and its argument are held.
LEMMA PushKeepsTypes ==
  ASSUME ValidationTypeOK, NEW d \in Doc, NEW g \in Dtd \cup Schema, Push(d, g),
         extSubset' \in [Doc -> Dtd \cup {NULL}]
  PROVE  ValidationTypeOK'
<1> DEFINE f == [doc |-> d, by |-> g, saved |-> extSubset[d],
                 calling |-> FALSE, reported |-> FALSE]
<1>1. f \in Frame /\ f.doc = d /\ f.by = g
  BY DEF ValidationTypeOK, Frame
<1>2. frames' = Append(frames, f)
  BY DEF Push
<1> HIDE DEF f
<1>3. /\ frames' \in Seq(Frame) /\ DOMAIN frames' = 1..Depth + 1 /\ Depth \in Nat
      /\ \A i \in 1..Depth : frames'[i] = frames[i]
      /\ DOMAIN frames = 1..Depth /\ frames'[Depth + 1] = f
  BY <1>1, <1>2, PushedFrames DEF ValidationTypeOK
<1>4. OnStack' \subseteq OnStack \cup {d, g}
  BY <1>1, <1>3 DEF OnStack, Validated
<1>5. /\ {d, g} \subseteq held /\ garbage = {} /\ garbage' = {} /\ raised' = NULL
      /\ UNCHANGED <<objects, dtds, unparsed, held, handler, lastError>>
  BY DEF Push, Running, Quiet
<1> QED BY <1>3, <1>4, <1>5 DEF ValidationTypeOK, Address

\* Leaving a validation, by its end or by an exception.
LEMMA PopKeepsTypes ==
  ASSUME ValidationTypeOK, frames # <<>>, frames' = Outer,
         extSubset' \in [Doc -> Dtd \cup {NULL}], raised' \in Address,
         garbage = {}, garbage' = {}, UNCHANGED <<objects, dtds, unparsed, held, handler, lastError>>
  PROVE  ValidationTypeOK'
<1>1. /\ frames' \in Seq(Frame) /\ DOMAIN frames' = 1..Depth - 1 /\ Depth \in Nat
      /\ \A i \in 1..Depth - 1 : frames'[i] = frames[i]
      /\ DOMAIN frames = 1..Depth
  BY OuterFrames DEF ValidationTypeOK
<1>2. OnStack' \subseteq OnStack
  BY <1>1 DEF OnStack, Validated
<1> QED BY <1>1, <1>2 DEF ValidationTypeOK

\* A report, and the return from the handler.
LEMMA FlagKeepsTypes ==
  ASSUME ValidationTypeOK, frames # <<>>, NEW g \in Frame,
         g.doc = Innermost.doc, g.by = Innermost.by,
         frames' = [frames EXCEPT ![Depth] = g],
         lastError' \in Address, raised' \in Address,
         garbage = {}, garbage' = {}, UNCHANGED <<heap, held, handler>>
  PROVE  ValidationTypeOK'
<1>1. /\ Depth \in DOMAIN frames /\ frames' \in Seq(Frame) /\ DOMAIN frames' = DOMAIN frames
      /\ \A i \in DOMAIN frames : frames'[i] = IF i = Depth THEN g ELSE frames[i]
  BY FlaggedFrames DEF ValidationTypeOK
<1>2. OnStack' = OnStack
  BY <1>1 DEF OnStack, Validated, Innermost
<1> QED BY <1>1, <1>2 DEF ValidationTypeOK, heap

\* What a report and a return write into the innermost frame.
LEMMA Flags ==
  ASSUME ValidationTypeOK, frames # <<>>
  PROVE  /\ handler_returns =>
              \E g \in Frame : /\ frames' = [frames EXCEPT ![Depth] = g]
                               /\ g.doc = Innermost.doc /\ g.by = Innermost.by
                               /\ g.saved = Innermost.saved /\ g.reported = Innermost.reported
         /\ structuredErrorFunc =>
              \E g \in Frame : /\ frames' = [frames EXCEPT ![Depth] = g]
                               /\ g.doc = Innermost.doc /\ g.by = Innermost.by
                               /\ g.saved = Innermost.saved /\ g.reported
<1>1. Depth \in DOMAIN frames /\ Innermost \in Frame /\ Innermost = frames[Depth]
  BY OuterFrames DEF ValidationTypeOK, Innermost
<1>2. ASSUME NEW b \in BOOLEAN
      PROVE  LET g == [Innermost EXCEPT !.calling = b, !.reported = TRUE]
             IN /\ g \in Frame /\ g.doc = Innermost.doc /\ g.by = Innermost.by
                /\ g.saved = Innermost.saved /\ g.reported
                /\ [frames EXCEPT ![Depth].calling = b, ![Depth].reported = TRUE]
                     = [frames EXCEPT ![Depth] = g]
  BY <1>1 DEF Frame, ValidationTypeOK
<1>3. LET g == [Innermost EXCEPT !.calling = FALSE]
      IN /\ g \in Frame /\ g.doc = Innermost.doc /\ g.by = Innermost.by
         /\ g.saved = Innermost.saved /\ g.reported = Innermost.reported
         /\ [frames EXCEPT ![Depth].calling = FALSE] = [frames EXCEPT ![Depth] = g]
  BY <1>1 DEF Frame
<1> QED BY <1>2, <1>3 DEF handler_returns, structuredErrorFunc
\* Validating keeps the types.
LEMMA ValidateKeepsTypes ==
  ASSUME ValidationTypeOK, Validate
  PROVE  ValidationTypeOK'
<1>1. extSubset \in [Doc -> Dtd \cup {NULL}] /\ {lastError, raised} \subseteq Address /\ NULL \in Address
  BY DEF ValidationTypeOK, Address
<1>2. ASSUME NEW d \in Doc, NEW t \in Dtd, validate_dtd(d, t) PROVE ValidationTypeOK'
  BY <1>1, <1>2, PushKeepsTypes DEF validate_dtd
<1>3. ASSUME NEW d \in Doc, NEW s \in Schema, validate_schema(d, s) \/ validate_relaxng(d, s)
      PROVE  ValidationTypeOK'
  BY <1>1, <1>3, PushKeepsTypes DEF validate_schema, validate_relaxng
<1>4. CASE validate_valid \/ validate_invalid
  <2>1. frames # <<>> /\ Pop /\ garbage = {} /\ garbage' = {} /\ raised' \in Address
    BY <1>1, <1>4 DEF validate_valid, validate_invalid, Validating, Quiet, rxml_raise
  <2>2. Innermost.doc \in Doc /\ Innermost.saved \in Dtd \cup {NULL}
    BY <2>1, OuterFrames DEF ValidationTypeOK, Frame
  <2>3. extSubset' \in [Doc -> Dtd \cup {NULL}]
    BY <1>1, <2>1, <2>2 DEF Pop
  <2> QED BY <2>1, <2>3, PopKeepsTypes DEF Pop
<1> QED BY <1>2, <1>3, <1>4 DEF Validate

\* Reports, exceptions and handlers keep the types.
LEMMA ErrorsKeepTypes ==
  ASSUME ValidationTypeOK, Errors
  PROVE  ValidationTypeOK'
<1>1. {lastError, raised} \subseteq Address /\ NULL \in Address
  BY DEF ValidationTypeOK, Address
<1>2. ASSUME NEW b \in BOOLEAN, set_handler(b) PROVE ValidationTypeOK'
  BY <1>1, <1>2 DEF set_handler, heap, Quiet, Running, ValidationTypeOK, OnStack, Validated
<1>3. CASE raise_stale
  BY <1>1, <1>3 DEF raise_stale, rxml_raise, heap, Running, ValidationTypeOK, OnStack, Validated
<1>4. CASE structuredErrorFunc
  <2>1. /\ frames # <<>> /\ lastError' = Innermost.doc /\ raised' = NULL
        /\ garbage = {} /\ garbage' = {} /\ UNCHANGED <<heap, held, handler>>
    BY <1>4 DEF structuredErrorFunc, Validating, Quiet
  <2>2. Innermost.doc \in Address
    BY <2>1, OuterFrames DEF ValidationTypeOK, Frame, Address
  <2> QED BY <1>1, <1>4, <2>1, <2>2, Flags, FlagKeepsTypes
<1>5. CASE handler_returns
  <2>1. /\ frames # <<>> /\ lastError' = lastError /\ raised' = NULL
        /\ garbage = {} /\ garbage' = {} /\ UNCHANGED <<heap, held, handler>>
    BY <1>5 DEF handler_returns, Running, Quiet
  <2> QED BY <1>1, <1>5, <2>1, Flags, FlagKeepsTypes
<1>6. CASE handler_raises
  <2>1. /\ frames # <<>> /\ frames' = Outer /\ raised' = NULL
        /\ garbage = {} /\ garbage' = {} /\ UNCHANGED <<heap, held, handler, lastError>>
    BY <1>6 DEF handler_raises, Running, Quiet
  <2> QED BY <1>1, <2>1, PopKeepsTypes DEF heap, ValidationTypeOK
<1> QED BY <1>2, <1>3, <1>4, <1>5, <1>6 DEF Errors

\* The collector keeps the types: it finalizes nothing that is in use.
LEMMA CollectKeepsTypes ==
  ASSUME ValidationTypeOK, Collect
  PROVE  ValidationTypeOK'
<1>1. {lastError, raised} \subseteq Address /\ {NULL, Freed} \subseteq Address
  BY DEF ValidationTypeOK, Address
<1>2. CASE gc_mark
  BY <1>1, <1>2 DEF gc_mark, Marked, heap, Quiet, ValidationTypeOK, OnStack, Validated
<1>3. ASSUME NEW o \in Object, sweep(o) PROVE ValidationTypeOK'
  <2>1. /\ o \in garbage /\ garbage' = garbage \ {o} /\ objects' = objects \ {o}
        /\ unparsed' = unparsed \ {o}
        /\ raised' = NULL /\ UNCHANGED <<held, frames, handler>>
    BY <1>3 DEF sweep, Quiet
  <2>2. OnStack' = OnStack
    BY <2>1 DEF OnStack, Validated
  <2>3. dtds' \subseteq Dtd /\ extSubset' \in [Doc -> Dtd \cup {NULL}] /\ lastError' \in Address
    BY <1>1, <1>3 DEF sweep, document_free, dtd_free, schema_free, Forget, ValidationTypeOK
  <2> QED BY <1>1, <2>1, <2>2, <2>3 DEF ValidationTypeOK
<1> QED BY <1>2, <1>3 DEF Collect

\* Every step keeps the types.
LEMMA NextKeepsTypes ==
  ASSUME ValidationTypeOK, [Next]_vars
  PROVE  ValidationTypeOK'
<1>1. ASSUME NEW o \in held, drop(o) PROVE ValidationTypeOK'
  BY <1>1 DEF drop, heap, Quiet, Running, ValidationTypeOK, OnStack, Validated, Address
<1>2. CASE UNCHANGED vars
  BY <1>2 DEF vars, ValidationTypeOK, OnStack, Validated
<1> QED
  BY <1>1, <1>2, MakeKeepsTypes, ValidateKeepsTypes, ErrorsKeepTypes, CollectKeepsTypes DEF Next

\* The variables are typed, and what the program or a running validation
\* refers to exists and is not being finalized: the collector never takes a
\* document, a DTD or a schema away from a validation.
THEOREM ValidationTyped == Spec => []ValidationTypeOK
<1>1. Init => ValidationTypeOK
  BY DEF Init, ValidationTypeOK, OnStack, Validated, Address
<1>2. ValidationTypeOK /\ [Next]_vars => ValidationTypeOK'
  BY NextKeepsTypes
<1> QED BY <1>1, <1>2, PTL DEF Spec
-----------------------------------------------------------------------------
(* Who owns a DTD.                                                         *)

\* Of the stack s: if document d has DTD t as external subset, a validation
\* of d against t is under way below place i.
PutThere(s, i, d, t) == \E j \in 1..i - 1 : s[j].doc = d /\ s[j].by = t

\* A Dtd object has its DTD; a DTD that is an external subset was put there
\* by a validation that is under way, and so was the one that a validation
\* found there and will put back.
SubsetsBorrowed(s, n, ext) ==
  /\ \A d \in Doc : ext[d] # NULL => PutThere(s, n + 1, d, ext[d])
  /\ \A i \in 1..n :
       (s[i].by \in Dtd /\ s[i].saved # NULL) => PutThere(s, i, s[i].doc, s[i].saved)

OwnerInv ==
  /\ ValidationTypeOK
  /\ dtds = objects \cap Dtd
  /\ SubsetsBorrowed(frames, Depth, extSubset)

\* With the same stack and external subsets nothing changes hands.
LEMMA SameStackBorrowed ==
  ASSUME SubsetsBorrowed(frames, Depth, extSubset), UNCHANGED <<frames, extSubset>>
  PROVE  SubsetsBorrowed(frames', Depth', extSubset')
BY DEF SubsetsBorrowed, PutThere, Depth

\* Starting a validation.
LEMMA PushBorrowed ==
  ASSUME OwnerInv, NEW d \in Doc, NEW g \in Dtd \cup Schema, Push(d, g),
         extSubset' = IF g \in Dtd THEN [extSubset EXCEPT ![d] = g] ELSE extSubset
  PROVE  SubsetsBorrowed(frames', Depth', extSubset')
<1> DEFINE f == [doc |-> d, by |-> g, saved |-> extSubset[d],
                 calling |-> FALSE, reported |-> FALSE]
<1>1. f \in Frame /\ f.doc = d /\ f.by = g /\ f.saved = extSubset[d]
  BY DEF OwnerInv, ValidationTypeOK, Frame
<1>2. frames' = Append(frames, f)
  BY DEF Push
<1> HIDE DEF f
<1>3. /\ DOMAIN frames' = 1..Depth + 1 /\ Depth \in Nat /\ Depth' = Depth + 1
      /\ \A i \in 1..Depth : frames'[i] = frames[i]
      /\ frames'[Depth + 1] = f
  BY <1>1, <1>2, PushedFrames DEF OwnerInv, ValidationTypeOK, Depth
<1>4. ASSUME NEW i \in Nat, i <= Depth + 1, NEW b, NEW t, PutThere(frames, i, b, t)
      PROVE  PutThere(frames', i, b, t)
  BY <1>3, <1>4 DEF PutThere
<1>5. ASSUME NEW b \in Doc, extSubset'[b] # NULL
      PROVE  PutThere(frames', Depth' + 1, b, extSubset'[b])
  <2>1. CASE b = d /\ g \in Dtd
    <3>1. extSubset'[b] = g
      BY <2>1 DEF OwnerInv, ValidationTypeOK
    <3> QED BY <1>1, <1>3, <2>1, <3>1 DEF PutThere
  <2>2. CASE ~(b = d /\ g \in Dtd)
    <3>1. extSubset'[b] = extSubset[b]
      BY <2>2 DEF OwnerInv, ValidationTypeOK
    <3>2. PutThere(frames', Depth + 1, b, extSubset[b])
      BY <1>3, <1>4, <1>5, <3>1 DEF OwnerInv, SubsetsBorrowed
    <3> QED BY <1>3, <3>1, <3>2 DEF PutThere
  <2> QED BY <2>1, <2>2
<1>6. ASSUME NEW i \in 1..Depth', frames'[i].by \in Dtd, frames'[i].saved # NULL
      PROVE  PutThere(frames', i, frames'[i].doc, frames'[i].saved)
  <2>1. CASE i \in 1..Depth
    BY <1>3, <1>4, <1>6, <2>1 DEF OwnerInv, SubsetsBorrowed
  <2>2. CASE i = Depth + 1
    BY <1>1, <1>3, <1>4, <1>6, <2>2 DEF OwnerInv, SubsetsBorrowed
  <2> QED BY <1>3, <1>6, <2>1, <2>2
<1> QED BY <1>5, <1>6 DEF SubsetsBorrowed

\* Leaving a validation with what it found put back; an exception, which
\* puts back nothing, leaves only validations against schemas.
LEMMA PopBorrowed ==
  ASSUME OwnerInv, frames # <<>>, frames' = Outer,
         extSubset' = [extSubset EXCEPT
           ![Innermost.doc] = IF Innermost.by \in Dtd THEN Innermost.saved ELSE @]
  PROVE  SubsetsBorrowed(frames', Depth', extSubset')
<1>0. frames \in Seq(Frame)
  BY DEF OwnerInv, ValidationTypeOK
<1>1. /\ DOMAIN frames' = 1..Depth - 1 /\ Depth \in Nat \ {0} /\ Depth' = Depth - 1
      /\ \A i \in 1..Depth - 1 : frames'[i] = frames[i]
      /\ Innermost = frames[Depth] /\ Innermost \in Frame
  <2>1. Depth' = Len(Outer)
    BY DEF Depth
  <2>2. Innermost = frames[Depth]
    BY DEF Innermost
  <2> QED BY <1>0, <2>1, <2>2, OuterFrames
<1>2. ASSUME NEW i \in Nat, i <= Depth, NEW b, NEW t, PutThere(frames, i, b, t)
      PROVE  PutThere(frames', i, b, t)
  BY <1>1, <1>2 DEF PutThere
<1>3. ASSUME NEW b \in Doc, extSubset'[b] # NULL
      PROVE  PutThere(frames', Depth' + 1, b, extSubset'[b])
  <2>1. CASE b = Innermost.doc /\ Innermost.by \in Dtd
    <3>1. extSubset'[b] = Innermost.saved
      BY <2>1 DEF OwnerInv, ValidationTypeOK
    <3>2. PutThere(frames', Depth, b, Innermost.saved)
      BY <1>1, <1>2, <1>3, <2>1, <3>1 DEF OwnerInv, SubsetsBorrowed
    <3> QED BY <1>1, <3>1, <3>2 DEF PutThere
  <2>2. CASE ~(b = Innermost.doc /\ Innermost.by \in Dtd)
    <3>1. extSubset'[b] = extSubset[b] /\ extSubset[b] \in Dtd
      BY <1>3, <2>2 DEF OwnerInv, ValidationTypeOK
    <3>2. PICK j \in 1..Depth : frames[j].doc = b /\ frames[j].by = extSubset[b]
      BY <1>1, <1>3, <3>1 DEF OwnerInv, SubsetsBorrowed, PutThere
    <3>3. j \in 1..Depth - 1
      BY <1>1, <2>2, <3>1, <3>2
    <3> QED BY <1>1, <3>1, <3>2, <3>3 DEF PutThere
  <2> QED BY <2>1, <2>2
<1>4. ASSUME NEW i \in 1..Depth', frames'[i].by \in Dtd, frames'[i].saved # NULL
      PROVE  PutThere(frames', i, frames'[i].doc, frames'[i].saved)
  BY <1>1, <1>2, <1>4 DEF OwnerInv, SubsetsBorrowed
<1> QED BY <1>3, <1>4 DEF SubsetsBorrowed

\* A stack of the same validations borrows the same DTDs.
LEMMA SameCallsBorrowed ==
  ASSUME Depth \in Nat, Depth' = Depth, UNCHANGED extSubset,
         SubsetsBorrowed(frames, Depth, extSubset),
         \A i \in 1..Depth : /\ frames'[i].doc = frames[i].doc
                             /\ frames'[i].by = frames[i].by
                             /\ frames'[i].saved = frames[i].saved
  PROVE  SubsetsBorrowed(frames', Depth', extSubset')
<1>1. ASSUME NEW i \in Nat, i <= Depth + 1, NEW b, NEW t, PutThere(frames, i, b, t)
      PROVE  PutThere(frames', i, b, t)
  BY <1>1 DEF PutThere
<1>2. ASSUME NEW d \in Doc, extSubset'[d] # NULL
      PROVE  PutThere(frames', Depth' + 1, d, extSubset'[d])
  BY <1>1, <1>2 DEF SubsetsBorrowed
<1>3. ASSUME NEW i \in 1..Depth', frames'[i].by \in Dtd, frames'[i].saved # NULL
      PROVE  PutThere(frames', i, frames'[i].doc, frames'[i].saved)
  BY <1>1, <1>3 DEF SubsetsBorrowed
<1> QED BY <1>2, <1>3 DEF SubsetsBorrowed

\* A change of flags.
LEMMA FlagBorrowed ==
  ASSUME OwnerInv, frames # <<>>, NEW g \in Frame, g.doc = Innermost.doc,
         g.by = Innermost.by, g.saved = Innermost.saved,
         frames' = [frames EXCEPT ![Depth] = g], UNCHANGED extSubset
  PROVE  SubsetsBorrowed(frames', Depth', extSubset')
<1>1. /\ Depth' = Depth /\ Depth \in Nat
      /\ \A i \in 1..Depth : /\ frames'[i].doc = frames[i].doc
                             /\ frames'[i].by = frames[i].by
                             /\ frames'[i].saved = frames[i].saved
  BY FlaggedFrames DEF OwnerInv, ValidationTypeOK, Depth, Innermost
<1> QED BY <1>1, SameCallsBorrowed DEF OwnerInv
\* Making an object keeps the owners.
LEMMA MakeKeepsOwner ==
  ASSUME OwnerInv, Make
  PROVE  dtds' = objects' \cap Dtd /\ SubsetsBorrowed(frames', Depth', extSubset')
<1>1. UNCHANGED <<frames, extSubset>>
  BY DEF Make, document_new, document_edit, dtd_initialize, schema_init, relaxng_init, relaxng_init_fails,
         parse_fails, heap
<1>2. dtds' = objects' \cap Dtd
  <2>1. ASSUME NEW d \in Doc, document_new(d) \/ document_edit(d)
        PROVE  dtds' = objects' \cap Dtd
    BY <2>1, ObjectsDistinct DEF OwnerInv, document_new, document_edit, New, heap
  <2>2. ASSUME NEW t \in Dtd, dtd_initialize(t)
        PROVE  dtds' = objects' \cap Dtd
    BY <2>2 DEF OwnerInv, dtd_initialize, New
  <2>3. ASSUME NEW s \in Schema, schema_init(s) \/ relaxng_init(s) \/ relaxng_init_fails(s)
        PROVE  dtds' = objects' \cap Dtd
    BY <2>3, ObjectsDistinct DEF OwnerInv, schema_init, relaxng_init, relaxng_init_fails, New
  <2>4. CASE parse_fails
    BY <2>4 DEF OwnerInv, parse_fails, heap
  <2> QED BY <2>1, <2>2, <2>3, <2>4 DEF Make
<1> QED BY <1>1, <1>2, SameStackBorrowed DEF OwnerInv

\* Starting and ending a validation keep the owners.
LEMMA ValidateKeepsOwner ==
  ASSUME OwnerInv, Validate
  PROVE  dtds' = objects' \cap Dtd /\ SubsetsBorrowed(frames', Depth', extSubset')
<1>1. dtds' = objects' \cap Dtd
  BY DEF OwnerInv, Validate, validate_dtd, validate_schema, validate_relaxng, Push,
         validate_valid, validate_invalid, Pop
<1>2. ASSUME NEW d \in Doc, NEW t \in Dtd, validate_dtd(d, t)
      PROVE  SubsetsBorrowed(frames', Depth', extSubset')
  BY <1>2, PushBorrowed DEF validate_dtd
<1>3. ASSUME NEW d \in Doc, NEW s \in Schema, validate_schema(d, s) \/ validate_relaxng(d, s)
      PROVE  SubsetsBorrowed(frames', Depth', extSubset')
  BY <1>3, PushBorrowed, ObjectsDistinct DEF validate_schema, validate_relaxng
<1>4. ASSUME validate_valid \/ validate_invalid
      PROVE  SubsetsBorrowed(frames', Depth', extSubset')
  BY <1>4, PopBorrowed DEF validate_valid, validate_invalid, Validating, Pop
<1> QED BY <1>1, <1>2, <1>3, <1>4 DEF Validate

\* Reports keep the owners, and exceptions that leave no DTD validation.
LEMMA ErrorsKeepOwner ==
  ASSUME OwnerInv, Errors, "dtd_handlers_return" \in Rules
  PROVE  dtds' = objects' \cap Dtd /\ SubsetsBorrowed(frames', Depth', extSubset')
<1>1. dtds' = objects' \cap Dtd /\ extSubset' = extSubset
  BY DEF OwnerInv, Errors, set_handler, raise_stale, structuredErrorFunc, handler_returns,
         handler_raises, heap
<1>2. ASSUME NEW b \in BOOLEAN, set_handler(b)
      PROVE  SubsetsBorrowed(frames', Depth', extSubset')
  BY <1>2, SameStackBorrowed DEF OwnerInv, set_handler, heap
<1>3. CASE raise_stale
  BY <1>3, SameStackBorrowed DEF OwnerInv, raise_stale, heap
<1>4. CASE structuredErrorFunc \/ handler_returns
  <2>1. frames # <<>>
    BY <1>4 DEF structuredErrorFunc, Validating, handler_returns
  <2> QED BY <1>1, <1>4, <2>1, Flags, FlagBorrowed DEF OwnerInv
<1>5. CASE handler_raises
  <2>1. frames # <<>> /\ frames' = Outer /\ Innermost.by \notin Dtd
    BY <1>5 DEF handler_raises, DtdHandlersReturn
  <2>2. extSubset = [extSubset EXCEPT ![Innermost.doc] = @]
    BY DEF OwnerInv, ValidationTypeOK
  <2> QED BY <1>1, <2>1, <2>2, PopBorrowed
<1> QED BY <1>1, <1>2, <1>3, <1>4, <1>5 DEF Errors

\* The collector keeps the owners: a document that is freed has no external
\* subset of a Dtd object to free with it.
LEMMA CollectKeepsOwner ==
  ASSUME OwnerInv, Collect
  PROVE  dtds' = objects' \cap Dtd /\ SubsetsBorrowed(frames', Depth', extSubset')
<1>1. frames' = frames
  BY DEF Collect, gc_mark, sweep
<1>2. CASE gc_mark
  BY <1>1, <1>2, SameStackBorrowed DEF OwnerInv, gc_mark, heap
<1>3. ASSUME NEW o \in Object, sweep(o)
      PROVE  dtds' = objects' \cap Dtd /\ extSubset' = extSubset
  <2>1. o \in garbage /\ objects' = objects \ {o}
    BY <1>3 DEF sweep
  <2>2. CASE o \in Doc /\ document_free(o)
    <3>1. Depth \in Nat /\ DOMAIN frames = 1..Depth /\ o \notin Validated
      BY <2>1 DEF OwnerInv, ValidationTypeOK, OnStack, Depth
    <3>2. extSubset[o] = NULL
      BY <2>2, <3>1 DEF OwnerInv, SubsetsBorrowed, PutThere, Validated
    <3> QED BY <2>1, <2>2, <3>2, ObjectsDistinct
            DEF document_free, OwnerInv, ValidationTypeOK
  <2>3. CASE o \in Dtd /\ dtd_free(o)
    BY <2>1, <2>3 DEF dtd_free, OwnerInv
  <2>4. CASE o \in Schema /\ schema_free
    BY <2>1, <2>4, ObjectsDistinct DEF schema_free, OwnerInv
  <2> QED BY <1>3, <2>2, <2>3, <2>4 DEF sweep
<1> QED BY <1>1, <1>2, <1>3, SameStackBorrowed DEF Collect, OwnerInv

\* Every step keeps the owners.
LEMMA NextKeepsOwner ==
  ASSUME OwnerInv, [Next]_vars, "dtd_handlers_return" \in Rules
  PROVE  OwnerInv'
<1>1. ValidationTypeOK'
  BY NextKeepsTypes DEF OwnerInv
<1>2. ASSUME NEW o \in held, drop(o)
      PROVE  dtds' = objects' \cap Dtd /\ SubsetsBorrowed(frames', Depth', extSubset')
  BY <1>2, SameStackBorrowed DEF OwnerInv, drop, heap
<1>3. ASSUME UNCHANGED vars
      PROVE  dtds' = objects' \cap Dtd /\ SubsetsBorrowed(frames', Depth', extSubset')
  BY <1>3, SameStackBorrowed DEF OwnerInv, vars
<1> QED
  BY <1>1, <1>2, <1>3, MakeKeepsOwner, ValidateKeepsOwner, ErrorsKeepOwner, CollectKeepsOwner
     DEF Next, OwnerInv

\* If no exception leaves the handler of a DTD validation, a DTD is owned by
\* its Dtd object alone and is freed once: a document has one as external
\* subset only while a validation of that document is under way, and the Dtd
\* object exists as long, however validations nest and objects are collected.
THEOREM DtdHasOneOwner ==
  ASSUME "dtd_handlers_return" \in Rules
  PROVE  Spec => []DtdFreedOnce
<1>1. Init => OwnerInv
  <2>1. Init => ValidationTypeOK
    BY DEF Init, ValidationTypeOK, OnStack, Validated, Address
  <2> QED BY <2>1 DEF Init, OwnerInv, SubsetsBorrowed, Depth
<1>2. OwnerInv /\ [Next]_vars => OwnerInv'
  BY NextKeepsOwner
<1>3. OwnerInv => DtdFreedOnce
  <2> SUFFICES ASSUME OwnerInv, NEW d \in Doc, extSubset[d] # NULL
               PROVE  extSubset[d] \in dtds /\ d \in Validated
    BY DEF OwnerInv, DtdFreedOnce
  <2>1. Depth \in Nat /\ DOMAIN frames = 1..Depth /\ extSubset[d] \in Dtd
    BY DEF OwnerInv, ValidationTypeOK, Depth
  <2>2. PICK j \in 1..Depth : frames[j].doc = d /\ frames[j].by = extSubset[d]
    BY <2>1 DEF OwnerInv, SubsetsBorrowed, PutThere
  <2>3. d \in Validated /\ extSubset[d] \in OnStack
    BY <2>1, <2>2 DEF Validated, OnStack
  <2> QED BY <2>1, <2>3 DEF OwnerInv, ValidationTypeOK
<1> QED BY <1>1, <1>2, <1>3, PTL DEF Spec
-----------------------------------------------------------------------------
(* Whose error a failed validation raises.                                 *)

\* Only the outermost validation has reported an error, and it is the one
\* xmlLastError still says.
OwnErrorLast(s, n, e) == \A i \in 1..n : s[i].reported => i = 1 /\ e = s[i].doc

ErrorInv == ValidationTypeOK /\ OwnErrorLast(frames, Depth, lastError)

\* When a document that is not being validated loses a node, the error that
\* the outermost validation has reported is not about that node.
LEMMA ForgetKeepsOwn ==
  ASSUME ErrorInv, NEW d \in Doc, d \notin Validated, Forget(d), frames' = frames
  PROVE  OwnErrorLast(frames', Depth', lastError')
<1>1. Depth \in Nat /\ DOMAIN frames = 1..Depth /\ Depth' = Depth
  BY DEF ErrorInv, ValidationTypeOK, Depth
<1>2. ASSUME NEW i \in 1..Depth PROVE frames[i].doc # d
  BY <1>1, <1>2 DEF Validated
<1> QED BY <1>1, <1>2 DEF ErrorInv, OwnErrorLast, Forget

\* Nothing changes if neither the stack nor the error does.
LEMMA SameStackKeepsOwn ==
  ASSUME ErrorInv, UNCHANGED <<frames, lastError>>
  PROVE  OwnErrorLast(frames', Depth', lastError')
BY DEF ErrorInv, OwnErrorLast, Depth

\* Leaving a validation leaves the outer ones.
LEMMA PopKeepsOwn ==
  ASSUME ErrorInv, frames # <<>>, frames' = Outer, lastError' = lastError
  PROVE  OwnErrorLast(frames', Depth', lastError')
<1>1. frames \in Seq(Frame) /\ Depth' = Len(Outer)
  BY DEF ErrorInv, ValidationTypeOK, Depth
<1>2. /\ Depth \in Nat \ {0} /\ Depth' = Depth - 1
      /\ \A i \in 1..Depth - 1 : frames'[i] = frames[i]
  BY <1>1, OuterFrames
<1> QED BY <1>2 DEF ErrorInv, OwnErrorLast

\* Making and editing objects, and failing to, keeps the error, if the
\* documents being validated are not edited and handlers cause no errors.
LEMMA MakeKeepsOwn ==
  ASSUME ErrorInv, Make, {"still_tree", "quiet_handlers"} \subseteq Rules
  PROVE  OwnErrorLast(frames', Depth', lastError')
<1>1. ASSUME NEW d \in Doc, document_new(d)
      PROVE  OwnErrorLast(frames', Depth', lastError')
  BY <1>1, SameStackKeepsOwn DEF document_new
<1>2. ASSUME NEW d \in Doc, document_edit(d)
      PROVE  OwnErrorLast(frames', Depth', lastError')
  BY <1>2, ForgetKeepsOwn DEF document_edit, StillTree
<1>3. ASSUME NEW t \in Dtd, dtd_initialize(t)
      PROVE  OwnErrorLast(frames', Depth', lastError')
  BY <1>3, SameStackKeepsOwn DEF dtd_initialize
<1>4. ASSUME NEW s \in Schema, schema_init(s) \/ relaxng_init(s), UNCHANGED lastError
      PROVE  OwnErrorLast(frames', Depth', lastError')
  BY <1>4, SameStackKeepsOwn DEF schema_init, relaxng_init
<1>5. ASSUME NEW s \in Schema, (schema_init(s) /\ QuietHandlers(0)) \/ relaxng_init_fails(s)
      PROVE  OwnErrorLast(frames', Depth', lastError')
  <2>1. frames' = frames /\ Depth <= 0
    BY <1>5 DEF schema_init, relaxng_init_fails, QuietHandlers
  <2>2. Depth' = 0
    BY <2>1 DEF ErrorInv, ValidationTypeOK, Depth
  <2> QED BY <2>2 DEF OwnErrorLast
<1>6. ASSUME parse_fails
      PROVE  OwnErrorLast(frames', Depth', lastError')
  <2>1. frames' = frames /\ Depth <= 0
    BY <1>6 DEF parse_fails, QuietHandlers
  <2>2. Depth' = 0
    BY <2>1 DEF ErrorInv, ValidationTypeOK, Depth
  <2> QED BY <2>2 DEF OwnErrorLast
<1>7. ASSUME NEW s \in Schema, schema_init(s) \/ relaxng_init(s)
      PROVE  OwnErrorLast(frames', Depth', lastError')
  BY <1>4, <1>5, <1>7 DEF schema_init, relaxng_init
<1> QED BY <1>1, <1>2, <1>3, <1>5, <1>6, <1>7 DEF Make

\* Starting and ending a validation keeps the error.
LEMMA ValidateKeepsOwn ==
  ASSUME ErrorInv, Validate
  PROVE  OwnErrorLast(frames', Depth', lastError')
<1>1. ASSUME NEW d \in Doc, NEW g \in Dtd \cup Schema, Push(d, g)
      PROVE  OwnErrorLast(frames', Depth', lastError')
  <2> DEFINE f == [doc |-> d, by |-> g, saved |-> extSubset[d],
                   calling |-> FALSE, reported |-> FALSE]
  <2>1. f \in Frame /\ ~f.reported
    BY DEF ErrorInv, ValidationTypeOK, Frame
  <2>2. frames' = Append(frames, f) /\ lastError' = lastError
    BY <1>1 DEF Push
  <2> HIDE DEF f
  <2>3. /\ Depth \in Nat /\ Depth' = Depth + 1 /\ frames'[Depth + 1] = f
        /\ \A i \in 1..Depth : frames'[i] = frames[i]
    BY <2>1, <2>2, PushedFrames DEF ErrorInv, ValidationTypeOK, Depth
  <2>4. ASSUME NEW i \in 1..Depth + 1, frames'[i].reported
        PROVE  i = 1 /\ lastError' = frames'[i].doc
    <3>1. i # Depth + 1
      BY <2>1, <2>3, <2>4
    <3>2. i \in 1..Depth /\ frames'[i] = frames[i]
      BY <2>3, <3>1
    <3> QED BY <2>2, <2>4, <3>2 DEF ErrorInv, OwnErrorLast
  <2> QED BY <2>3, <2>4 DEF OwnErrorLast
<1>2. ASSUME validate_valid \/ validate_invalid
      PROVE  OwnErrorLast(frames', Depth', lastError')
  BY <1>2, PopKeepsOwn DEF validate_valid, validate_invalid, Validating, Pop
<1> QED
  BY <1>1, <1>2 DEF Validate, validate_dtd, validate_schema, validate_relaxng

\* A report makes the error the outermost validation's own.
LEMMA ErrorsKeepOwn ==
  ASSUME ErrorInv, Errors, "quiet_handlers" \in Rules
  PROVE  OwnErrorLast(frames', Depth', lastError')
<1>1. ASSUME (\E b \in BOOLEAN : set_handler(b)) \/ raise_stale
      PROVE  OwnErrorLast(frames', Depth', lastError')
  BY <1>1, SameStackKeepsOwn DEF set_handler, raise_stale
<1>2. ASSUME structuredErrorFunc
      PROVE  OwnErrorLast(frames', Depth', lastError')
  <2>1. frames # <<>> /\ lastError' = Innermost.doc /\ Depth <= 1
    BY <1>2 DEF structuredErrorFunc, Validating, QuietHandlers
  <2>2. PICK g \in Frame : frames' = [frames EXCEPT ![Depth] = g] /\ g.doc = Innermost.doc
    BY <1>2, <2>1, Flags DEF ErrorInv
  <2>3. Depth \in DOMAIN frames /\ Depth' = Depth /\ frames'[Depth] = g
    BY <2>1, <2>2, FlaggedFrames DEF ErrorInv, ValidationTypeOK, Depth
  <2>4. Depth = 1
    BY <2>1, <2>3 DEF ErrorInv, ValidationTypeOK, Depth
  <2> QED BY <2>1, <2>2, <2>3, <2>4 DEF OwnErrorLast
<1>3. ASSUME handler_returns
      PROVE  OwnErrorLast(frames', Depth', lastError')
  <2>1. frames # <<>> /\ lastError' = lastError
    BY <1>3 DEF handler_returns
  <2>2. PICK g \in Frame : /\ frames' = [frames EXCEPT ![Depth] = g]
                           /\ g.doc = Innermost.doc /\ g.reported = Innermost.reported
    BY <1>3, <2>1, Flags DEF ErrorInv
  <2>3. /\ Depth' = Depth /\ DOMAIN frames = 1..Depth
        /\ \A i \in 1..Depth : frames'[i] = IF i = Depth THEN g ELSE frames[i]
    BY <2>1, <2>2, FlaggedFrames DEF ErrorInv, ValidationTypeOK, Depth
  <2> QED BY <2>1, <2>2, <2>3 DEF ErrorInv, OwnErrorLast, Innermost
<1>4. ASSUME handler_raises
      PROVE  OwnErrorLast(frames', Depth', lastError')
  BY <1>4, PopKeepsOwn DEF handler_raises
<1> QED BY <1>1, <1>2, <1>3, <1>4 DEF Errors

\* The collector frees no document that is being validated.
LEMMA CollectKeepsOwn ==
  ASSUME ErrorInv, Collect
  PROVE  OwnErrorLast(frames', Depth', lastError')
<1>1. ASSUME gc_mark
      PROVE  OwnErrorLast(frames', Depth', lastError')
  BY <1>1, SameStackKeepsOwn DEF gc_mark
<1>2. ASSUME NEW o \in Object, sweep(o)
      PROVE  OwnErrorLast(frames', Depth', lastError')
  <2>1. o \notin Validated /\ frames' = frames
    BY <1>2 DEF sweep, ErrorInv, ValidationTypeOK, OnStack
  <2> QED BY <1>2, <2>1, ForgetKeepsOwn, SameStackKeepsOwn
          DEF sweep, document_free, dtd_free, schema_free
<1> QED BY <1>1, <1>2 DEF Collect

\* Every step keeps the error.
LEMMA NextKeepsOwn ==
  ASSUME ErrorInv, [Next]_vars, {"still_tree", "quiet_handlers"} \subseteq Rules
  PROVE  ErrorInv'
<1>1. ValidationTypeOK'
  BY NextKeepsTypes DEF ErrorInv
<1>2. ASSUME (\E o \in held : drop(o)) \/ UNCHANGED vars
      PROVE  OwnErrorLast(frames', Depth', lastError')
  BY <1>2, SameStackKeepsOwn DEF drop, vars
<1> QED
  BY <1>1, <1>2, MakeKeepsOwn, ValidateKeepsOwn, ErrorsKeepOwn, CollectKeepsOwn
     DEF Next, ErrorInv

\* If handlers cause no errors and leave the documents being validated as
\* they are, a failed validation raises its own error: no collection, no
\* validation that ran inside it and no other edit takes it away.  A
\* validation by a RelaxNG without a grammar has none of its own.
THEOREM FailureRaisesOwnError ==
  ASSUME {"still_tree", "quiet_handlers"} \subseteq Rules
  PROVE  Spec => RaisesOwnError
<1>1. Init => ErrorInv
  <2>1. Init => ValidationTypeOK
    BY DEF Init, ValidationTypeOK, OnStack, Validated, Address
  <2> QED BY <2>1 DEF Init, ErrorInv, OwnErrorLast, Depth
<1>2. ErrorInv /\ [Next]_vars => ErrorInv'
  BY NextKeepsOwn
<1>3. ErrorInv /\ [Next]_vars => [validate_invalid => raised' = Innermost.doc \/ Innermost.by \in unparsed]_vars
  <2> SUFFICES ASSUME ErrorInv, validate_invalid, Innermost.by \notin unparsed
               PROVE  raised' = Innermost.doc
    OBVIOUS
  <2>1. frames # <<>> /\ Innermost.reported /\ raised' = lastError
    BY DEF validate_invalid, Validating, rxml_raise
  <2>2. Depth \in 1..Depth /\ Innermost = frames[Depth]
    BY <2>1, OuterFrames DEF ErrorInv, ValidationTypeOK, Innermost
  <2> QED BY <2>1, <2>2 DEF ErrorInv, OwnErrorLast
<1> QED BY <1>1, <1>2, <1>3, PTL DEF Spec, RaisesOwnError
=============================================================================
