----------------------- MODULE InputCallbacks_proofs -----------------------
(***************************************************************************)
(* Proofs about InputCallbacks, for any schemes, files and documents: the  *)
(* types; that a document is asked of the scheme added first, and removing *)
(* a scheme moves no other's documents; that bytes are read once and in    *)
(* order; and that no context is lost unless document_query raises.        *)
(***************************************************************************)
EXTENDS InputCallbacks, SequenceTheorems, FiniteSetTheorems, TLAPS

\* An interval of positions has a least element.
LEMMA LeastPosition ==
  ASSUME NEW n \in Nat, NEW I \in SUBSET (1..n), I # {}
  PROVE  \E x \in I : \A y \in I : x =< y
<1> DEFINE before(x) == {z \in 1..n : z < x}
           T == {before(x) : x \in I}
           R == StrictSubsetOrdering(1..n)
<1>1. IsFiniteSet(1..n)
  BY FS_Interval
<1>2. IsWellFoundedOn(R, SUBSET (1..n))
  BY <1>1, FS_FiniteSubsetsOfFinite, FS_StrictSubsetOrderingWellFounded
<1>3. T \subseteq SUBSET (1..n) /\ T # {}
  OBVIOUS
<1>4. \E t \in T : \A s \in T : ~ (<<s, t>> \in R)
  <2> HIDE DEF T, R
  <2> QED BY <1>2, <1>3, WFMin
<1>5. PICK x \in I : \A y \in I : ~ (<<before(y), before(x)>> \in R)
  BY <1>4
<1>6. ASSUME NEW y \in I, ~ (x =< y)  PROVE FALSE
  <2>1. before(y) \subseteq before(x) /\ y \in before(x) /\ y \notin before(y)
    BY <1>6
  <2>2. <<before(y), before(x)>> \in R
    BY <2>1 DEF StrictSubsetOrdering
  <2> QED BY <1>5, <2>2
<1> QED BY <1>6

\* What the search of ic_match, ic_open and remove_scheme finds.
IsFirst(i, names) ==
  /\ i \in 0..Len(first_scheme)
  /\ i > 0 => first_scheme[i].name \in names
  /\ \A j \in 1..Len(first_scheme) :
       (i = 0 \/ j < i) => first_scheme[j].name \notin names

LEMMA FirstOfIs ==
  ASSUME first_scheme \in Seq(Scheme), NEW names
  PROVE  IsFirst(FirstOf(names), names)
<1> DEFINE I == {i \in 1..Len(first_scheme) : first_scheme[i].name \in names}
<1>1. FirstOf(names) = IF I # {} THEN Min(I) ELSE 0
  BY DEF FirstOf, SelectInSeq
<1>2. Len(first_scheme) \in Nat
  BY LenProperties
<1>3. CASE I = {}
  BY <1>1, <1>2, <1>3 DEF IsFirst
<1>4. CASE I # {}
  <2>1. \E x \in I : \A y \in I : x =< y
    BY <1>2, <1>4, LeastPosition
  <2>2. Min(I) \in I /\ \A y \in I : Min(I) =< y
    <3> HIDE DEF I
    <3> QED BY <2>1 DEF Min
  <2> DEFINE m == Min(I)
  <2>3. FirstOf(names) = m /\ m \in I /\ \A y \in I : m =< y
    BY <1>1, <1>4, <2>2
  <2> HIDE DEF m
  <2>4. \A j \in 1..Len(first_scheme) : j < m => first_scheme[j].name \notin names
    BY <1>2, <2>3
  <2> QED BY <1>2, <2>3, <2>4 DEF IsFirst
<1> QED BY <1>3, <1>4

-----------------------------------------------------------------------------
(* The invariant.                                                          *)

\* The list is in the order of addition.
Stamped ==
  /\ \A i \in 1..Len(first_scheme) : first_scheme[i].stamp <= added
  /\ \A i, j \in 1..Len(first_scheme) :
       i < j => first_scheme[i].stamp < first_scheme[j].stamp

\* A call under way has its context for itself, and nothing was read from it.
CallsApart ==
  /\ \A k \in calls : k.context \notin opened /\ received[k.context] = <<>>
                      /\ context[k.context] = [Unused EXCEPT !.used = TRUE]
  /\ \A k, l \in calls : k.context = l.context => k = l

\* bpos has moved over the bytes received, and what remains is the rest of
\* the part of the document that was copied.
Progress(c) ==
  /\ context[c].used
  /\ context[c].bpos + context[c].remaining <= context[c].size
  /\ "no_nul" \in Rules =>
       context[c].bpos + context[c].remaining = context[c].size
  /\ Len(received[c]) = context[c].bpos
  /\ \A i \in 1..Len(received[c]) : received[c][i] = i
  /\ context[c].ended => context[c].remaining = 0

ICInv == /\ InputTypeOK /\ Stamped /\ CallsApart
         /\ \A c \in opened : Progress(c)

-----------------------------------------------------------------------------
(* The list.                                                               *)

\* What remove_scheme leaves is the list without the scheme found.
LEMMA WithoutOne ==
  ASSUME first_scheme \in Seq(Scheme), NEW i \in 1..Len(first_scheme)
  PROVE  LET rest == RemoveAt(first_scheme, i)
         IN  /\ rest \in Seq(Scheme)
             /\ Len(rest) = Len(first_scheme) - 1
             /\ \A j \in 1..Len(rest) :
                  rest[j] = first_scheme[IF j < i THEN j ELSE j + 1]
<1> DEFINE n == Len(first_scheme)
           front == SubSeq(first_scheme, 1, i - 1)
           back == SubSeq(first_scheme, i + 1, n)
           rest == RemoveAt(first_scheme, i)
<1>1. n \in Nat /\ i \in 1..n /\ \A j \in 1..n : first_scheme[j] \in Scheme
  BY LenProperties, ElementOfSeq
<1> HIDE DEF n
<1>2. /\ front \in Seq(Scheme) /\ Len(front) = i - 1
      /\ \A j \in 1..(i - 1) : front[j] = first_scheme[j]
  <2>1. \A j \in 1..(i - 1) : first_scheme[j] \in Scheme
    BY <1>1
  <2>2. 1 \in Int /\ i - 1 \in Int
    BY <1>1
  <2>3. /\ front \in Seq(Scheme)
        /\ Len(front) = IF 1 <= i - 1 THEN i - 1 - 1 + 1 ELSE 0
        /\ \A j \in 1..(i - 1 - 1 + 1) : front[j] = first_scheme[1 + j - 1]
    BY <2>1, <2>2, SubSeqProperties
  <2> HIDE DEF front
  <2> QED BY <1>1, <2>3
<1>3. /\ back \in Seq(Scheme) /\ Len(back) = n - i
      /\ \A j \in 1..(n - i) : back[j] = first_scheme[j + i]
  <2>1. \A j \in (i + 1)..n : first_scheme[j] \in Scheme
    BY <1>1
  <2>2. i + 1 \in Int /\ n \in Int
    BY <1>1
  <2>3. /\ back \in Seq(Scheme)
        /\ Len(back) = IF i + 1 <= n THEN n - (i + 1) + 1 ELSE 0
        /\ \A j \in 1..(n - (i + 1) + 1) : back[j] = first_scheme[i + 1 + j - 1]
    BY <2>1, <2>2, SubSeqProperties
  <2> HIDE DEF back
  <2> QED BY <1>1, <2>3
<1>4. rest = front \o back
  BY DEF RemoveAt, n
<1> HIDE DEF front, back, rest
<1>5. /\ rest \in Seq(Scheme) /\ Len(rest) = Len(front) + Len(back)
      /\ \A j \in 1..Len(front) + Len(back) :
           rest[j] = IF j <= Len(front) THEN front[j] ELSE back[j - Len(front)]
  BY <1>2, <1>3, <1>4, ConcatProperties
<1>6. Len(rest) = n - 1
  BY <1>1, <1>2, <1>3, <1>5
<1>7. ASSUME NEW j \in 1..Len(rest)
      PROVE  rest[j] = first_scheme[IF j < i THEN j ELSE j + 1]
  <2>1. CASE j < i
    BY <1>1, <1>2, <1>3, <1>5, <1>6, <1>7, <2>1
  <2>2. CASE ~ (j < i)
    <3>1. j - (i - 1) \in 1..(n - i) /\ j - (i - 1) + i = j + 1
      BY <1>1, <1>6, <1>7, <2>2
    <3>2. rest[j] = back[j - (i - 1)]
      BY <1>1, <1>2, <1>3, <1>5, <1>6, <1>7, <2>2
    <3> QED BY <1>3, <2>2, <3>1, <3>2
  <2> QED BY <2>1, <2>2
<1> QED BY <1>5, <1>6, <1>7 DEF n, rest

\* What the positions of the list hold.
LEMMA ListTyped ==
  ASSUME ICInv
  PROVE  /\ first_scheme \in Seq(Scheme) /\ Len(first_scheme) \in Nat /\ added \in Nat
         /\ \A i \in 1..Len(first_scheme) :
              /\ first_scheme[i] \in Scheme
              /\ first_scheme[i].stamp \in Nat /\ first_scheme[i].name \in Name
              /\ first_scheme[i].class \in Class
<1>1. first_scheme \in Seq(Scheme) /\ added \in Nat
  BY InputBounds DEF ICInv, InputTypeOK
<1>2. Len(first_scheme) \in Nat /\ \A i \in 1..Len(first_scheme) : first_scheme[i] \in Scheme
  BY <1>1, LenProperties, ElementOfSeq
<1> QED BY <1>1, <1>2, InputBounds DEF Scheme

\* Nothing but the list changes.
ListStep == UNCHANGED <<registered, calls, context, opened, received>>

LEMMA ListStepKeeps ==
  ASSUME ICInv, ListStep, first_scheme' \in Seq(Scheme), added' \in 0..MaxAdded, Stamped'
  PROVE  ICInv'
BY DEF ICInv, ListStep, InputTypeOK, CallsApart, Progress

LEMMA AddKeeps ==
  ASSUME ICInv, NEW n \in Name, NEW class \in Class, add_scheme(n, class)
  PROVE  ICInv'
<1> DEFINE s == New(n, class)
           len == Len(first_scheme)
<1>1. s \in Scheme /\ s.stamp = added + 1 /\ added' = added + 1 /\ added' \in 0..MaxAdded
  BY ListTyped, InputBounds DEF add_scheme, New, Scheme, ICInv, InputTypeOK
<1>2. first_scheme' = Append(first_scheme, s) /\ ListStep
  BY DEF add_scheme, ListStep
<1> HIDE DEF s
<1>3. /\ first_scheme' \in Seq(Scheme) /\ Len(first_scheme') = len + 1
      /\ \A i \in 1..len + 1 : first_scheme'[i] = IF i = len + 1 THEN s ELSE first_scheme[i]
  BY <1>1, <1>2, ListTyped, AppendProperties
<1>4. Stamped'
  <2>1. \A i \in 1..len : first_scheme[i].stamp <= added /\ first_scheme[i].stamp \in Nat
    BY ListTyped DEF ICInv, Stamped
  <2>2. \A i, j \in 1..len : i < j => first_scheme[i].stamp < first_scheme[j].stamp
    BY DEF ICInv, Stamped
  <2>3. len \in Nat /\ added \in Nat
    BY ListTyped
  <2> HIDE DEF len
  <2>4. \A i \in 1..len + 1 : first_scheme'[i].stamp <= added'
    BY <1>1, <1>3, <2>1, <2>3
  <2>5. ASSUME NEW i \in 1..len + 1, NEW j \in 1..len + 1, i < j
        PROVE  first_scheme'[i].stamp < first_scheme'[j].stamp
    <3>1. i \in 1..len /\ first_scheme'[i] = first_scheme[i]
      BY <1>3, <2>3, <2>5
    <3>2. CASE j = len + 1
      BY <1>1, <1>3, <2>1, <2>3, <3>1, <3>2
    <3>3. CASE j \in 1..len
      BY <1>3, <2>2, <2>3, <2>5, <3>1, <3>3
    <3> QED BY <2>3, <3>2, <3>3
  <2> QED BY <1>3, <2>4, <2>5 DEF Stamped
<1> QED BY <1>1, <1>2, <1>3, <1>4, ListStepKeeps

\* The scheme that remove_scheme removes, and the rest of the list.
LEMMA Removes ==
  ASSUME ICInv, NEW n \in Name, remove_scheme(n)
  PROVE  \E i \in 1..Len(first_scheme) :
           /\ <<n, first_scheme[i].name>> \in Begins
           /\ first_scheme' \in Seq(Scheme)
           /\ Len(first_scheme') = Len(first_scheme) - 1
           /\ \A j \in 1..Len(first_scheme') :
                first_scheme'[j] = first_scheme[IF j < i THEN j ELSE j + 1]
<1> DEFINE i == Removed(n)
<1>1. IsFirst(i, {m \in Name : <<n, m>> \in Begins}) /\ i > 0
  BY FirstOfIs, ListTyped DEF Removed, remove_scheme
<1>2. first_scheme' = RemoveAt(first_scheme, i)
  BY DEF remove_scheme
<1> HIDE DEF i
<1>3. i \in 1..Len(first_scheme) /\ <<n, first_scheme[i].name>> \in Begins
  <2>1. i \in 1..Len(first_scheme)
    BY <1>1, ListTyped DEF IsFirst
  <2>2. first_scheme[i].name \in {m \in Name : <<n, m>> \in Begins}
    BY <1>1 DEF IsFirst
  <2> QED BY <2>1, <2>2
<1> QED BY <1>2, <1>3, WithoutOne, ListTyped

LEMMA RemoveKeeps ==
  ASSUME ICInv, NEW n \in Name, remove_scheme(n)
  PROVE  ICInv'
<1> DEFINE len == Len(first_scheme)
<1>1. PICK i \in 1..len :
         /\ first_scheme' \in Seq(Scheme)
         /\ Len(first_scheme') = len - 1
         /\ \A j \in 1..Len(first_scheme') :
              first_scheme'[j] = first_scheme[IF j < i THEN j ELSE j + 1]
  BY Removes
<1>2. /\ added' = added /\ added' \in 0..MaxAdded /\ added \in Nat /\ len \in Nat
      /\ ListStep
  BY ListTyped DEF remove_scheme, ListStep, ICInv, InputTypeOK
<1>3. \A j \in 1..len : first_scheme[j].stamp <= added /\ first_scheme[j].stamp \in Nat
  BY ListTyped DEF ICInv, Stamped
<1>4. \A j, k \in 1..len : j < k => first_scheme[j].stamp < first_scheme[k].stamp
  BY DEF ICInv, Stamped
<1> HIDE DEF len
<1>5. \A j \in 1..(len - 1) : /\ (IF j < i THEN j ELSE j + 1) \in 1..len
                              /\ first_scheme'[j] = first_scheme[IF j < i THEN j ELSE j + 1]
  BY <1>1, <1>2
<1>6. Stamped'
  <2>1. \A j \in 1..(len - 1) : first_scheme'[j].stamp <= added'
    BY <1>2, <1>3, <1>5
  <2>2. ASSUME NEW j \in 1..(len - 1), NEW k \in 1..(len - 1), j < k
        PROVE  first_scheme'[j].stamp < first_scheme'[k].stamp
    <3>1. (IF j < i THEN j ELSE j + 1) < (IF k < i THEN k ELSE k + 1)
      BY <1>2, <2>2
    <3> QED BY <1>4, <1>5, <3>1
  <2> QED BY <1>1, <2>1, <2>2 DEF Stamped
<1> QED BY <1>1, <1>2, <1>6, ListStepKeeps

\* Nothing but the documents changes.
ListKept == UNCHANGED <<first_scheme, added>> /\ registered' = registered

LEMMA ListKeptKeeps ==
  ASSUME ICInv, ListKept
  PROVE  /\ registered' \in BOOLEAN /\ first_scheme' \in Seq(Scheme)
         /\ added' \in 0..MaxAdded /\ Stamped'
BY DEF ICInv, ListKept, InputTypeOK, Stamped

\* The contexts that a step leaves as they are.
Same(c) == context'[c] = context[c] /\ received'[c] = received[c]

LEMMA SameProgress ==
  ASSUME NEW c \in Context, Same(c), Progress(c)
  PROVE  Progress(c)'
BY DEF Same, Progress

\* A context as ic_open makes it, and one with the document that came back.
LEMMA NewContextIs ==
  /\ [Unused EXCEPT !.used = TRUE] \in ContextRecord
  /\ \A size, length \in Size :
       LET g == [[Unused EXCEPT !.used = TRUE] EXCEPT !.size = size, !.remaining = length]
       IN  /\ g \in ContextRecord /\ g.used /\ g.bpos = 0 /\ g.remaining = length
           /\ g.size = size /\ ~g.ended
<1>1. Unused \in ContextRecord /\ Unused.bpos = 0 /\ Unused.ended = FALSE
  <2>1. 0 \in Size
    BY InputBounds DEF Size
  <2> QED BY <2>1 DEF Unused, ContextRecord
<1> DEFINE fresh == [Unused EXCEPT !.used = TRUE]
<1>2. /\ fresh \in ContextRecord /\ fresh.used = TRUE
      /\ fresh.bpos = 0 /\ fresh.ended = FALSE
  BY <1>1 DEF ContextRecord
<1> HIDE DEF fresh
<1>3. ASSUME NEW size \in Size, NEW length \in Size
      PROVE  LET g == [fresh EXCEPT !.size = size, !.remaining = length]
             IN  /\ g \in ContextRecord /\ g.used /\ g.bpos = 0 /\ g.remaining = length
                 /\ g.size = size /\ ~g.ended
  BY <1>2 DEF ContextRecord
<1> QED BY <1>2, <1>3 DEF fresh

LEMMA OpenKeeps ==
  ASSUME ICInv, NEW f \in File, NEW c \in Context, ic_open(f, c)
  PROVE  ICInv'
<1> DEFINE k == [context |-> c, file |-> f, class |-> first_scheme[ic_match(f)].class]
           fresh == [Unused EXCEPT !.used = TRUE]
<1>1. ListKept /\ opened' = opened /\ calls' = calls \cup {k} /\ ~context[c].used
  BY DEF ic_open, ListKept
<1>2. /\ context' = [context EXCEPT ![c] = fresh]
      /\ received' = [received EXCEPT ![c] = <<>>]
  BY DEF ic_open
<1>3. k.class \in Class
  <2>1. IsFirst(ic_match(f), {n \in Name : <<f, n>> \in Serves}) /\ ic_match(f) > 0
    BY FirstOfIs, ListTyped DEF ic_match, ic_open
  <2> QED BY <2>1, ListTyped DEF IsFirst
<1>4. k \in [context : Context, file : File, class : Class] /\ k.context = c
  BY <1>3
<1> HIDE DEF k
<1>5. fresh \in ContextRecord
  BY NewContextIs
<1> HIDE DEF fresh
<1>6. /\ calls \subseteq [context : Context, file : File, class : Class]
      /\ context \in [Context -> ContextRecord] /\ opened \subseteq Context
      /\ received \in [Context -> Seq(1..MaxSize)]
  BY DEF ICInv, InputTypeOK
<1>7. /\ context'[c] = fresh /\ received'[c] = <<>>
      /\ \A d \in Context \ {c} : Same(d)
  BY <1>2, <1>6 DEF Same
<1>8. InputTypeOK'
  BY <1>1, <1>2, <1>4, <1>5, <1>6, ListKeptKeeps, EmptySeq DEF InputTypeOK
<1>9. c \notin opened /\ \A l \in calls : l.context \in Context \ {c}
  <2>1. ASSUME NEW l \in calls  PROVE l.context \in Context \ {c}
    <3>1. l.context \in Context /\ context[l.context] = [Unused EXCEPT !.used = TRUE]
      BY <1>6 DEF ICInv, CallsApart
    <3> QED BY <1>1, <3>1 DEF Unused
  <2> QED BY <1>1, <2>1 DEF ICInv, Progress
<1>10. CallsApart'
  <2>1. \A l \in calls' : l.context \notin opened' /\ received'[l.context] = <<>>
                          /\ context'[l.context] = [Unused EXCEPT !.used = TRUE]
    BY <1>1, <1>4, <1>7, <1>9 DEF ICInv, CallsApart, Same, fresh
  <2>2. \A l, m \in calls' : l.context = m.context => l = m
    BY <1>1, <1>4, <1>9 DEF ICInv, CallsApart
  <2> QED BY <2>1, <2>2 DEF CallsApart
<1>11. \A d \in opened' : Progress(d)'
  BY <1>1, <1>6, <1>7, <1>9, SameProgress DEF ICInv
<1> QED BY <1>1, <1>8, <1>10, <1>11, ListKeptKeeps DEF ICInv

LEMMA ReturnsKeeps ==
  ASSUME ICInv, NEW k \in calls, NEW size \in Size, NEW length \in Size,
         NoNul(size, length), document_query_returns(k, size, length)
  PROVE  ICInv'
<1> DEFINE c == k.context
           fresh == [Unused EXCEPT !.used = TRUE]
           g == [fresh EXCEPT !.size = size, !.remaining = length]
<1>1. /\ calls \subseteq [context : Context, file : File, class : Class]
      /\ context \in [Context -> ContextRecord] /\ opened \subseteq Context
      /\ received \in [Context -> Seq(1..MaxSize)]
  BY DEF ICInv, InputTypeOK
<1>2. /\ ListKept /\ opened' = opened \cup {c} /\ calls' = calls \ {k}
      /\ received' = received /\ length <= size
  BY DEF document_query_returns, ListKept
<1>3. c \in Context /\ c \notin opened /\ received[c] = <<>> /\ context[c] = fresh
  BY <1>1 DEF ICInv, CallsApart
<1>4. context' = [context EXCEPT ![c] = g]
  <2>1. context' = [context EXCEPT ![c].size = size, ![c].remaining = length]
    BY DEF document_query_returns
  <2>2. g = [context[c] EXCEPT !.size = size, !.remaining = length]
    BY <1>3
  <2> HIDE DEF g, c
  <2> QED BY <1>1, <1>3, <2>1, <2>2 DEF ContextRecord
<1>5. /\ g \in ContextRecord /\ g.used /\ g.bpos = 0 /\ g.remaining = length
      /\ g.size = size /\ ~g.ended
  BY NewContextIs
<1> HIDE DEF g, fresh
<1>6. context'[c] = g /\ \A d \in Context \ {c} : Same(d)
  BY <1>1, <1>2, <1>3, <1>4 DEF Same
<1>7. InputTypeOK'
  BY <1>1, <1>2, <1>3, <1>4, <1>5, ListKeptKeeps DEF InputTypeOK
<1>8. \A l \in calls' : l \in calls /\ l.context \in Context \ {c}
  BY <1>1, <1>2 DEF ICInv, CallsApart
<1>9. CallsApart'
  BY <1>2, <1>6, <1>8 DEF ICInv, CallsApart, Same
<1>10. Progress(c)'
  <2>1. /\ context'[c].used /\ context'[c].bpos = 0 /\ context'[c].remaining = length
        /\ context'[c].size = size /\ ~context'[c].ended /\ received'[c] = <<>>
    BY <1>2, <1>3, <1>5, <1>6
  <2>2. length \in Nat /\ size \in Nat /\ length <= size /\ Len(<<>>) = 0
    BY <1>2, InputBounds DEF Size
  <2> HIDE DEF c
  <2> QED BY <2>1, <2>2 DEF Progress, NoNul
<1>11. \A d \in opened' : Progress(d)'
  BY <1>1, <1>2, <1>3, <1>6, <1>10, SameProgress DEF ICInv
<1> QED BY <1>7, <1>9, <1>11, <1>2, ListKeptKeeps DEF ICInv

LEMMA RaisesKeeps ==
  ASSUME ICInv, NEW k \in calls, document_query_raises(k)
  PROVE  ICInv'
BY DEF document_query_raises, ICInv, InputTypeOK, Stamped, CallsApart, Progress

LEMMA ReadKeeps ==
  ASSUME ICInv, NEW c \in Context, NEW len \in 1..MaxSize, ic_read(c, len)
  PROVE  ICInv'
<1> DEFINE h == context[c]
           ret_len == IF len >= h.remaining THEN h.remaining ELSE len
           piece == [i \in 1..ret_len |-> h.bpos + i]
           g == [h EXCEPT !.remaining = h.remaining - ret_len, !.bpos = h.bpos + ret_len,
                          !.ended = (ret_len = 0)]
<1>1. /\ calls \subseteq [context : Context, file : File, class : Class]
      /\ context \in [Context -> ContextRecord] /\ opened \subseteq Context
      /\ received \in [Context -> Seq(1..MaxSize)]
  BY DEF ICInv, InputTypeOK
<1>2. /\ ListKept /\ opened' = opened /\ calls' = calls /\ c \in opened
      /\ received' = [received EXCEPT ![c] = received[c] \o piece]
      /\ context' = [context EXCEPT ![c].remaining = @ - ret_len,
                                    ![c].bpos = h.bpos + ret_len,
                                    ![c].ended = (ret_len = 0)]
  BY DEF ic_read, Read, ListKept
<1>3. Progress(c) /\ h \in ContextRecord /\ received[c] \in Seq(1..MaxSize)
  BY <1>1, <1>2 DEF ICInv
<1>4. /\ h.used /\ h.size \in 0..MaxSize /\ h.bpos \in 0..MaxSize
      /\ h.remaining \in 0..MaxSize /\ MaxSize \in Nat
      /\ h.bpos + h.remaining <= h.size
      /\ "no_nul" \in Rules => h.bpos + h.remaining = h.size
  BY <1>3, InputBounds DEF Progress, ContextRecord, Size
<1>5. /\ Len(received[c]) = h.bpos
      /\ \A i \in 1..Len(received[c]) : received[c][i] = i
  BY <1>3 DEF Progress
<1>6. context' = [context EXCEPT ![c] = g]
  BY <1>1, <1>2
<1> HIDE DEF h
<1>7. ret_len \in 0..h.remaining
  BY <1>4
<1> HIDE DEF ret_len
<1>8. /\ g \in ContextRecord /\ g.used = h.used /\ g.size = h.size
      /\ g.bpos = h.bpos + ret_len /\ g.remaining = h.remaining - ret_len
      /\ g.ended = (ret_len = 0)
  <2>1. h.remaining - ret_len \in Size /\ h.bpos + ret_len \in Size
    BY <1>4, <1>7 DEF Size
  <2> QED BY <1>3, <2>1 DEF ContextRecord
<1> HIDE DEF g
<1>9. /\ piece \in Seq(1..MaxSize) /\ Len(piece) = ret_len
      /\ \A i \in 1..ret_len : piece[i] = h.bpos + i
  <2>1. ret_len \in Nat /\ \A i \in 1..ret_len : h.bpos + i \in 1..MaxSize
    BY <1>4, <1>7
  <2>2. piece \in [1..ret_len -> 1..MaxSize]
    BY <2>1
  <2> QED BY <2>1, <2>2, SeqDef
<1> HIDE DEF piece
<1>10. /\ received'[c] \in Seq(1..MaxSize)
       /\ Len(received'[c]) = h.bpos + ret_len
       /\ \A i \in 1..h.bpos + ret_len : received'[c][i] = i
  <2>1. received'[c] = received[c] \o piece
    BY <1>1, <1>2
  <2>2. /\ received'[c] \in Seq(1..MaxSize)
        /\ Len(received'[c]) = h.bpos + ret_len
        /\ \A i \in 1..h.bpos + ret_len :
             received'[c][i] = IF i <= h.bpos THEN received[c][i] ELSE piece[i - h.bpos]
    <3> DEFINE Byte == 1..MaxSize
    <3>1. received[c] \in Seq(Byte) /\ piece \in Seq(Byte)
      BY <1>3, <1>9
    <3> HIDE DEF Byte
    <3>2. /\ received[c] \o piece \in Seq(Byte)
          /\ Len(received[c] \o piece) = Len(received[c]) + Len(piece)
          /\ \A i \in 1..Len(received[c]) + Len(piece) :
               (received[c] \o piece)[i] = IF i <= Len(received[c]) THEN received[c][i]
                                           ELSE piece[i - Len(received[c])]
      BY <3>1, ConcatProperties
    <3> QED BY <1>5, <1>9, <2>1, <3>2 DEF Byte
  <2>3. ASSUME NEW i \in 1..h.bpos + ret_len  PROVE received'[c][i] = i
    <3>1. CASE i <= h.bpos
      <4>1. received'[c][i] = received[c][i]
        BY <2>2, <3>1
      <4>2. i \in 1..Len(received[c])
        BY <1>4, <1>5, <1>7, <3>1
      <4> QED BY <1>5, <4>1, <4>2
    <3>2. CASE ~ (i <= h.bpos)
      <4>1. i - h.bpos \in 1..ret_len /\ h.bpos + (i - h.bpos) = i
        BY <1>4, <1>7, <3>2
      <4> QED BY <1>9, <2>2, <3>2, <4>1
    <3> QED BY <3>1, <3>2
  <2> QED BY <2>2, <2>3
<1>11. /\ context'[c] = g /\ context' \in [Context -> ContextRecord]
       /\ received' \in [Context -> Seq(1..MaxSize)]
       /\ \A d \in Context \ {c} : Same(d)
  BY <1>1, <1>2, <1>6, <1>8, <1>10 DEF Same
<1>12. InputTypeOK'
  BY <1>1, <1>2, <1>11, ListKeptKeeps DEF InputTypeOK
<1>13. CallsApart'
  <2>1. \A k \in calls : k.context \in Context \ {c}
    BY <1>1, <1>2 DEF ICInv, CallsApart
  <2> QED BY <1>2, <1>11, <2>1 DEF ICInv, CallsApart, Same
<1>14. Progress(c)'
  <2>1. context'[c].bpos + context'[c].remaining = h.bpos + h.remaining
    BY <1>4, <1>7, <1>8, <1>11
  <2>2. context'[c].ended => context'[c].remaining = 0
    <3>1. h.remaining = 0 \/ ret_len # 0
      BY <1>4 DEF ret_len
    <3>2. context'[c].ended = (ret_len = 0) /\ context'[c].remaining = h.remaining - ret_len
      BY <1>8, <1>11
    <3>3. CASE ret_len = 0
      BY <1>4, <3>1, <3>2, <3>3
    <3>4. CASE ret_len # 0
      BY <3>2, <3>4
    <3> QED BY <3>3, <3>4
  <2>3. context'[c].used /\ context'[c].size = h.size
    BY <1>4, <1>8, <1>11
  <2>4. Len(received'[c]) = context'[c].bpos
    BY <1>8, <1>10, <1>11
  <2>5. \A i \in 1..Len(received'[c]) : received'[c][i] = i
    BY <1>10
  <2>6. /\ context'[c].bpos + context'[c].remaining <= context'[c].size
        /\ "no_nul" \in Rules =>
             context'[c].bpos + context'[c].remaining = context'[c].size
    BY <1>4, <2>1, <2>3
  <2> QED BY <2>2, <2>3, <2>4, <2>5, <2>6 DEF Progress
<1>15. \A d \in opened' : Progress(d)'
  BY <1>1, <1>2, <1>11, <1>14, SameProgress DEF ICInv
<1> QED BY <1>2, <1>12, <1>13, <1>15, ListKeptKeeps DEF ICInv

LEMMA CloseKeeps ==
  ASSUME ICInv, NEW c \in Context, ic_close(c)
  PROVE  ICInv'
<1>1. /\ calls \subseteq [context : Context, file : File, class : Class]
      /\ context \in [Context -> ContextRecord] /\ opened \subseteq Context
      /\ received \in [Context -> Seq(1..MaxSize)]
  BY DEF ICInv, InputTypeOK
<1>2. /\ ListKept /\ opened' = opened \ {c} /\ calls' = calls /\ c \in opened
      /\ context' = [context EXCEPT ![c] = Unused]
      /\ received' = [received EXCEPT ![c] = <<>>]
  BY DEF ic_close, ListKept
<1>3. Unused \in ContextRecord
  <2>1. 0 \in Size
    BY InputBounds DEF Size
  <2> QED BY <2>1 DEF Unused, ContextRecord
<1>4. InputTypeOK'
  BY <1>1, <1>2, <1>3, ListKeptKeeps, EmptySeq DEF InputTypeOK
<1>5. \A d \in Context \ {c} : Same(d)
  BY <1>1, <1>2 DEF Same
<1>6. CallsApart'
  <2>1. \A k \in calls : k.context \in Context \ {c}
    BY <1>1, <1>2 DEF ICInv, CallsApart
  <2> QED BY <1>2, <1>5, <2>1 DEF ICInv, CallsApart, Same
<1>7. \A d \in opened' : Progress(d)'
  BY <1>1, <1>2, <1>5, SameProgress DEF ICInv
<1> QED BY <1>2, <1>4, <1>6, <1>7, ListKeptKeeps DEF ICInv

LEMMA ICInit == Init => ICInv
<1> SUFFICES ASSUME Init PROVE ICInv
  OBVIOUS
<1>1. Unused \in ContextRecord
  <2>1. 0 \in Size
    BY InputBounds DEF Size
  <2> QED BY <2>1 DEF Unused, ContextRecord
<1>2. InputTypeOK
  <2>1. first_scheme \in Seq(Scheme) /\ <<>> \in Seq(1..MaxSize)
    BY EmptySeq DEF Init
  <2>2. added \in 0..MaxAdded
    BY InputBounds DEF Init
  <2> QED BY <1>1, <2>1, <2>2 DEF Init, InputTypeOK
<1> QED BY <1>2, EmptySeq DEF Init, ICInv, Stamped, CallsApart

LEMMA ICStep == ICInv /\ [Next]_vars => ICInv'
<1> SUFFICES ASSUME ICInv, [Next]_vars PROVE ICInv'
  OBVIOUS
<1>1. CASE register_input_callbacks
  BY <1>1 DEF register_input_callbacks, ICInv, InputTypeOK, Stamped, CallsApart, Progress
<1>2. CASE \E n \in Name, class \in Class : add_scheme(n, class)
  BY <1>2, AddKeeps
<1>3. CASE \E n \in Name : remove_scheme(n)
  BY <1>3, RemoveKeeps
<1>4. CASE \E f \in File, c \in Context : ic_open(f, c)
  BY <1>4, OpenKeeps
<1>5. CASE \E k \in calls, size, length \in Size :
             NoNul(size, length) /\ document_query_returns(k, size, length)
  BY <1>5, ReturnsKeeps
<1>6. CASE \E k \in calls : document_query_raises(k)
  BY <1>6, RaisesKeeps
<1>7. CASE \E c \in Context, len \in 1..MaxSize : ic_read(c, len)
  BY <1>7, ReadKeeps
<1>8. CASE \E c \in Context : ic_close(c)
  BY <1>8, CloseKeeps
<1>9. CASE UNCHANGED vars
  BY <1>9 DEF vars, ICInv, InputTypeOK, Stamped, CallsApart, Progress
<1> QED BY <1>1, <1>2, <1>3, <1>4, <1>5, <1>6, <1>7, <1>8, <1>9 DEF Next

\* The list, the contexts and the calls under way stay as ICInv says, for
\* any schemes, files and documents.
THEOREM InputInvariance == Spec => []ICInv
BY ICInit, ICStep, PTL DEF Spec

-----------------------------------------------------------------------------
(* The properties.                                                         *)

\* What is left to read never becomes negative and what is read never
\* leaves the buffer (ic_read), and the list stays a list of schemes.
THEOREM InputTypes == Spec => []InputTypeOK
<1>1. ICInv => InputTypeOK
  BY DEF ICInv
<1> QED BY <1>1, InputInvariance, PTL

\* libxml2 gets each byte of a document once and in order, and the whole
\* document if it has no NUL byte (ic_read).
THEOREM ReadsInOrder ==
  ASSUME "no_nul" \in Rules
  PROVE  Spec => []ReadInOrder
<1>1. ICInv => ReadInOrder
  <2> SUFFICES ASSUME ICInv, NEW c \in opened
               PROVE  /\ Len(received[c]) <= context[c].size
                      /\ \A i \in DOMAIN received[c] : received[c][i] = i
                      /\ context[c].ended => Len(received[c]) = context[c].size
    BY DEF ReadInOrder
  <2>1. /\ context[c] \in ContextRecord /\ received[c] \in Seq(1..MaxSize) /\ Progress(c)
    BY DEF ICInv, InputTypeOK
  <2>2. DOMAIN received[c] = 1..Len(received[c])
    BY <2>1, LenProperties
  <2>3. /\ context[c].size \in Nat /\ context[c].bpos \in Nat /\ context[c].remaining \in Nat
    BY <2>1, InputBounds DEF ContextRecord, Size
  <2> QED BY <2>1, <2>2, <2>3 DEF Progress
<1> QED BY <1>1, InputInvariance, PTL

\* Only a document_query that raises makes ic_open leave its context behind.
THEOREM ContextsKept == Spec => NoContextLost
<1>1. ASSUME ICInv, [Next]_vars, NEW c \in Context,
             Kept(c), context'[c].used, ~Kept(c)'
      PROVE  \E k \in calls : k.context = c /\ document_query_raises(k)
  <2>1. ~ (UNCHANGED <<calls, opened>>)
    BY <1>1 DEF Kept
  <2>2. CASE \E f \in File, d \in Context : ic_open(f, d)
    BY <1>1, <2>2 DEF ic_open, Kept
  <2>3. CASE \E k \in calls, size, length \in Size :
               NoNul(size, length) /\ document_query_returns(k, size, length)
    BY <1>1, <2>3 DEF document_query_returns, Kept
  <2>4. CASE \E k \in calls : document_query_raises(k)
    BY <1>1, <2>4 DEF document_query_raises, Kept
  <2>5. CASE \E d \in Context : ic_close(d)
    <3>1. PICK d \in Context : ic_close(d)
      BY <2>5
    <3>2. context'[d].used = FALSE
      BY <1>1, <3>1 DEF ic_close, Unused, ICInv, InputTypeOK
    <3> QED BY <1>1, <3>1, <3>2 DEF ic_close, Kept
  <2> QED
    BY <1>1, <2>1, <2>2, <2>3, <2>4, <2>5
    DEF Next, vars, register_input_callbacks, add_scheme, remove_scheme, ic_read, Read
<1>2. ICInv /\ [Next]_vars =>
        [\A c \in Context :
           (Kept(c) /\ context'[c].used /\ ~Kept(c)')
             => \E k \in calls : k.context = c /\ document_query_raises(k)]_vars
  BY <1>1
<1> QED BY <1>2, InputInvariance, PTL DEF Spec, NoContextLost

-----------------------------------------------------------------------------
(* Who serves a document.                                                  *)

\* The first in the list that serves f is the one of the oldest stamp, and
\* the only one of that stamp.
LEMMA FirstIsOldest ==
  ASSUME ICInv, NEW f \in File, ic_match(f) > 0
  PROVE  Server(f) = {first_scheme[ic_match(f)].class}
<1> DEFINE i == ic_match(f)
           C == Candidates(f)
           len == Len(first_scheme)
<1>1. IsFirst(i, {n \in Name : <<f, n>> \in Serves}) /\ i > 0
  BY FirstOfIs, ListTyped DEF ic_match
<1> HIDE DEF i
<1>2. /\ len \in Nat /\ \A j \in 1..len : first_scheme[j].stamp \in Nat
      /\ \A j \in 1..len : first_scheme[j].name \in Name
  BY ListTyped
<1>3. i \in 1..len /\ <<f, first_scheme[i].name>> \in Serves
  <2>1. i \in 1..len
    BY <1>1, <1>2 DEF IsFirst
  <2>2. first_scheme[i].name \in {n \in Name : <<f, n>> \in Serves}
    BY <1>1 DEF IsFirst
  <2> QED BY <2>1, <2>2
<1>4. \A j \in 1..len : j < i => <<f, first_scheme[j].name>> \notin Serves
  <2>1. \A j \in 1..len : j < i =>
          first_scheme[j].name \notin {n \in Name : <<f, n>> \in Serves}
    BY <1>1 DEF IsFirst
  <2> QED BY <1>2, <2>1
<1>5. DOMAIN first_scheme = 1..len
  BY ListTyped, LenProperties
<1>6. \A j, k \in 1..len : j < k => first_scheme[j].stamp < first_scheme[k].stamp
  BY DEF ICInv, Stamped
<1>7. C = {s \in {first_scheme[j] : j \in 1..len} : <<f, s.name>> \in Serves}
  BY <1>5 DEF Candidates, Range
<1> HIDE DEF C, len
<1>8. first_scheme[i] \in C
  BY <1>3, <1>7
<1>9. \A t \in C : t = first_scheme[i] \/ first_scheme[i].stamp < t.stamp
  <2> SUFFICES ASSUME NEW t \in C
               PROVE  t = first_scheme[i] \/ first_scheme[i].stamp < t.stamp
    OBVIOUS
  <2>1. PICK j \in 1..len : t = first_scheme[j] /\ <<f, first_scheme[j].name>> \in Serves
    BY <1>7
  <2>2. ~ (j < i)
    BY <1>4, <2>1
  <2>3. j = i \/ i < j
    BY <1>2, <1>3, <2>2
  <2> QED BY <1>3, <1>6, <2>1, <2>3
<1>10. \A t \in C : t.stamp \in Nat
  BY <1>2, <1>7
<1>11. Oldest(C) = first_scheme[i]
  <2>1. \A t \in C : first_scheme[i].stamp <= t.stamp
    BY <1>8, <1>9, <1>10
  <2>2. Oldest(C) \in C /\ \A t \in C : Oldest(C).stamp <= t.stamp
    BY <1>8, <2>1 DEF Oldest
  <2>3. Oldest(C).stamp <= first_scheme[i].stamp
    BY <1>8, <2>2
  <2> QED BY <1>8, <1>9, <1>10, <2>2, <2>3
<1> QED BY <1>8, <1>11 DEF Server, C, i

\* After any additions and removals, a document is asked of the class whose
\* scheme, of those present that serve it, was added first (ic_open).
THEOREM FirstAddedIsAsked == Spec => FirstAddedServes
<1>1. ASSUME ICInv, [Next]_vars, NEW k \in calls' \ calls
      PROVE  {k.class} = Server(k.file)
  <2>1. CASE \E f \in File, c \in Context : ic_open(f, c)
    <3>1. PICK f \in File, c \in Context : ic_open(f, c)
      BY <2>1
    <3>2. k.file = f /\ k.class = first_scheme[ic_match(f)].class /\ ic_match(f) > 0
      BY <1>1, <3>1 DEF ic_open
    <3> QED BY <1>1, <3>2, FirstIsOldest
  <2>2. ~ (calls' \subseteq calls)
    BY <1>1
  <2> QED
    BY <1>1, <2>1, <2>2
    DEF Next, vars, register_input_callbacks, add_scheme, remove_scheme,
        document_query_returns, document_query_raises, ic_read, Read, ic_close
<1>2. ICInv /\ [Next]_vars => [\A k \in calls' \ calls : {k.class} = Server(k.file)]_vars
  BY <1>1
<1> QED BY <1>2, InputInvariance, PTL DEF Spec, FirstAddedServes

\* remove_scheme takes one scheme out of the list, one whose name the removed
\* name begins with: whoever else served a document serves it still.
THEOREM OthersUnmoved == Spec => OthersStay
<1>1. ASSUME ICInv, NEW n \in Name, remove_scheme(n),
             NEW f \in File, Server(f)' # Server(f)
      PROVE  Candidates(f) # {} /\ <<n, Oldest(Candidates(f)).name>> \in Begins
  <2> DEFINE len == Len(first_scheme)
             C == Candidates(f)
             D == Candidates(f)'
  <2>1. PICK i \in 1..len :
           /\ <<n, first_scheme[i].name>> \in Begins
           /\ first_scheme' \in Seq(Scheme)
           /\ Len(first_scheme') = len - 1
           /\ \A j \in 1..Len(first_scheme') :
                first_scheme'[j] = first_scheme[IF j < i THEN j ELSE j + 1]
    BY <1>1, Removes
  <2>2. len \in Nat /\ DOMAIN first_scheme = 1..len /\ DOMAIN first_scheme' = 1..(len - 1)
    BY <1>1, <2>1, ListTyped, LenProperties
  <2>3. /\ \A j \in 1..len : first_scheme[j].stamp \in Nat
        /\ \A j, k \in 1..len : j < k => first_scheme[j].stamp < first_scheme[k].stamp
    BY <1>1, ListTyped DEF ICInv, Stamped
  <2> HIDE DEF len
  <2>4. D = {s \in {first_scheme'[j] : j \in 1..(len - 1)} : <<f, s.name>> \in Serves}
    BY <2>2 DEF Candidates, Range
  <2>5. C = {s \in {first_scheme[j] : j \in 1..len} : <<f, s.name>> \in Serves}
    BY <2>2 DEF Candidates, Range
  <2>6. ASSUME NEW s \in D  PROVE s \in C
    <3>1. PICK j \in 1..(len - 1) : s = first_scheme'[j] /\ <<f, s.name>> \in Serves
      BY <2>4, <2>6
    <3>2. (IF j < i THEN j ELSE j + 1) \in 1..len
      BY <2>2
    <3>3. s = first_scheme[IF j < i THEN j ELSE j + 1]
      BY <2>1, <3>1
    <3> QED BY <2>5, <3>1, <3>2, <3>3
  <2>7. ASSUME NEW s \in C, s # first_scheme[i]  PROVE s \in D
    <3>1. PICK j \in 1..len : s = first_scheme[j] /\ <<f, s.name>> \in Serves
      BY <2>5, <2>7
    <3>2. j # i
      BY <2>7, <3>1
    <3>3. CASE j < i
      <4>1. j \in 1..(len - 1) /\ first_scheme'[j] = first_scheme[j]
        BY <2>1, <2>2, <3>3
      <4> QED BY <2>4, <3>1, <4>1
    <3>4. CASE j > i
      <4>1. j - 1 \in 1..(len - 1) /\ ~ (j - 1 < i) /\ j - 1 + 1 = j
        BY <2>2, <3>4
      <4>2. first_scheme'[j - 1] = first_scheme[j]
        BY <2>1, <4>1
      <4> QED BY <2>4, <3>1, <4>1, <4>2
    <3> QED BY <2>2, <3>2, <3>3, <3>4
  <2>8. Server(f) = (IF C = {} THEN {} ELSE {Oldest(C).class})
    BY DEF Server
  <2>9. Server(f)' = IF D = {} THEN {} ELSE {Oldest(D).class}
    BY DEF Server, Oldest
  <2>10. \A s, t \in C : /\ s.stamp \in Nat /\ (s.stamp = t.stamp => s = t)
    <3> SUFFICES ASSUME NEW s \in C, NEW t \in C
                 PROVE  s.stamp \in Nat /\ (s.stamp = t.stamp => s = t)
      OBVIOUS
    <3>1. PICK j \in 1..len : s = first_scheme[j]
      BY <2>5
    <3>2. PICK k \in 1..len : t = first_scheme[k]
      BY <2>5
    <3> QED BY <2>2, <2>3, <3>1, <3>2
  <2>11. C # {}
    BY <1>1, <2>6, <2>8, <2>9
  <2>12. PICK o \in C : \A t \in C : o.stamp <= t.stamp
    <3> DEFINE J == {j \in 1..len : <<f, first_scheme[j].name>> \in Serves}
    <3>1. J \subseteq 1..len /\ J # {}
      BY <2>5, <2>11
    <3>2. PICK j \in J : \A k \in J : j =< k
      <4> HIDE DEF J
      <4> QED BY <2>2, <3>1, LeastPosition
    <3>3. first_scheme[j] \in C
      BY <2>5, <3>2
    <3>4. ASSUME NEW t \in C PROVE first_scheme[j].stamp <= t.stamp
      <4>1. PICK k \in J : t = first_scheme[k]
        BY <2>5
      <4>2. j = k \/ j < k
        BY <2>2, <3>2
      <4> QED BY <2>2, <2>3, <4>1, <4>2
    <3> QED BY <3>3, <3>4
  <2> HIDE DEF C, D
  <2>13. ASSUME NEW S, S \subseteq C, o \in S  PROVE Oldest(S) = o
    <3>1. Oldest(S) \in S /\ \A t \in S : Oldest(S).stamp <= t.stamp
      BY <2>12, <2>13 DEF Oldest
    <3>2. Oldest(S).stamp = o.stamp
      BY <2>10, <2>12, <2>13, <3>1
    <3> QED BY <2>10, <2>13, <3>1, <3>2
  <2>14. Oldest(C) = o
    BY <2>13
  <2>15. CASE o # first_scheme[i]
    <3>1. o \in D /\ D \subseteq C
      BY <2>6, <2>7, <2>15
    <3>2. Oldest(D) = o
      BY <2>13, <3>1
    <3> QED BY <1>1, <2>8, <2>9, <2>11, <2>14, <3>1, <3>2
  <2>16. CASE o = first_scheme[i]
    BY <2>1, <2>11, <2>14, <2>16 DEF C
  <2> QED BY <2>15, <2>16
<1>2. ICInv /\ [Next]_vars =>
        [\A n \in Name : remove_scheme(n) =>
           \A f \in File : Server(f)' # Server(f) =>
             Candidates(f) # {} /\ <<n, Oldest(Candidates(f)).name>> \in Begins]_vars
  BY <1>1
<1> QED BY <1>2, InputInvariance, PTL DEF Spec, OthersStay
=============================================================================
