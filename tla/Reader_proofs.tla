--------------------------- MODULE Reader_proofs ---------------------------
(***************************************************************************)
(* Proofs about Reader, for any tree and any number of readers and         *)
(* documents, when the program keeps all the rules: the types; that a      *)
(* document has one owner; that what a query looks at is in use; and that  *)
(* nothing of a node from expand is taken away.                            *)
(***************************************************************************)
EXTENDS Reader, SequenceTheorems, FiniteSetTheorems, TLAPS

-----------------------------------------------------------------------------
(* The tree of a document.                                                 *)

\* What is so of a position when it is so of the positions before it is so
\* of all: an interval has a least element.
LEMMA LeastPosition ==
  ASSUME NEW I \in SUBSET Pos, I # {}
  PROVE  \E x \in I : \A y \in I : x =< y
<1> DEFINE n == Len(Parent)
           before(x) == {z \in 1..n : z < x}
           T == {before(x) : x \in I}
           R == StrictSubsetOrdering(1..n)
<1>1. n \in Nat /\ Pos = 1..n
  BY DocumentOrder, LenProperties DEF Pos
<1> HIDE DEF n
<1>2. IsFiniteSet(1..n)
  BY <1>1, FS_Interval
<1>3. IsWellFoundedOn(R, SUBSET (1..n))
  BY <1>2, FS_FiniteSubsetsOfFinite, FS_StrictSubsetOrderingWellFounded
<1>4. T \subseteq SUBSET (1..n) /\ T # {}
  BY <1>1
<1>5. \E t \in T : \A s \in T : ~ (<<s, t>> \in R)
  <2> HIDE DEF T, R
  <2> QED BY <1>3, <1>4, WFMin
<1>6. PICK x \in I : \A y \in I : ~ (<<before(y), before(x)>> \in R)
  BY <1>5
<1>7. ASSUME NEW y \in I, ~ (x =< y)  PROVE FALSE
  <2>1. before(y) \subseteq before(x) /\ y \in before(x) /\ y \notin before(y)
    BY <1>1, <1>7
  <2>2. <<before(y), before(x)>> \in R
    BY <2>1 DEF StrictSubsetOrdering
  <2> QED BY <1>6, <2>2
<1> QED BY <1>7

LEMMA Positions ==
  /\ Pos \subseteq Nat \ {0} /\ 1 \in Pos /\ IsFiniteSet(Pos)
  /\ Cell = {0} \cup Pos
  /\ \A p \in Pos : /\ Parent[p] \in Nat
                    /\ Parent[p] = 0 <=> p = 1
                    /\ Parent[p] # 0 => Parent[p] \in Pos /\ Parent[p] < p
<1>1. Len(Parent) \in Nat /\ Pos = 1..Len(Parent) /\ Len(Parent) # 0
  BY DocumentOrder, LenProperties, EmptySeq DEF Pos
<1>2. IsFiniteSet(Pos)
  BY <1>1, FS_Interval
<1>3. \A p \in Pos : p = 1 \/ p \in 2..Len(Parent)
  BY <1>1
<1> QED BY <1>1, <1>2, <1>3, DocumentOrder DEF Cell

\* The sets that contain, with a node, what it is in.
Upward(S) == S \subseteq Pos /\ \A s \in S : Parent[s] # 0 => Parent[s] \in S

Least(p) == {q \in Pos : \A S \in SUBSET Pos : (p \in S /\ Upward(S)) => q \in S}

LEMMA LeastUnfolds ==
  ASSUME NEW p \in Pos
  PROVE  /\ Least(p) = {p} \cup IF Parent[p] = 0 THEN {} ELSE Least(Parent[p])
         /\ Upward(Least(p)) /\ p \in Least(p)
<1>1. p \in Least(p) /\ \A S \in SUBSET Pos : p \in S /\ Upward(S) => Least(p) \subseteq S
  BY DEF Least
<1>2. Upward(Least(p))
  BY Positions DEF Least, Upward
<1>3. CASE Parent[p] = 0
  <2>1. Upward({p})
    BY <1>3 DEF Upward
  <2> QED BY <1>1, <1>2, <1>3, <2>1
<1>4. CASE Parent[p] # 0
  <2>1. Parent[p] \in Pos
    BY <1>4, Positions
  <2>2. Upward(Least(Parent[p])) /\ Parent[p] \in Least(Parent[p])
    BY <2>1, Positions DEF Least, Upward
  <2>3. Upward({p} \cup Least(Parent[p]))
    BY <2>2 DEF Upward
  <2>4. Least(p) \subseteq {p} \cup Least(Parent[p])
    BY <1>1, <2>3 DEF Upward
  <2>5. Parent[p] \in Least(p)
    BY <1>1, <1>2, <1>4 DEF Upward
  <2>6. Least(Parent[p]) \subseteq Least(p)
    BY <1>2, <2>5 DEF Least, Upward
  <2> QED BY <1>1, <1>2, <1>4, <2>4, <2>6
<1> QED BY <1>3, <1>4

\* The recursion that defines Above has a solution, so Above is one.
LEMMA AboveUnfolds ==
  /\ DOMAIN Above = Pos
  /\ \A p \in Pos : Above[p] = {p} \cup IF Parent[p] = 0 THEN {} ELSE Above[Parent[p]]
<1> DEFINE F == [p \in Pos |-> Least(p)]
<1>1. F = [p \in Pos |-> {p} \cup IF Parent[p] = 0 THEN {} ELSE F[Parent[p]]]
  <2>1. \A p \in Pos :
          Least(p) = {p} \cup IF Parent[p] = 0 THEN {} ELSE F[Parent[p]]
    BY LeastUnfolds, Positions
  <2> QED BY <2>1
<1> HIDE DEF F
<1>2. Above = [p \in Pos |-> {p} \cup IF Parent[p] = 0 THEN {} ELSE Above[Parent[p]]]
  BY <1>1 DEF Above
<1> QED BY <1>2

LEMMA AboveTyped ==
  \A p \in Pos : p \in Above[p] /\ Above[p] \subseteq Pos /\ \A q \in Above[p] : q <= p
<1> DEFINE I == {p \in Pos : ~ (Above[p] \subseteq Pos /\ \A q \in Above[p] : q <= p)}
<1>1. ASSUME I # {}  PROVE FALSE
  <2>1. PICK p \in I : \A y \in I : p =< y
    BY <1>1, LeastPosition
  <2>2. p \in Pos /\ p \in Nat
    BY Positions
  <2>3. CASE Parent[p] = 0
    BY <2>1, <2>2, <2>3, AboveUnfolds
  <2>4. CASE Parent[p] # 0
    <3>1. Parent[p] \in Pos /\ Parent[p] < p /\ Parent[p] \in Nat
      BY <2>2, <2>4, Positions
    <3>2. Parent[p] \notin I
      BY <2>1, <2>2, <3>1
    <3>3. Above[Parent[p]] \subseteq Pos /\ \A q \in Above[Parent[p]] : q <= Parent[p]
      BY <3>1, <3>2
    <3>4. Above[p] = {p} \cup Above[Parent[p]]
      BY <2>2, <2>4, AboveUnfolds
    <3>5. ASSUME NEW q \in Above[p]  PROVE q \in Pos /\ q <= p
      <4>1. CASE q = p
        BY <2>2, <4>1
      <4>2. CASE q \in Above[Parent[p]]
        <5>1. q \in Pos /\ q \in Nat /\ q <= Parent[p]
          BY <3>3, <4>2, Positions
        <5> QED BY <2>2, <3>1, <5>1
      <4> QED BY <3>4, <4>1, <4>2
    <3> QED BY <2>1, <3>5
  <2> QED BY <2>3, <2>4
<1> QED BY <1>1, AboveUnfolds

LEMMA AboveTransitive ==
  ASSUME NEW p \in Pos, NEW q \in Above[p]
  PROVE  Above[q] \subseteq Above[p]
<1> DEFINE I == {x \in Pos : \E y \in Above[x] : ~ (Above[y] \subseteq Above[x])}
<1>1. ASSUME I # {}  PROVE FALSE
  <2>1. PICK x \in I : \A y \in I : x =< y
    BY <1>1, LeastPosition
  <2>2. PICK y \in Above[x] : ~ (Above[y] \subseteq Above[x])
    BY <2>1
  <2>3. x \in Pos /\ y # x
    BY <2>1, <2>2
  <2>4. Parent[x] # 0 /\ y \in Above[Parent[x]] /\ Above[Parent[x]] \subseteq Above[x]
    BY <2>2, <2>3, AboveUnfolds
  <2>5. Parent[x] \in Pos /\ Parent[x] < x /\ x \in Nat /\ Parent[x] \in Nat
    BY <2>3, <2>4, Positions
  <2>6. Parent[x] \notin I
    BY <2>1, <2>5
  <2> QED BY <2>2, <2>4, <2>5, <2>6
<1> QED BY <1>1

LEMMA AboveChain ==
  ASSUME NEW p \in Pos, NEW a \in Above[p], NEW b \in Above[p]
  PROVE  a \in Above[b] \/ b \in Above[a]
<1> DEFINE I == {x \in Pos : \E y, z \in Above[x] : y \notin Above[z] /\ z \notin Above[y]}
<1>1. ASSUME I # {}  PROVE FALSE
  <2>1. PICK x \in I : \A y \in I : x =< y
    BY <1>1, LeastPosition
  <2>2. PICK y, z \in Above[x] : y \notin Above[z] /\ z \notin Above[y]
    BY <2>1
  <2>3. x \in Pos /\ y # x /\ z # x
    BY <2>1, <2>2
  <2>4. Parent[x] # 0 /\ y \in Above[Parent[x]] /\ z \in Above[Parent[x]]
    BY <2>2, <2>3, AboveUnfolds
  <2>5. Parent[x] \in Pos /\ Parent[x] < x /\ x \in Nat /\ Parent[x] \in Nat
    BY <2>3, <2>4, Positions
  <2>6. Parent[x] \notin I
    BY <2>1, <2>5
  <2> QED BY <2>2, <2>4, <2>5, <2>6
<1> QED BY <1>1

\* Where the cursor may still go once it has left p.
Later(q) == {s \in Pos : Parent[s] = Parent[q] /\ s > q}

Rest(p) == {x \in Pos : \E q \in Above[p] : \E s \in Later(q) : x \in Below(s)}

Inside(p) == Below(p) \ {p}

LEMMA SiblingsApart ==
  ASSUME NEW p \in Pos, NEW s \in Pos, Parent[p] = Parent[s], p # s
  PROVE  Below(p) \cap Below(s) = {}
<1> SUFFICES ASSUME NEW x \in Below(p) \cap Below(s)  PROVE FALSE
  OBVIOUS
<1>1. x \in Pos /\ p \in Above[x] /\ s \in Above[x]
  BY DEF Below
<1>2. ASSUME NEW a \in Pos, NEW b \in Pos, Parent[a] = Parent[b], a # b, a \in Above[b]
      PROVE  FALSE
  <2>1. Parent[b] # 0 /\ a \in Above[Parent[b]]
    BY <1>2, AboveUnfolds
  <2>2. Parent[a] \in Pos /\ Parent[a] < a /\ a \in Nat /\ Parent[a] \in Nat
    BY <1>2, <2>1, Positions
  <2>3. a <= Parent[a]
    BY <1>2, <2>1, <2>2, AboveTyped
  <2> QED BY <2>2, <2>3
<1> QED BY <1>1, <1>2, AboveChain

\* To leave p is to leave the nodes below it, and none of what is above p or
\* still to come is among them.
LEMMA LeftBehind ==
  ASSUME NEW p \in Pos
  PROVE  /\ Below(p) \cap Rest(p) = {}
         /\ Below(p) \cap (Above[p] \ {p}) = {}
         /\ p \in Below(p) /\ Below(p) \subseteq Pos /\ 0 \notin Below(p)
<1>1. ASSUME NEW x \in Below(p) \cap Rest(p)  PROVE FALSE
  <2>0. PICK q \in Above[p] : \E s \in Later(q) : x \in Below(s)
    BY DEF Rest
  <2>1. PICK s \in Later(q) : x \in Below(s)
    BY <2>0
  <2>2. x \in Pos /\ p \in Above[x] /\ q \in Pos
    BY AboveTyped DEF Below
  <2>3. q \in Above[x]
    BY <2>2, AboveTransitive
  <2>4. x \in Below(q)
    BY <2>2, <2>3 DEF Below
  <2>5. s \in Pos /\ Parent[s] = Parent[q] /\ s # q
    BY <2>2, Positions DEF Later
  <2> QED BY <2>1, <2>2, <2>4, <2>5, SiblingsApart
<1>2. ASSUME NEW a \in Below(p), a \in Above[p], a # p  PROVE FALSE
  <2>1. a \in Pos /\ p \in Above[a] /\ a <= p /\ p <= a
    BY <1>2, AboveTyped DEF Below
  <2> QED BY <1>2, <2>1, Positions
<1> QED BY <1>1, <1>2, AboveTyped, Positions DEF Below

\* The steps of the cursor: on to a sibling, back to the parent, in to a child.
LEMMA ToSibling ==
  ASSUME NEW p \in Pos, NEW s \in Later(p)
  PROVE  /\ s \in Pos /\ s # p
         /\ Above[s] = {s} \cup (Above[p] \ {p})
         /\ Rest(s) \subseteq Rest(p) /\ Below(s) \subseteq Rest(p)
<1>1. s \in Pos /\ Parent[s] = Parent[p] /\ s > p /\ s # p
  BY Positions DEF Later
<1>2. Above[s] = {s} \cup (Above[p] \ {p})
  <2>1. CASE Parent[p] = 0
    BY <1>1, <2>1, AboveUnfolds
  <2>2. CASE Parent[p] # 0
    <3>1. Parent[p] \in Pos /\ Parent[p] < p /\ p \in Nat /\ Parent[p] \in Nat
      BY <2>2, Positions
    <3>2. p \notin Above[Parent[p]]
      BY <3>1, AboveTyped
    <3> QED BY <1>1, <2>2, <3>2, AboveUnfolds
  <2> QED BY <2>1, <2>2
<1>3. ASSUME NEW t \in Later(s)  PROVE t \in Later(p)
  <2>1. t \in Pos /\ Parent[t] = Parent[p] /\ t > s
    BY <1>1 DEF Later
  <2>2. t \in Nat /\ s \in Nat /\ p \in Nat
    BY <1>1, <2>1, Positions
  <2> QED BY <1>1, <2>1, <2>2 DEF Later
<1>4. Rest(s) \subseteq Rest(p)
  BY <1>2, <1>3, AboveTyped DEF Rest
<1>5. Below(s) \subseteq Rest(p)
  BY AboveTyped DEF Rest, Below
<1> QED BY <1>1, <1>2, <1>4, <1>5

LEMMA ToParent ==
  ASSUME NEW p \in Pos, Parent[p] # 0
  PROVE  /\ Parent[p] \in Pos
         /\ Above[Parent[p]] = Above[p] \ {p}
         /\ Rest(Parent[p]) \subseteq Rest(p)
<1>1. Parent[p] \in Pos /\ Parent[p] < p /\ p \in Nat /\ Parent[p] \in Nat
  BY Positions
<1>2. p \notin Above[Parent[p]]
  BY <1>1, AboveTyped
<1>3. Above[Parent[p]] = Above[p] \ {p}
  BY <1>2, AboveUnfolds
<1> QED BY <1>1, <1>3 DEF Rest

LEMMA ToChild ==
  ASSUME NEW p \in Pos, NEW c \in Pos, Parent[c] = p
  PROVE  /\ Above[c] = {c} \cup Above[p]
         /\ Below(c) \subseteq Inside(p) /\ c \in Inside(p)
         /\ Rest(c) \subseteq Rest(p) \cup Inside(p)
<1>1. p \in Nat \ {0} /\ p < c /\ c \in Nat
  BY Positions
<1>2. Above[c] = {c} \cup Above[p]
  BY <1>1, AboveUnfolds
<1>3. ASSUME NEW s \in Pos, Parent[s] = p  PROVE Below(s) \subseteq Inside(p)
  <2>1. Above[s] = {s} \cup Above[p] /\ p \in Above[p] /\ p < s /\ s \in Nat
    BY <1>1, <1>3, AboveUnfolds, Positions
  <2>2. ASSUME NEW x \in Below(s)  PROVE x \in Inside(p)
    <3>1. x \in Pos /\ s \in Above[x] /\ Above[s] \subseteq Above[x] /\ s <= x /\ x \in Nat
      BY AboveTransitive, AboveTyped, Positions DEF Below
    <3>2. p \in Above[x] /\ x # p
      BY <1>1, <2>1, <3>1
    <3> QED BY <3>1, <3>2 DEF Inside, Below
  <2> QED BY <2>2
<1>4. Rest(c) \subseteq Rest(p) \cup Inside(p)
  <2> SUFFICES ASSUME NEW x \in Rest(c)  PROVE x \in Rest(p) \cup Inside(p)
    OBVIOUS
  <2>0. PICK q \in Above[c] : \E s \in Later(q) : x \in Below(s)
    BY DEF Rest
  <2>1. PICK s \in Later(q) : x \in Below(s)
    BY <2>0
  <2>2. CASE q = c
    BY <1>3, <2>1, <2>2 DEF Later
  <2>3. CASE q \in Above[p]
    BY <2>1, <2>3 DEF Rest
  <2> QED BY <1>2, <2>2, <2>3
<1>5. c \in Inside(p)
  BY <1>3, AboveTyped DEF Below
<1> QED BY <1>2, <1>3, <1>4, <1>5

-----------------------------------------------------------------------------
(* The invariant.                                                          *)

\* The program keeps all the rules.
Lawful == Rules = {"keeps_walked", "keeps_expanded", "momentary", "sole_reader"}

Typed ==
  /\ reader \in [Readers -> ReaderRecord]
  /\ alive \in [Doc -> SUBSET Cell]
  /\ marked \in [Doc -> SUBSET Pos]
  /\ claimed \in [Doc -> SUBSET Pos]
  /\ \A d \in Doc : claimed[d] \cup marked[d] \subseteq alive[d]
  /\ wrapped \subseteq Doc \X Cell
  /\ \A w \in wrapped : w[2] \in alive[w[1]]
  /\ held \subseteq wrapped \cup Live
  /\ garbage \subseteq (wrapped \cup Live) \ held

\* What is left of a tree is connected to its document.
Grown ==
  \A d \in Doc : \A q \in alive[d] :
    0 \in alive[d] /\ (q # 0 => Above[q] \subseteq alive[d])

\* A document has an owner, and only one.
Owned ==
  /\ \A d \in Doc : alive[d] # {} =>
       <<d, 0>> \in wrapped \/ \E r \in Live : Owns(r) /\ reader[r].doc = d
  /\ \A r \in Live : Owns(r) => /\ <<reader[r].doc, 0>> \notin wrapped
                                /\ alive[reader[r].doc] # {}
  /\ \A r, s \in Live : Owns(r) /\ Owns(s) /\ reader[r].doc = reader[s].doc => r = s

\* Nodes from expand: their document has a wrapper, and they are preserved
\* with all they are in.
Claims ==
  \A d \in Doc : \A q \in claimed[d] : <<d, 0>> \in wrapped /\ Above[q] \subseteq marked[d]

\* The document of a node the program holds outlives a collection.
NodesKept ==
  garbage # {} => \A w \in held \ Readers : <<w[1], 0>> \in wrapped \ garbage

\* So does one that a reader walks, or has handed out, while the program
\* holds the reader.
Lends(r) == reader[r].doc # NULL /\ (~Stream(r) \/ reader[r].preserve)

LentKept == \A r \in held \cap Live : Lends(r) => <<reader[r].doc, 0>> \in wrapped \ garbage

\* Readers the program holds do not share a document, unless all walk it or
\* the one that has built it is done.
ReadersApart ==
  \A r, s \in held \cap Live :
    Stream(r) /\ reader[r].doc # NULL /\ reader[s].doc = reader[r].doc =>
      IF Stream(s) THEN r = s ELSE reader[r].mode = "end"

WalkerPlaced(r) ==
  /\ reader[r].doc \in Doc /\ reader[r].node \in {0} \cup alive[reader[r].doc]
  /\ reader[r].mode = "reading" => reader[r].node # 0

\* A stream at p: what p is in and what is still to come is there, nothing
\* of it is claimed yet, and claims on what p is in are counted.
StreamAt(r, d, p) ==
  /\ d \in Doc
  /\ Above[p] \cup Rest(p) \subseteq alive[d]
  /\ ~reader[r].back => Below(p) \subseteq alive[d]
  /\ claimed[d] \cap Rest(p) = {}
  /\ ~reader[r].back => claimed[d] \cap Inside(p) = {}
  /\ Cardinality(claimed[d] \cap Above[p]) <= reader[r].preserves

StreamPlaced(r) ==
  /\ reader[r].mode \in {"start", "closed"} =>
       reader[r].doc = NULL /\ reader[r].node = 0 /\ ~reader[r].preserve
  /\ reader[r].mode = "end" => reader[r].node = 0
  /\ reader[r].mode = "reading" => reader[r].node # 0
  /\ reader[r].node # 0 => StreamAt(r, reader[r].doc, reader[r].node)

Placed == \A r \in held \cap Live : IF Stream(r) THEN StreamPlaced(r) ELSE WalkerPlaced(r)

RInv == /\ Typed /\ Grown /\ Owned /\ Claims
        /\ NodesKept /\ LentKept /\ ReadersApart /\ Placed

LEMMA HeldReaders ==
  ASSUME Typed
  PROVE  /\ Live \subseteq Readers
         /\ \A r \in Live : /\ reader[r] \in ReaderRecord
                            /\ reader[r].doc \in Doc \cup {NULL}
                            /\ reader[r].preserve \in BOOLEAN /\ reader[r].back \in BOOLEAN
                            /\ reader[r].node \in Cell
                            /\ reader[r].preserves \in 0..MaxPreserves
BY DEF Typed, Live, ReaderRecord

\* A reader a method is called on: what it reads is in use.
LEMMA CursorInUse ==
  ASSUME RInv, NEW r \in held \cap Live, reader[r].doc # NULL
  PROVE  /\ reader[r].doc \in Doc /\ alive[reader[r].doc] # {} /\ 0 \in alive[reader[r].doc]
         /\ reader[r].node \in alive[reader[r].doc]
         /\ reader[r].node # 0 =>
              reader[r].node \in Pos /\ Above[reader[r].node] \subseteq alive[reader[r].doc]
<1> DEFINE d == reader[r].doc
           p == reader[r].node
<1>1. d \in Doc /\ p \in Cell /\ reader[r] \in ReaderRecord
  BY HeldReaders DEF RInv
<1>2. alive[d] # {} /\ 0 \in alive[d] /\ alive[d] \subseteq Cell
  <2>1. CASE Lends(r)
    <3>1. <<d, 0>> \in wrapped
      BY <2>1 DEF RInv, LentKept
    <3> QED BY <1>1, <3>1 DEF RInv, Typed
  <2>2. CASE ~Lends(r)
    <3>1. alive[d] # {}
      BY <1>1, <2>2 DEF RInv, Owned, Lends, Owns
    <3> QED BY <1>1, <3>1 DEF RInv, Grown, Typed
  <2> QED BY <2>1, <2>2
<1>3. CASE p = 0
  BY <1>1, <1>2, <1>3
<1>4. CASE p # 0
  <2>1. p \in Pos
    BY <1>1, <1>4 DEF Cell
  <2>2. CASE Stream(r)
    <3>1. StreamAt(r, d, p)
      BY <1>4, <2>2 DEF RInv, Placed, StreamPlaced
    <3> QED BY <1>1, <1>2, <1>4, <2>1, <3>1, AboveTyped DEF StreamAt
  <2>3. CASE ~Stream(r)
    <3>1. p \in alive[d]
      BY <1>1, <1>4, <2>3 DEF RInv, Placed, WalkerPlaced
    <3> QED BY <1>1, <1>2, <1>4, <2>1, <3>1 DEF RInv, Grown
  <2> QED BY <2>2, <2>3
<1> QED BY <1>3, <1>4

\* A node under the cursor is one of a document.
LEMMA CursorPlaced ==
  ASSUME RInv, NEW r \in held \cap Live, reader[r].node # 0
  PROVE  reader[r].doc \in Doc /\ reader[r].doc # NULL
<1>1. CASE Stream(r)
  BY <1>1, CellsDistinct DEF RInv, Placed, StreamPlaced, StreamAt
<1>2. CASE ~Stream(r)
  BY <1>2, CellsDistinct DEF RInv, Placed, WalkerPlaced
<1> QED BY <1>1, <1>2

-----------------------------------------------------------------------------
(* Moving the cursor.                                                      *)

\* Reader r becomes g; the others stay.
Becomes(r, g) ==
  /\ r \in Readers /\ g \in ReaderRecord
  /\ reader' = [reader EXCEPT ![r] = g]
  /\ reader'[r] = g /\ \A s \in Readers \ {r} : reader'[s] = reader[s]

LEMMA Becoming ==
  ASSUME Typed, NEW r \in Readers, NEW g \in ReaderRecord,
         reader' = [reader EXCEPT ![r] = g]
  PROVE  Becomes(r, g)
BY DEF Typed, Becomes

\* To a reader that stays on its document, and owns it as before.
Moves(r, g) ==
  /\ Becomes(r, g)
  /\ g.kind = reader[r].kind /\ g.doc = reader[r].doc /\ g.preserve = reader[r].preserve

LEMMA MovesView ==
  ASSUME Typed, NEW r \in Live, NEW g, Moves(r, g)
  PROVE  /\ Live' = Live
         /\ \A s \in Readers : /\ (Stream(s))' = Stream(s)
                               /\ reader'[s].doc = reader[s].doc
                               /\ reader'[s].preserve = reader[s].preserve
                               /\ (Owns(s))' = Owns(s) /\ (Lends(s))' = Lends(s)
<1>1. \A s \in Readers : /\ reader'[s].kind = reader[s].kind
                         /\ reader'[s].doc = reader[s].doc
                         /\ reader'[s].preserve = reader[s].preserve
  BY DEF Moves, Becomes
<1> QED BY <1>1 DEF Live, Stream, Owns, Lends

LEMMA MoveKeeps ==
  ASSUME RInv, NEW r \in held \cap Live, NEW g, Moves(r, g),
         UNCHANGED <<tree, wrapped, held, garbage>>,
         Stream(r) => reader[r].mode # "end",
         IF Stream(r) THEN StreamPlaced(r)' ELSE WalkerPlaced(r)'
  PROVE  RInv'
<1>1. Live' = Live /\ Live \subseteq Readers
  BY MovesView, HeldReaders DEF RInv
<1>2. \A s \in Readers : /\ (Stream(s))' = Stream(s)
                         /\ reader'[s].doc = reader[s].doc
                         /\ reader'[s].preserve = reader[s].preserve
                         /\ (Owns(s))' = Owns(s) /\ (Lends(s))' = Lends(s)
  BY MovesView DEF RInv
<1>3. UNCHANGED <<alive, marked, claimed, wrapped, held, garbage>>
  BY DEF tree
<1>4. Typed'
  BY <1>1, <1>3 DEF RInv, Typed, Moves, Becomes
<1>5. Grown' /\ Claims' /\ NodesKept'
  BY <1>3 DEF RInv, Grown, Claims, NodesKept
<1>6. Owned'
  BY <1>1, <1>2, <1>3 DEF RInv, Owned
<1>7. LentKept'
  BY <1>1, <1>2, <1>3 DEF RInv, LentKept
<1>8. ReadersApart'
  <2> SUFFICES ASSUME NEW s \in held \cap Live, NEW t \in held \cap Live, Stream(s),
                      reader[s].doc # NULL, reader[t].doc = reader[s].doc
               PROVE  IF Stream(t) THEN s = t ELSE reader'[s].mode = "end"
    BY <1>1, <1>2, <1>3 DEF ReadersApart
  <2>1. IF Stream(t) THEN s = t ELSE reader[s].mode = "end"
    BY DEF RInv, ReadersApart
  <2>2. CASE s # r
    BY <1>1, <2>1, <2>2 DEF Moves, Becomes
  <2>3. CASE s = r
    BY <2>1, <2>3
  <2> QED BY <2>2, <2>3
<1>9. Placed'
  <2> SUFFICES ASSUME NEW s \in held \cap Live
               PROVE  IF Stream(s) THEN StreamPlaced(s)' ELSE WalkerPlaced(s)'
    BY <1>1, <1>2, <1>3 DEF Placed
  <2>1. CASE s # r
    <3>1. reader'[s] = reader[s]
      BY <1>1, <2>1 DEF Moves, Becomes
    <3>2. IF Stream(s) THEN StreamPlaced(s) ELSE WalkerPlaced(s)
      BY DEF RInv, Placed
    <3> QED BY <1>3, <3>1, <3>2 DEF StreamPlaced, StreamAt, WalkerPlaced
  <2> QED BY <2>1
<1> QED BY <1>4, <1>5, <1>6, <1>7, <1>8, <1>9 DEF RInv

LEMMA FirstIn ==
  ASSUME NEW S \in SUBSET Pos, S # {}
  PROVE  First(S) \in S
<1>1. \E q \in S : \A s \in S : q <= s
  BY LeastPosition
<1> QED BY <1>1 DEF First

LEMMA PutMoves ==
  ASSUME Typed, NEW r \in Live, NEW p \in Cell, NEW mode \in {"reading", "end"},
         Put(r, p, mode)
  PROVE  \E g : /\ Moves(r, g) /\ g.mode = mode /\ g.node = p /\ ~g.back
                /\ g.preserves = reader[r].preserves
<1> DEFINE h == reader[r]
           g == [h EXCEPT !.mode = mode, !.node = p, !.back = FALSE, !.attr = FALSE]
<1>1. h \in ReaderRecord /\ r \in Readers
  BY HeldReaders
<1>2. reader' = [reader EXCEPT ![r] = g]
  BY DEF Put
<1> HIDE DEF h
<1>3. /\ g \in ReaderRecord /\ g.mode = mode /\ g.node = p /\ g.back = FALSE
      /\ g.preserves = h.preserves /\ g.kind = h.kind /\ g.doc = h.doc
      /\ g.preserve = h.preserve
  BY <1>1 DEF ReaderRecord
<1> HIDE DEF g
<1> QED BY <1>1, <1>2, <1>3, Becoming DEF Moves, h

\* The parts of a reader's record that a step leaves open.
LEMMA EnterMoves ==
  ASSUME Typed, NEW r \in Live, NEW d \in Doc, Enter(r, d)
  PROVE  \E g : /\ Becomes(r, g) /\ g.mode = "reading" /\ g.node = 1 /\ g.doc = d
                /\ g.back = reader[r].back /\ g.preserves = reader[r].preserves
                /\ g.kind = reader[r].kind /\ g.preserve = reader[r].preserve
<1> DEFINE h == reader[r]
           g == [h EXCEPT !.mode = "reading", !.doc = d, !.node = 1]
<1>1. h \in ReaderRecord /\ r \in Readers /\ 1 \in Cell
  BY HeldReaders, Positions
<1>2. reader' = [reader EXCEPT ![r] = g]
  BY DEF Enter
<1> HIDE DEF h
<1>3. /\ g \in ReaderRecord /\ g.mode = "reading" /\ g.node = 1 /\ g.back = h.back
      /\ g.preserves = h.preserves /\ g.kind = h.kind /\ g.doc = d
      /\ g.preserve = h.preserve
  BY <1>1 DEF ReaderRecord
<1> HIDE DEF g
<1> QED BY <1>1, <1>2, <1>3, Becoming DEF h

\* A walker that moves to a node that is there.
LEMMA WalkerMoves ==
  ASSUME RInv, NEW r \in held \cap Live, ~Stream(r), NEW g, Moves(r, g),
         g.node \in {0} \cup alive[reader[r].doc], g.mode = "reading" => g.node # 0,
         UNCHANGED <<tree, wrapped, held, garbage>>
  PROVE  RInv'
<1>1. WalkerPlaced(r)'
  BY DEF RInv, Placed, WalkerPlaced, Moves, Becomes, tree
<1> QED BY <1>1, MoveKeeps

LEMMA WalkerStart ==
  ASSUME RInv, NEW r \in held \cap Live, ~Stream(r),
         IF Children(reader[r].doc, 0) = {} THEN Put(r, 0, "end") ELSE Enter(r, reader[r].doc),
         UNCHANGED <<tree, wrapped, held, garbage>>
  PROVE  RInv'
<1> DEFINE d == reader[r].doc
<1>1. d \in Doc /\ Typed
  BY DEF RInv, Placed, WalkerPlaced
<1>2. CASE Children(d, 0) = {}
  <2>1. 0 \in Cell
    BY Positions
  <2> QED BY <1>1, <1>2, <2>1, PutMoves, WalkerMoves
<1>3. CASE Children(d, 0) # {}
  <2>1. 1 \in alive[d]
    BY <1>3, Positions DEF Children
  <2>2. PICK g : /\ Becomes(r, g) /\ g.node = 1 /\ g.node # 0 /\ g.doc = d
                 /\ g.kind = reader[r].kind /\ g.preserve = reader[r].preserve
    BY <1>1, <1>3, EnterMoves
  <2> QED BY <2>1, <2>2, WalkerMoves DEF Moves
<1> QED BY <1>2, <1>3

\* Both kinds of readers, to the first child.
LEMMA DescendKeeps ==
  ASSUME RInv, NEW r \in held \cap Live, reader[r].mode = "reading", ~reader[r].back,
         Children(reader[r].doc, reader[r].node) # {},
         Put(r, First(Children(reader[r].doc, reader[r].node)), "reading"),
         UNCHANGED <<tree, wrapped, held, garbage>>
  PROVE  RInv'
<1>0. PICK d, p, c : d = reader[r].doc /\ p = reader[r].node /\ c = First(Children(d, p))
  OBVIOUS
<1>1. c \in Pos /\ c \in alive[d] /\ Parent[c] = p /\ c # 0 /\ c \in Cell
  <2>1. c \in Children(d, p)
    BY <1>0, FirstIn DEF Children
  <2> QED BY <2>1, Positions DEF Children
<1>2. PICK g : /\ Moves(r, g) /\ g.mode = "reading" /\ g.node = c /\ ~g.back
               /\ g.preserves = reader[r].preserves
  BY <1>0, <1>1, PutMoves DEF RInv
<1>3. CASE ~Stream(r)
  BY <1>0, <1>1, <1>2, <1>3, WalkerMoves
<1>4. CASE Stream(r)
  <2>1. StreamAt(r, d, p) /\ p # 0
    BY <1>0, <1>4 DEF RInv, Placed, StreamPlaced
  <2>2. p \in Pos
    BY <1>0, <2>1, CursorPlaced, CursorInUse
  <2>3. /\ Above[c] = {c} \cup Above[p]
        /\ Below(c) \subseteq Inside(p) /\ c \in Inside(p)
        /\ Rest(c) \subseteq Rest(p) \cup Inside(p)
    BY <1>1, <2>2, ToChild
  <2>4. /\ Below(p) \subseteq alive[d] /\ claimed[d] \cap Inside(p) = {}
        /\ Above[p] \cup Rest(p) \subseteq alive[d] /\ claimed[d] \cap Rest(p) = {}
        /\ Cardinality(claimed[d] \cap Above[p]) <= reader[r].preserves /\ d \in Doc
    BY <2>1 DEF StreamAt
  <2>5. claimed[d] \cap Above[c] = claimed[d] \cap Above[p]
    BY <2>3, <2>4
  <2>6. UNCHANGED <<alive, claimed>> /\ reader'[r] = g /\ g.doc = d
    BY <1>0, <1>2 DEF tree, Moves, Becomes
  <2>7. /\ Above[c] \cup Rest(c) \subseteq alive[d] /\ Below(c) \subseteq alive[d]
        /\ claimed[d] \cap Rest(c) = {} /\ claimed[d] \cap Inside(c) = {}
    BY <2>3, <2>4 DEF Inside
  <2>8. StreamAt(r, d, c)'
    BY <1>2, <2>4, <2>5, <2>6, <2>7 DEF StreamAt
  <2>9. StreamPlaced(r)'
    BY <1>1, <1>2, <2>6, <2>8 DEF StreamPlaced
  <2> QED BY <1>2, <1>4, <2>9, MoveKeeps
<1> QED BY <1>3, <1>4

LEMMA LeaveWalkerKeeps ==
  ASSUME RInv, NEW r \in held \cap Live, ~Stream(r), reader[r].node # 0,
         LeaveWalker(r), UNCHANGED <<held, garbage>>
  PROVE  RInv'
<1> DEFINE h == reader[r]
           d == h.doc
           p == h.node
           to == After(d, p)
<1>1. d \in Doc /\ p \in Pos /\ p \in alive[d] /\ Above[p] \subseteq alive[d] /\ h \in ReaderRecord
  BY CursorPlaced, CursorInUse, HeldReaders DEF RInv
<1>2. to.node \in Cell /\ (to.node # 0 => to.node \in alive[d]) /\ to.back \in BOOLEAN
  <2>1. CASE NextSiblings(d, p) # {}
    <3>1. First(NextSiblings(d, p)) \in NextSiblings(d, p)
      BY <2>1, FirstIn DEF NextSiblings, Children
    <3>2. First(NextSiblings(d, p)) \in Pos \cap alive[d]
      BY <3>1 DEF NextSiblings, Children
    <3>3. to.node = First(NextSiblings(d, p)) /\ to.back = FALSE
      BY <2>1 DEF After
    <3> HIDE DEF to
    <3> QED BY <3>2, <3>3 DEF Cell
  <2>2. CASE NextSiblings(d, p) = {}
    <3>1. to.node = Parent[p] /\ to.back = TRUE
      BY <2>2 DEF After
    <3>2. Parent[p] # 0 => Parent[p] \in Above[p] /\ Parent[p] \in Pos
      BY <1>1, AboveUnfolds, AboveTyped, Positions
    <3> HIDE DEF to
    <3> QED BY <1>1, <3>1, <3>2, Positions
  <2> QED BY <2>1, <2>2
<1>3. UNCHANGED <<tree, wrapped, held, garbage>>
  BY DEF LeaveWalker
<1>4. CASE to.node = 0
  <2>1. Put(r, p, "end")
    BY <1>4 DEF LeaveWalker
  <2>2. p \in Cell
    BY <1>1 DEF Cell
  <2> QED BY <1>1, <1>3, <2>1, <2>2, PutMoves, WalkerMoves DEF RInv
<1>5. CASE to.node # 0
  <2> DEFINE g == [h EXCEPT !.node = to.node, !.back = to.back, !.attr = FALSE]
  <2>1. reader' = [reader EXCEPT ![r] = g]
    BY <1>5 DEF LeaveWalker
  <2> HIDE DEF to, h
  <2>2. /\ g \in ReaderRecord /\ g.kind = h.kind /\ g.doc = h.doc
        /\ g.preserve = h.preserve /\ g.node = to.node
    BY <1>1, <1>2 DEF ReaderRecord
  <2> HIDE DEF g
  <2>3. Moves(r, g)
    BY <2>1, <2>2, Becoming, HeldReaders DEF RInv, Moves, h
  <2> QED BY <1>2, <1>3, <1>5, <2>2, <2>3, WalkerMoves DEF h
<1> QED BY <1>4, <1>5

LEMMA SkipKeeps ==
  ASSUME RInv, NEW r \in held \cap Live, ~Stream(r),
         NEW p \in Pos \cap alive[reader[r].doc], NEW m \in {"reading", "end"}, Put(r, p, m),
         UNCHANGED <<tree, wrapped, held, garbage>>
  PROVE  RInv'
<1>1. p \in Cell /\ p # 0
  BY Positions DEF Cell
<1> QED BY <1>1, PutMoves, WalkerMoves DEF RInv

\* The mode and the attribute under the cursor are of no account.
LEMMA StayKeeps ==
  ASSUME RInv, NEW r \in held \cap Live, NEW g \in ReaderRecord,
         reader' = [reader EXCEPT ![r] = g],
         g.kind = reader[r].kind, g.doc = reader[r].doc, g.node = reader[r].node,
         g.back = reader[r].back, g.preserves = reader[r].preserves,
         g.preserve = reader[r].preserve,
         Stream(r) => reader[r].mode # "end",
         g.mode = "error" \/ (g.mode = "reading" /\ reader[r].mode = "reading"),
         UNCHANGED <<tree, wrapped, held, garbage>>
  PROVE  RInv'
<1>1. Moves(r, g) /\ UNCHANGED <<alive, claimed>> /\ reader'[r] = g
  BY Becoming, HeldReaders DEF RInv, Moves, Becomes, tree
<1>2. CASE ~Stream(r)
  <2>1. g.node \in {0} \cup alive[reader[r].doc] /\ (g.mode = "reading" => g.node # 0)
    BY <1>2 DEF RInv, Placed, WalkerPlaced
  <2> QED BY <1>1, <1>2, <2>1, WalkerMoves
<1>3. CASE Stream(r)
  <2>1. StreamPlaced(r)
    BY <1>3 DEF RInv, Placed
  <2>2. g.node # 0 => StreamAt(r, g.doc, g.node)'
    BY <1>1, <2>1 DEF StreamPlaced, StreamAt
  <2>3. StreamPlaced(r)'
    BY <1>1, <1>3, <2>1, <2>2 DEF StreamPlaced
  <2> QED BY <1>1, <1>3, <2>3, MoveKeeps
<1> QED BY <1>2, <1>3

-----------------------------------------------------------------------------
(* Leaving a node of a stream.                                             *)

\* The cells F of document d are freed, with their wrappers.
Frees(d, F) ==
  /\ alive' \in [Doc -> SUBSET Cell]
  /\ marked' \in [Doc -> SUBSET Pos]
  /\ claimed' \in [Doc -> SUBSET Pos]
  /\ alive'[d] = alive[d] \ F /\ marked'[d] = marked[d] \ F /\ claimed'[d] = claimed[d] \ F
  /\ \A e \in Doc \ {d} : /\ alive'[e] = alive[e] /\ marked'[e] = marked[e]
                          /\ claimed'[e] = claimed[e]
  /\ wrapped' = wrapped \ ({d} \X F)

LEMMA Freeing ==
  ASSUME Typed, NEW d \in Doc, NEW F, Free(d, F)
  PROVE  Frees(d, F)
BY DEF Typed, Free, Frees, deregisterNode, Cells

LEMMA FreeingNone ==
  ASSUME Typed, NEW d \in Doc, UNCHANGED <<tree, wrapped>>
  PROVE  Frees(d, {})
BY DEF Typed, Frees, tree

LEMMA CountLeft ==
  ASSUME NEW K, IsFiniteSet(K), NEW p, NEW L \in SUBSET (K \ {p}), NEW n \in Nat,
         Cardinality(K) <= n
  PROVE  Cardinality(L) <= IF p \in K /\ n > 0 THEN n - 1 ELSE n
<1>1. IsFiniteSet(K \ {p}) /\ Cardinality(K \ {p}) = IF p \in K THEN Cardinality(K) - 1 ELSE Cardinality(K)
  BY FS_RemoveElement
<1>2. Cardinality(L) <= Cardinality(K \ {p}) /\ Cardinality(L) \in Nat /\ Cardinality(K) \in Nat
  BY <1>1, FS_Subset, FS_CardinalityType
<1>3. p \in K => Cardinality(K) > 0
  BY <1>2, FS_EmptySet
<1> QED BY <1>1, <1>2, <1>3

\* The cursor goes to a place that is above p or still to come.
LEMMA LeaveTarget ==
  ASSUME NEW d, NEW p \in Pos, After(d, p).node # 0
  PROVE  LET t == After(d, p).node
         IN  /\ t \in Pos /\ After(d, p).back \in BOOLEAN
             /\ Above[t] \subseteq (Above[p] \ {p}) \cup Rest(p) /\ Rest(t) \subseteq Rest(p)
             /\ ~After(d, p).back => Below(t) \subseteq Rest(p)
<1>1. PICK t, b : t = After(d, p).node /\ b = After(d, p).back
  OBVIOUS
<1>2. CASE NextSiblings(d, p) # {}
  <2>1. First(NextSiblings(d, p)) \in NextSiblings(d, p)
    BY <1>2, FirstIn DEF NextSiblings, Children
  <2>2. t = First(NextSiblings(d, p)) /\ b = FALSE
    BY <1>1, <1>2 DEF After
  <2>3. t \in Later(p)
    BY <2>1, <2>2 DEF NextSiblings, Children, Later
  <2>4. /\ t \in Pos /\ Above[t] = {t} \cup (Above[p] \ {p})
        /\ Rest(t) \subseteq Rest(p) /\ Below(t) \subseteq Rest(p)
    BY <2>3, ToSibling
  <2>5. t \in Rest(p)
    BY <2>4, LeftBehind
  <2> QED BY <1>1, <2>2, <2>4, <2>5
<1>3. CASE NextSiblings(d, p) = {}
  <2>1. t = Parent[p] /\ b = TRUE /\ t # 0
    BY <1>1, <1>3 DEF After
  <2>2. /\ t \in Pos /\ Above[t] = Above[p] \ {p}
        /\ Rest(t) \subseteq Rest(p)
    BY <2>1, ToParent
  <2> QED BY <1>1, <2>1, <2>2
<1> QED BY <1>2, <1>3

\* What a stream leaves it may free, since nothing depends on it.
LEMMA PruneKeeps ==
  ASSUME RInv, NEW d \in Doc, NEW p \in Pos, NEW F,
         F = Below(p) \cap alive[d] \/ F = {}, Frees(d, F)
  PROVE  /\ Grown' /\ Claims' /\ 0 \notin F /\ F \subseteq Below(p)
         /\ \A e \in Doc : claimed'[e] \cup marked'[e] \subseteq alive'[e]
         /\ wrapped' \subseteq Doc \X Cell /\ \A w \in wrapped' : w[2] \in alive'[w[1]]
         /\ \A e \in Doc : <<e, 0>> \in wrapped => <<e, 0>> \in wrapped'
         /\ \A e \in Doc : alive'[e] # {} <=> alive[e] # {}
<1>1. 0 \notin F /\ F \subseteq Below(p)
  BY LeftBehind
<1>2. ASSUME NEW q \in alive[d] \ F, q # 0  PROVE Above[q] \cap F = {}
  <2> SUFFICES ASSUME NEW a \in Above[q], a \in F  PROVE FALSE
    OBVIOUS
  <2>1. q \in Pos
    BY <1>2 DEF RInv, Typed, Cell
  <2>2. p \in Above[a] /\ Above[a] \subseteq Above[q]
    BY <1>1, <2>1, AboveTransitive DEF Below
  <2>3. q \in Below(p) \cap alive[d]
    BY <2>1, <2>2 DEF Below
  <2> QED BY <1>2, <2>3
<1>3. Grown'
  <2> SUFFICES ASSUME NEW e \in Doc, NEW q \in alive'[e]
               PROVE  0 \in alive'[e] /\ (q # 0 => Above[q] \subseteq alive'[e])
    BY DEF Grown
  <2>1. q \in alive[e] /\ 0 \in alive[e] /\ (q # 0 => Above[q] \subseteq alive[e])
    BY DEF Frees, RInv, Grown
  <2>2. CASE e = d
    BY <1>1, <1>2, <2>1, <2>2 DEF Frees
  <2>3. CASE e # d
    BY <2>1, <2>3 DEF Frees
  <2> QED BY <2>2, <2>3
<1>4. \A e \in Doc : <<e, 0>> \in wrapped => <<e, 0>> \in wrapped'
  BY <1>1 DEF Frees
<1>5. Claims'
  <2> SUFFICES ASSUME NEW e \in Doc, NEW q \in claimed'[e]
               PROVE  <<e, 0>> \in wrapped' /\ Above[q] \subseteq marked'[e]
    BY DEF Claims
  <2>1. q \in claimed[e] /\ q \in alive[e] /\ q \in Pos /\ q # 0
    BY Positions DEF Frees, RInv, Typed
  <2>2. <<e, 0>> \in wrapped' /\ Above[q] \subseteq marked[e]
    BY <1>4, <2>1 DEF RInv, Claims
  <2>3. CASE e = d
    <3>1. q \notin F
      BY <2>3 DEF Frees
    <3> QED BY <1>2, <2>1, <2>2, <2>3, <3>1 DEF Frees
  <2>4. CASE e # d
    BY <2>2, <2>4 DEF Frees
  <2> QED BY <2>3, <2>4
<1>6. \A e \in Doc : claimed'[e] \cup marked'[e] \subseteq alive'[e]
  BY DEF Frees, RInv, Typed
<1>7. wrapped' \subseteq Doc \X Cell
  BY DEF Frees, RInv, Typed
<1>8. ASSUME NEW w \in wrapped'  PROVE w[2] \in alive'[w[1]]
  <2>1. w \in Doc \X Cell /\ w[2] \in alive[w[1]] /\ w = <<w[1], w[2]>> /\ w[1] \in Doc
    BY <1>8 DEF Frees, RInv, Typed
  <2>2. ~ (w[1] = d /\ w[2] \in F)
    BY <2>1, <1>8 DEF Frees
  <2> QED BY <2>1, <2>2 DEF Frees
<1>9. \A e \in Doc : alive'[e] # {} <=> alive[e] # {}
  BY <1>1 DEF Frees, RInv, Grown
<1> QED BY <1>1, <1>3, <1>4, <1>5, <1>6, <1>7, <1>8, <1>9

LEMMA HeldSplit ==
  ASSUME Typed
  PROVE  held \cap Readers \subseteq Live /\ wrapped \cap Readers = {}
<1>1. wrapped \subseteq Doc \X Nat
  <2>1. Cell \subseteq Nat
    BY Positions
  <2> QED BY <2>1 DEF Typed
<1> QED BY <1>1, CellsDistinct DEF Typed, Live

\* What reader r is once the stream has left the node under the cursor.
LEMMA LeaveMoves ==
  ASSUME RInv, NEW r \in held \cap Live, Stream(r), reader[r].mode = "reading",
         LeaveStream(r)
  PROVE  LET d == reader[r].doc
             p == reader[r].node
             to == After(d, p)
         IN  \E g, F, left :
              /\ d \in Doc /\ d # NULL /\ p \in Pos
              /\ Moves(r, g) /\ Frees(d, F)
              /\ (F = Below(p) \cap alive[d] /\ left = 0 /\ p \notin marked[d]) \/ F = {}
              /\ left = IF p \in claimed[d] /\ reader[r].preserves > 0
                        THEN reader[r].preserves - 1 ELSE reader[r].preserves
              /\ g.node = to.node /\ g.preserves = left
              /\ g.mode = IF to.node = 0 THEN "end" ELSE "reading"
              /\ to.node # 0 => g.back = to.back
<1>1. PICK h, d, p : h = reader[r] /\ d = h.doc /\ p = h.node
  OBVIOUS
<1>2. h \in ReaderRecord /\ r \in Readers
  BY <1>1, HeldReaders DEF RInv
<1>3. p # 0
  BY <1>1 DEF RInv, Placed, StreamPlaced
<1>4. d \in Doc /\ d # NULL /\ p \in Pos
  BY <1>1, <1>3, CursorPlaced, CursorInUse
<1>5. PICK t, b, left : /\ t = After(d, p).node /\ b = After(d, p).back
                        /\ left = IF p \in claimed[d] /\ h.preserves > 0
                                  THEN h.preserves - 1 ELSE h.preserves
  OBVIOUS
<1>6. t \in Cell /\ (t # 0 => b \in BOOLEAN) /\ left \in 0..MaxPreserves
  <2>1. t # 0 => t \in Pos /\ b \in BOOLEAN
    BY <1>4, <1>5, LeaveTarget
  <2>2. h.preserves \in 0..MaxPreserves /\ MaxPreserves \in Nat
    BY <1>2, BoundIsNat DEF ReaderRecord
  <2>3. left \in 0..MaxPreserves
    BY <1>5, <2>2
  <2> QED BY <2>1, <2>3 DEF Cell
<1> DEFINE bb == b /\ t # 0
           g == [h EXCEPT !.mode = IF t = 0 THEN "end" ELSE "reading", !.node = t,
                          !.back = bb, !.preserves = left, !.attr = FALSE]
<1>7. reader' = [reader EXCEPT ![r] = g]
  BY <1>1, <1>5 DEF LeaveStream
<1>8. bb \in BOOLEAN
  OBVIOUS
<1>9. t # 0 => bb = b
  BY <1>6
<1> HIDE DEF bb
<1>10. /\ g \in ReaderRecord /\ g.node = t /\ g.preserves = left /\ g.back = bb
       /\ g.mode = IF t = 0 THEN "end" ELSE "reading"
       /\ g.kind = h.kind /\ g.doc = h.doc /\ g.preserve = h.preserve
  BY <1>2, <1>6, <1>8 DEF ReaderRecord
<1> HIDE DEF g
<1>11. Moves(r, g)
  BY <1>1, <1>2, <1>7, <1>10, Becoming DEF RInv, Moves
<1>12. \E F : Frees(d, F) /\ ((F = Below(p) \cap alive[d] /\ left = 0 /\ p \notin marked[d]) \/ F = {})
  <2>1. IF left = 0 /\ p \notin marked[d]
          THEN Free(d, Below(p) \cap alive[d]) ELSE UNCHANGED <<tree, wrapped>>
    BY <1>1, <1>5 DEF LeaveStream
  <2>2. CASE left = 0 /\ p \notin marked[d]
    BY <1>4, <2>1, <2>2, Freeing DEF RInv
  <2>3. CASE ~ (left = 0 /\ p \notin marked[d])
    BY <1>4, <2>1, <2>3, FreeingNone DEF RInv
  <2> QED BY <2>2, <2>3
<1>13. t # 0 => g.back = b
  BY <1>9, <1>10
<1> QED BY <1>1, <1>4, <1>5, <1>10, <1>11, <1>12, <1>13

LEMMA LeaveStreamKeeps ==
  ASSUME RInv, NEW r \in held \cap Live, Stream(r), reader[r].mode = "reading",
         LeaveStream(r), held' = held \cap (Readers \cup wrapped'), Running
  PROVE  RInv'
<1>1. PICK d, p, t, b : /\ d = reader[r].doc /\ p = reader[r].node
                        /\ t = After(d, p).node /\ b = After(d, p).back
  OBVIOUS
<1>2. PICK g, F, left :
        /\ d \in Doc /\ d # NULL /\ p \in Pos
        /\ Moves(r, g) /\ Frees(d, F)
        /\ F = Below(p) \cap alive[d] \/ F = {}
        /\ left = IF p \in claimed[d] /\ reader[r].preserves > 0
                  THEN reader[r].preserves - 1 ELSE reader[r].preserves
        /\ g.node = t /\ g.preserves = left
        /\ g.mode = IF t = 0 THEN "end" ELSE "reading"
        /\ t # 0 => g.back = b
  <2> HIDE DEF Frees, Moves
  <2> QED BY <1>1, LeaveMoves
<1>3. /\ Grown' /\ Claims' /\ 0 \notin F /\ F \subseteq Below(p)
      /\ \A e \in Doc : claimed'[e] \cup marked'[e] \subseteq alive'[e]
      /\ wrapped' \subseteq Doc \X Cell /\ \A w \in wrapped' : w[2] \in alive'[w[1]]
      /\ \A e \in Doc : <<e, 0>> \in wrapped => <<e, 0>> \in wrapped'
      /\ \A e \in Doc : alive'[e] # {} <=> alive[e] # {}
  BY <1>2, PruneKeeps
<1>4. Live' = Live /\ Live \subseteq Readers
  BY <1>2, MovesView, HeldReaders DEF RInv
<1>5. \A s \in Readers : /\ (Stream(s))' = Stream(s)
                         /\ reader'[s].doc = reader[s].doc
                         /\ reader'[s].preserve = reader[s].preserve
                         /\ (Owns(s))' = Owns(s) /\ (Lends(s))' = Lends(s)
  BY <1>2, MovesView DEF RInv
<1>6. /\ garbage = {} /\ garbage' = {} /\ held' \subseteq held /\ wrapped' \subseteq wrapped
      /\ held' \cap Live = held \cap Live
  BY <1>2, <1>4 DEF Running, Frees
<1>7. Typed'
  <2>1. held' \subseteq wrapped' \cup Live'
    BY <1>4, HeldSplit DEF RInv
  <2>2. reader' \in [Readers -> ReaderRecord]
    BY <1>2 DEF Moves, Becomes, RInv, Typed
  <2> QED BY <1>2, <1>3, <1>6, <2>1, <2>2 DEF Typed, Frees
<1>8. Owned'
  <2>1. \A s \in Live : Owns(s) => reader[s].doc \in Doc
    BY HeldReaders DEF RInv, Owns
  <2>2. \A e \in Doc : alive'[e] # {} =>
          <<e, 0>> \in wrapped' \/ \E s \in Live : Owns(s) /\ reader[s].doc = e
    BY <1>3 DEF RInv, Owned
  <2>3. \A s \in Live : Owns(s) => /\ <<reader[s].doc, 0>> \notin wrapped'
                                   /\ alive'[reader[s].doc] # {}
    BY <1>3, <1>6, <2>1 DEF RInv, Owned
  <2>4. \A s, q \in Live : Owns(s) /\ Owns(q) /\ reader[s].doc = reader[q].doc => s = q
    BY DEF RInv, Owned
  <2> QED BY <1>4, <1>5, <2>2, <2>3, <2>4 DEF Owned
<1>9. NodesKept' /\ LentKept'
  <2>1. \A s \in held \cap Live : Lends(s) => reader[s].doc \in Doc /\ <<reader[s].doc, 0>> \in wrapped
    BY HeldReaders DEF RInv, LentKept, Lends
  <2> QED BY <1>3, <1>4, <1>5, <1>6, <2>1 DEF NodesKept, LentKept
<1>10. ASSUME NEW s \in held \cap Live, s # r  PROVE reader[s].doc # d
  BY <1>1, <1>2, <1>10 DEF RInv, ReadersApart
<1>11. ReadersApart'
  <2> SUFFICES ASSUME NEW s \in held \cap Live, NEW q \in held \cap Live, Stream(s),
                      reader[s].doc # NULL, reader[q].doc = reader[s].doc
               PROVE  IF Stream(q) THEN s = q ELSE reader'[s].mode = "end"
    BY <1>4, <1>5, <1>6 DEF ReadersApart
  <2>1. IF Stream(q) THEN s = q ELSE reader[s].mode = "end"
    BY DEF RInv, ReadersApart
  <2>2. CASE s # r
    BY <1>2, <1>4, <2>1, <2>2 DEF Moves, Becomes
  <2>3. CASE s = r
    BY <2>1, <2>3
  <2> QED BY <2>2, <2>3
<1>12. reader'[r] = g /\ g.doc = d /\ d \in Doc
  BY <1>1, <1>2 DEF Moves, Becomes
<1>13. StreamPlaced(r)'
  <2>1. CASE t = 0
    BY <1>2, <1>12, <2>1 DEF StreamPlaced
  <2>2. CASE t # 0
    <3>1. /\ t \in Pos
          /\ Above[t] \subseteq (Above[p] \ {p}) \cup Rest(p) /\ Rest(t) \subseteq Rest(p)
          /\ ~b => Below(t) \subseteq Rest(p)
      BY <1>1, <1>2, <2>2, LeaveTarget
    <3>2. StreamAt(r, d, p)
      BY <1>1, <1>2, Positions DEF RInv, Placed, StreamPlaced
    <3>3. Below(p) \cap Rest(p) = {} /\ Below(p) \cap (Above[p] \ {p}) = {}
      BY <1>2, LeftBehind
    <3>4. alive'[d] = alive[d] \ F /\ claimed'[d] = claimed[d] \ F
      BY <1>2 DEF Frees
    <3>5. Above[t] \cup Rest(t) \subseteq alive'[d] /\ (~b => Below(t) \subseteq alive'[d])
      BY <1>3, <3>1, <3>2, <3>3, <3>4 DEF StreamAt
    <3>6. claimed'[d] \cap Rest(t) = {} /\ (~b => claimed'[d] \cap Inside(t) = {})
      BY <3>1, <3>2, <3>4 DEF StreamAt, Inside
    <3>7. Cardinality(claimed'[d] \cap Above[t]) <= left
      <4> DEFINE K == claimed[d] \cap Above[p]
                 L == claimed'[d] \cap Above[t]
      <4>1. L \subseteq K \ {p}
        BY <3>1, <3>2, <3>4 DEF StreamAt
      <4>2. IsFiniteSet(K)
        <5>1. K \subseteq Pos /\ IsFiniteSet(Pos)
          BY <1>2, AboveTyped, Positions
        <5> QED BY <5>1, FS_Subset
      <4>3. Cardinality(K) <= reader[r].preserves /\ reader[r].preserves \in Nat
        BY <3>2, HeldReaders, BoundIsNat DEF StreamAt, RInv
      <4>4. p \in K <=> p \in claimed[d]
        BY <1>2, AboveTyped
      <4> HIDE DEF K, L
      <4>5. Cardinality(L) <= IF p \in K /\ reader[r].preserves > 0
                              THEN reader[r].preserves - 1 ELSE reader[r].preserves
        BY <4>1, <4>2, <4>3, CountLeft
      <4> QED BY <1>2, <4>4, <4>5 DEF L
    <3>8. StreamAt(r, d, t)'
      BY <1>2, <1>12, <2>2, <3>5, <3>6, <3>7 DEF StreamAt
    <3> QED BY <1>2, <1>12, <2>2, <3>8 DEF StreamPlaced
  <2> QED BY <2>1, <2>2
<1>14. Placed'
  <2> SUFFICES ASSUME NEW s \in held \cap Live
               PROVE  IF Stream(s) THEN StreamPlaced(s)' ELSE WalkerPlaced(s)'
    BY <1>4, <1>5, <1>6 DEF Placed
  <2>1. CASE s # r
    <3>1. reader'[s] = reader[s]
      BY <1>2, <1>4, <2>1 DEF Moves, Becomes
    <3>2. IF Stream(s) THEN StreamPlaced(s) ELSE WalkerPlaced(s)
      BY DEF RInv, Placed
    <3>3. reader[s].doc \in Doc =>
            alive'[reader[s].doc] = alive[reader[s].doc] /\ claimed'[reader[s].doc] = claimed[reader[s].doc]
      BY <1>2, <1>10, <2>1 DEF Frees
    <3> QED BY <3>1, <3>2, <3>3 DEF StreamPlaced, StreamAt, WalkerPlaced
  <2> QED BY <1>13, <2>1
<1> QED BY <1>3, <1>7, <1>8, <1>9, <1>11, <1>14 DEF RInv

-----------------------------------------------------------------------------
(* New documents and readers.                                              *)

\* The tree of a new document is whole and not claimed.
LEMMA Building ==
  ASSUME RInv, NEW d \in Doc, alive[d] = {}, Build(d)
  PROVE  /\ alive' \in [Doc -> SUBSET Cell]
         /\ alive'[d] = Cell /\ \A e \in Doc \ {d} : alive'[e] = alive[e]
         /\ UNCHANGED <<marked, claimed>> /\ claimed[d] = {} /\ marked[d] = {}
         /\ Grown' /\ <<d, 0>> \notin wrapped
         /\ \A e \in Doc : claimed'[e] \cup marked'[e] \subseteq alive'[e]
         /\ \A w \in wrapped : w[1] # d /\ w[2] \in alive'[w[1]]
         /\ \A s \in Live : Owns(s) => reader[s].doc # d
         /\ \A s \in held \cap Live : reader[s].doc # d
<1>1. /\ alive' = [alive EXCEPT ![d] = Cell] /\ UNCHANGED <<marked, claimed>>
      /\ alive \in [Doc -> SUBSET Cell]
  BY DEF Build, RInv, Typed
<1>2. /\ alive' \in [Doc -> SUBSET Cell]
      /\ alive'[d] = Cell /\ \A e \in Doc \ {d} : alive'[e] = alive[e]
  BY <1>1
<1>3. claimed[d] = {} /\ marked[d] = {} /\ <<d, 0>> \notin wrapped
  BY DEF RInv, Typed
<1>4. \A e \in Doc : claimed'[e] \cup marked'[e] \subseteq alive'[e]
  BY <1>1, <1>2, <1>3 DEF RInv, Typed
<1>5. \A w \in wrapped : w[1] # d /\ w[2] \in alive'[w[1]]
  BY <1>2 DEF RInv, Typed
<1>6. Grown'
  <2> SUFFICES ASSUME NEW e \in Doc, NEW q \in alive'[e]
               PROVE  0 \in alive'[e] /\ (q # 0 => Above[q] \subseteq alive'[e])
    BY DEF Grown
  <2>1. CASE e = d
    <3>1. q # 0 => q \in Pos
      BY <1>2 DEF Cell
    <3> QED BY <1>2, <2>1, <3>1, AboveTyped DEF Cell
  <2>2. CASE e # d
    BY <1>2, <2>2 DEF RInv, Grown
  <2> QED BY <2>1, <2>2
<1>7. \A s \in Live : Owns(s) => reader[s].doc # d
  BY DEF RInv, Owned
<1>8. ASSUME NEW s \in held \cap Live, reader[s].doc = d  PROVE FALSE
  BY <1>8, CursorInUse, CellsDistinct
<1> QED BY <1>1, <1>2, <1>3, <1>4, <1>5, <1>6, <1>7, <1>8

\* What is so of a reader stays so when its document does not change.
LEMMA SamePlaced ==
  ASSUME NEW s \in held \cap Live, Placed, reader'[s] = reader[s],
         reader[s].doc \in Doc => /\ alive'[reader[s].doc] = alive[reader[s].doc]
                                  /\ claimed'[reader[s].doc] = claimed[reader[s].doc]
  PROVE  IF Stream(s)' THEN StreamPlaced(s)' ELSE WalkerPlaced(s)'
<1>1. IF Stream(s) THEN StreamPlaced(s) ELSE WalkerPlaced(s)
  BY DEF Placed
<1>2. Stream(s)' = Stream(s)
  BY DEF Stream
<1> QED BY <1>1, <1>2 DEF StreamPlaced, StreamAt, WalkerPlaced

\* A stream that gets its document, and is on the root element or has failed.
LEMMA StartKeeps ==
  ASSUME RInv, Running, NEW r \in held \cap Live, Stream(r), reader[r].mode = "start",
         NEW d \in Doc, alive[d] = {}, Build(d), NEW g, Becomes(r, g),
         g.doc = d, g.kind = reader[r].kind, g.preserve = reader[r].preserve,
         \/ (g.mode = "reading" /\ g.node = 1) \/ (g.mode = "error" /\ g.node = 0),
         UNCHANGED <<wrapped, held>>
  PROVE  RInv'
<1>1. /\ alive' \in [Doc -> SUBSET Cell]
      /\ alive'[d] = Cell /\ \A e \in Doc \ {d} : alive'[e] = alive[e]
      /\ UNCHANGED <<marked, claimed>> /\ claimed[d] = {}
      /\ Grown' /\ <<d, 0>> \notin wrapped
      /\ \A e \in Doc : claimed'[e] \cup marked'[e] \subseteq alive'[e]
      /\ \A w \in wrapped : w[1] # d /\ w[2] \in alive'[w[1]]
      /\ \A s \in Live : Owns(s) => reader[s].doc # d
      /\ \A s \in held \cap Live : reader[s].doc # d
  BY Building
<1>2. /\ reader[r].doc = NULL /\ ~reader[r].preserve /\ d # NULL /\ garbage = {} /\ garbage' = {}
      /\ Live \subseteq Readers
  BY CellsDistinct, HeldReaders DEF RInv, Placed, StreamPlaced, Running
<1>3. /\ reader'[r] = g /\ \A s \in Readers \ {r} : reader'[s] = reader[s]
      /\ g \in ReaderRecord /\ reader' \in [Readers -> ReaderRecord]
  BY DEF Becomes, RInv, Typed
<1>4. Live' = Live /\ Stream(r)' /\ Owns(r)' /\ ~Lends(r)' /\ ~Owns(r)
  BY <1>2, <1>3 DEF Live, Stream, Owns, Lends
<1>5. \A s \in Live \ {r} : /\ reader'[s] = reader[s] /\ (Stream(s))' = Stream(s)
                            /\ (Owns(s))' = Owns(s) /\ (Lends(s))' = Lends(s)
  BY <1>2, <1>3 DEF Stream, Owns, Lends
<1>6. Typed'
  BY <1>1, <1>2, <1>3, <1>4 DEF RInv, Typed
<1>7. Claims' /\ NodesKept'
  BY <1>1, <1>2 DEF RInv, Claims, NodesKept
<1>8. LentKept'
  BY <1>2, <1>4, <1>5 DEF RInv, LentKept
<1>9. Owned'
  <2>1. \A e \in Doc : alive'[e] # {} =>
          <<e, 0>> \in wrapped' \/ \E s \in Live' : Owns(s)' /\ reader'[s].doc = e
    <3> SUFFICES ASSUME NEW e \in Doc, alive'[e] # {}, <<e, 0>> \notin wrapped
                 PROVE  \E s \in Live' : Owns(s)' /\ reader'[s].doc = e
      OBVIOUS
    <3>1. CASE e = d
      BY <1>3, <1>4, <3>1
    <3>2. CASE e # d
      <4>1. PICK s \in Live : Owns(s) /\ reader[s].doc = e
        BY <1>1, <3>2 DEF RInv, Owned
      <4> QED BY <1>4, <1>5, <4>1
    <3> QED BY <3>1, <3>2
  <2>2. \A s \in Live' : Owns(s)' => <<reader'[s].doc, 0>> \notin wrapped' /\ alive'[reader'[s].doc] # {}
    <3> SUFFICES ASSUME NEW s \in Live, Owns(s)'
                 PROVE  <<reader'[s].doc, 0>> \notin wrapped /\ alive'[reader'[s].doc] # {}
      BY <1>4
    <3>1. CASE s = r
      BY <1>1, <1>3, <3>1 DEF Cell
    <3>2. CASE s # r
      <4>1. Owns(s) /\ reader'[s].doc = reader[s].doc /\ reader[s].doc \in Doc
        BY <1>5, <3>2, HeldReaders DEF RInv, Owns
      <4> QED BY <1>1, <4>1 DEF RInv, Owned
    <3> QED BY <3>1, <3>2
  <2>3. \A s, t \in Live' : Owns(s)' /\ Owns(t)' /\ reader'[s].doc = reader'[t].doc => s = t
    BY <1>1, <1>3, <1>4, <1>5 DEF RInv, Owned
  <2> QED BY <2>1, <2>2, <2>3 DEF Owned
<1>10. ReadersApart'
  <2> SUFFICES ASSUME NEW s \in held \cap Live, NEW t \in held \cap Live, Stream(s)',
                      reader'[s].doc # NULL, reader'[t].doc = reader'[s].doc
               PROVE  IF Stream(t)' THEN s = t ELSE reader'[s].mode = "end"
    BY <1>4 DEF ReadersApart
  <2>1. CASE s # r /\ t # r
    BY <1>5, <2>1 DEF RInv, ReadersApart
  <2>2. CASE s = r \/ t = r
    <3>1. s = r /\ t = r
      BY <1>1, <1>3, <1>5, <2>2
    <3> QED BY <1>4, <3>1
  <2> QED BY <2>1, <2>2
<1>11. StreamPlaced(r)'
  <2>1. 1 \in Pos /\ Above[1] \subseteq Pos /\ Rest(1) \subseteq Pos /\ Below(1) \subseteq Pos
    BY Positions, AboveTyped DEF Rest, Below
  <2>2. Cardinality(claimed'[d] \cap Above[1]) = 0
    BY <1>1, FS_EmptySet
  <2>3. g.preserves \in Nat
    BY <1>3, BoundIsNat DEF ReaderRecord
  <2>4. StreamAt(r, d, 1)'
    BY <1>1, <1>3, <2>1, <2>2, <2>3 DEF StreamAt, Cell
  <2> QED BY <1>3, <2>4 DEF StreamPlaced
<1>12. Placed'
  <2> SUFFICES ASSUME NEW s \in held \cap Live
               PROVE  IF Stream(s)' THEN StreamPlaced(s)' ELSE WalkerPlaced(s)'
    BY <1>4 DEF Placed
  <2>1. CASE s # r
    <3>1. /\ reader'[s] = reader[s]
          /\ reader[s].doc \in Doc => /\ alive'[reader[s].doc] = alive[reader[s].doc]
                                      /\ claimed'[reader[s].doc] = claimed[reader[s].doc]
      BY <1>1, <1>5, <2>1
    <3> QED BY <3>1, SamePlaced DEF RInv
  <2> QED BY <1>4, <1>11, <2>1
<1> QED BY <1>1, <1>6, <1>7, <1>8, <1>9, <1>10, <1>12 DEF RInv

LEMMA ParseKeeps ==
  ASSUME RInv, NEW d \in Doc, document_parse(d)
  PROVE  RInv'
<1>0. /\ alive[d] = {} /\ Build(d) /\ garbage = {} /\ garbage' = {} /\ reader' = reader
      /\ wrapped' = wrapped \cup {<<d, 0>>} /\ held' = held \cup {<<d, 0>>}
  BY DEF document_parse, Running
<1>1. /\ alive' \in [Doc -> SUBSET Cell]
      /\ alive'[d] = Cell /\ \A e \in Doc \ {d} : alive'[e] = alive[e]
      /\ UNCHANGED <<marked, claimed>> /\ claimed[d] = {}
      /\ Grown' /\ <<d, 0>> \notin wrapped
      /\ \A e \in Doc : claimed'[e] \cup marked'[e] \subseteq alive'[e]
      /\ \A w \in wrapped : w[1] # d /\ w[2] \in alive'[w[1]]
      /\ \A s \in Live : Owns(s) => reader[s].doc # d
      /\ \A s \in held \cap Live : reader[s].doc # d
  BY <1>0, Building
<1>2. /\ Live' = Live /\ Live \subseteq Readers
      /\ \A s : (Stream(s))' = Stream(s) /\ (Owns(s))' = Owns(s) /\ (Lends(s))' = Lends(s)
  BY <1>0, HeldReaders DEF RInv, Live, Stream, Owns, Lends
<1>3. <<d, 0>> \notin Readers /\ <<d, 0>> \in Doc \X Cell /\ held' \cap Live = held \cap Live
  BY <1>0, <1>2, CellsDistinct DEF Cell
<1>4. Typed'
  BY <1>0, <1>1, <1>2, <1>3 DEF RInv, Typed, Cell
<1>5. Claims' /\ NodesKept'
  BY <1>0, <1>1 DEF RInv, Claims, NodesKept
<1>6. LentKept'
  BY <1>0, <1>2, <1>3 DEF RInv, LentKept
<1>7. Owned'
  <2>1. \A e \in Doc : alive'[e] # {} =>
          <<e, 0>> \in wrapped' \/ \E s \in Live' : Owns(s)' /\ reader'[s].doc = e
    BY <1>0, <1>1, <1>2 DEF RInv, Owned
  <2>2. \A s \in Live : Owns(s) => reader[s].doc \in Doc
    BY HeldReaders DEF RInv, Owns
  <2>3. \A s \in Live' : Owns(s)' => <<reader'[s].doc, 0>> \notin wrapped' /\ alive'[reader'[s].doc] # {}
    BY <1>0, <1>1, <1>2, <2>2 DEF RInv, Owned
  <2>4. \A s, t \in Live' : Owns(s)' /\ Owns(t)' /\ reader'[s].doc = reader'[t].doc => s = t
    BY <1>0, <1>2 DEF RInv, Owned
  <2> QED BY <2>1, <2>3, <2>4 DEF Owned
<1>8. ReadersApart'
  BY <1>0, <1>2, <1>3 DEF RInv, ReadersApart
<1>9. Placed'
  <2> SUFFICES ASSUME NEW s \in held \cap Live
               PROVE  IF Stream(s)' THEN StreamPlaced(s)' ELSE WalkerPlaced(s)'
    BY <1>2, <1>3 DEF Placed
  <2>1. /\ reader'[s] = reader[s]
        /\ reader[s].doc \in Doc => /\ alive'[reader[s].doc] = alive[reader[s].doc]
                                    /\ claimed'[reader[s].doc] = claimed[reader[s].doc]
    BY <1>0, <1>1
  <2> QED BY <2>1, SamePlaced DEF RInv
<1> QED BY <1>1, <1>4, <1>5, <1>6, <1>7, <1>8, <1>9 DEF RInv

\* Wrappers of nodes, and what the program takes hold of.
LEMMA WrapKeeps ==
  ASSUME RInv, Running, NEW W \in SUBSET (Doc \X Pos), NEW H \in SUBSET (wrapped \cup W),
         \A w \in W : w[2] \in alive[w[1]],
         wrapped' = wrapped \cup W, held' = held \cup H, UNCHANGED <<reader, tree>>
  PROVE  RInv'
<1>1. /\ UNCHANGED <<alive, marked, claimed>> /\ garbage = {} /\ garbage' = {}
  BY DEF tree, Running
<1>2. /\ Live' = Live /\ Live \subseteq Readers
      /\ \A s : (Stream(s))' = Stream(s) /\ (Owns(s))' = Owns(s) /\ (Lends(s))' = Lends(s)
  BY HeldReaders DEF RInv, Live, Stream, Owns, Lends
<1>3. W \cap Readers = {} /\ W \subseteq Doc \X Cell /\ \A e : <<e, 0>> \notin W
  BY CellsDistinct, Positions
<1>4. held' \cap Live = held \cap Live
  BY <1>2, <1>3, HeldSplit DEF RInv
<1>5. Typed'
  BY <1>1, <1>2, <1>3 DEF RInv, Typed
<1>6. Grown' /\ Claims' /\ NodesKept'
  BY <1>1 DEF RInv, Grown, Claims, NodesKept
<1>7. Owned'
  BY <1>1, <1>2, <1>3 DEF RInv, Owned
<1>8. LentKept' /\ ReadersApart'
  BY <1>1, <1>2, <1>4 DEF RInv, LentKept, ReadersApart
<1>9. Placed'
  <2> SUFFICES ASSUME NEW s \in held \cap Live
               PROVE  IF Stream(s)' THEN StreamPlaced(s)' ELSE WalkerPlaced(s)'
    BY <1>2, <1>4 DEF Placed
  <2> QED BY <1>1, SamePlaced DEF RInv
<1> QED BY <1>5, <1>6, <1>7, <1>8, <1>9 DEF RInv

LEMMA ReaderNodeKeeps ==
  ASSUME RInv, NEW r \in Readers, reader_node(r)
  PROVE  RInv'
<1> DEFINE w == <<reader[r].doc, reader[r].node>>
<1>1. /\ Running /\ r \in held \cap Live /\ reader[r].node # 0
      /\ wrapped' = wrapped \cup {w} /\ held' = held \cup {w} /\ UNCHANGED <<reader, tree>>
  BY DEF reader_node, On, Wrap
<1>2. reader[r].doc \in Doc /\ reader[r].node \in Pos /\ reader[r].node \in alive[reader[r].doc]
  BY <1>1, CursorPlaced, CursorInUse
<1>3. {w} \in SUBSET (Doc \X Pos) /\ {w} \in SUBSET (wrapped \cup {w})
      /\ \A v \in {w} : v[2] \in alive[v[1]]
  BY <1>2
<1> QED BY <1>1, <1>3, WrapKeeps

LEMMA NodeGetKeeps ==
  ASSUME RInv, NEW d \in Doc, NEW p \in Pos, node_get(d, p)
  PROVE  RInv'
<1>1. Running /\ UNCHANGED <<reader, tree>>
  BY DEF node_get
<1>2. CASE \E q \in Related(p) \cap alive[d] : Wrap({<<d, q>>}) /\ held' = held \cup {<<d, q>>}
  <2>1. PICK q \in Related(p) \cap alive[d] :
          wrapped' = wrapped \cup {<<d, q>>} /\ held' = held \cup {<<d, q>>}
    BY <1>2 DEF Wrap
  <2>2. /\ {<<d, q>>} \in SUBSET (Doc \X Pos) /\ {<<d, q>>} \in SUBSET (wrapped \cup {<<d, q>>})
        /\ \A v \in {<<d, q>>} : v[2] \in alive[v[1]]
    BY DEF Related
  <2> QED BY <1>1, <2>1, <2>2, WrapKeeps
<1>3. CASE <<d, 0>> \in wrapped /\ UNCHANGED wrapped /\ held' = held \cup {<<d, 0>>}
  <2>1. wrapped' = wrapped \cup {} /\ {<<d, 0>>} \in SUBSET (wrapped \cup {})
    BY <1>3
  <2>2. {} \in SUBSET (Doc \X Pos) /\ \A w \in {} : w[2] \in alive[w[1]]
    OBVIOUS
  <2> DEFINE H == {<<d, 0>>}
  <2>3. held' = held \cup H /\ H \in SUBSET (wrapped \cup {})
    BY <1>3
  <2> HIDE DEF H
  <2> QED BY <1>1, <2>1, <2>2, <2>3, WrapKeeps
<1> QED BY <1>2, <1>3 DEF node_get

\* A new reader that owns nothing, and walks a document the program holds.
LEMMA NewReaderKeeps ==
  ASSUME RInv, Running, NEW r \in Readers \ Live, NEW k \in {"stream", "walker"},
         NEW d \in Doc \cup {NULL},
         reader' = [reader EXCEPT ![r] = Blank(k, d)], held' = held \cup {r},
         UNCHANGED <<tree, wrapped>>,
         IF k = "stream" THEN d = NULL
         ELSE /\ d \in Doc /\ <<d, 0>> \in wrapped
              /\ \A s \in Live : Stream(s) /\ reader[s].doc = d =>
                   reader[s].mode \in {"closed", "end"}
  PROVE  RInv'
<1> DEFINE g == Blank(k, d)
<1>1. /\ g \in ReaderRecord /\ g.kind = k /\ g.doc = d /\ g.node = 0
      /\ g.preserve = FALSE /\ g.mode = "start"
  <2>1. /\ Blank(k, d) \in ReaderRecord /\ Blank(k, d).kind = k /\ Blank(k, d).doc = d
        /\ Blank(k, d).node = 0 /\ Blank(k, d).preserve = FALSE /\ Blank(k, d).mode = "start"
    BY BoundIsNat DEF Blank, ReaderRecord, Cell
  <2> QED BY <2>1
<1> HIDE DEF g
<1>2. /\ reader'[r] = g /\ \A s \in Readers \ {r} : reader'[s] = reader[s]
      /\ reader' \in [Readers -> ReaderRecord]
  BY <1>1 DEF g, RInv, Typed
<1>3. UNCHANGED <<alive, marked, claimed, wrapped>> /\ garbage = {} /\ garbage' = {}
  BY DEF tree, Running
<1>4. Live' = Live \cup {r} /\ r \notin held /\ Live \subseteq Readers
  <2>1. r \notin held
    BY HeldSplit DEF RInv
  <2> QED BY <1>1, <1>2, <2>1 DEF Live
<1>5. \A s \in Live : /\ reader'[s] = reader[s] /\ (Stream(s))' = Stream(s)
                      /\ (Owns(s))' = Owns(s) /\ (Lends(s))' = Lends(s)
  BY <1>2, <1>4 DEF Stream, Owns, Lends
<1>6. (Stream(r))' = (k = "stream") /\ ~Owns(r)' /\ (Lends(r)' => <<d, 0>> \in wrapped)
  BY <1>1, <1>2 DEF Stream, Owns, Lends
<1>7. Typed'
  BY <1>2, <1>3, <1>4 DEF RInv, Typed
<1>8. Grown' /\ Claims' /\ NodesKept'
  BY <1>3 DEF RInv, Grown, Claims, NodesKept
<1>9. Owned'
  <2>1. \A e \in Doc : alive'[e] # {} =>
          <<e, 0>> \in wrapped' \/ \E s \in Live' : Owns(s)' /\ reader'[s].doc = e
    BY <1>3, <1>4, <1>5 DEF RInv, Owned
  <2>2. \A s \in Live' : Owns(s)' => <<reader'[s].doc, 0>> \notin wrapped' /\ alive'[reader'[s].doc] # {}
    BY <1>3, <1>4, <1>5, <1>6 DEF RInv, Owned
  <2>3. \A s, t \in Live' : Owns(s)' /\ Owns(t)' /\ reader'[s].doc = reader'[t].doc => s = t
    BY <1>3, <1>4, <1>5, <1>6 DEF RInv, Owned
  <2> QED BY <2>1, <2>2, <2>3 DEF Owned
<1>10. LentKept'
  BY <1>1, <1>2, <1>3, <1>4, <1>5, <1>6 DEF RInv, LentKept
<1>11. \A s \in held \cap Live : Stream(s) /\ reader[s].doc # NULL => reader[s].mode # "closed"
  BY DEF RInv, Placed, StreamPlaced
<1>12. ReadersApart'
  <2> SUFFICES ASSUME NEW s \in (held \cap Live) \cup {r}, NEW t \in (held \cap Live) \cup {r},
                      Stream(s)', reader'[s].doc # NULL, reader'[t].doc = reader'[s].doc
               PROVE  IF Stream(t)' THEN s = t ELSE reader'[s].mode = "end"
    BY <1>4 DEF ReadersApart
  <2>1. s # r
    BY <1>1, <1>2, <1>6
  <2>2. CASE t # r
    BY <1>5, <2>1, <2>2 DEF RInv, ReadersApart
  <2>3. CASE t = r
    <3>1. Stream(s) /\ reader[s].doc = d /\ d # NULL /\ s \in held \cap Live /\ reader'[s] = reader[s]
      BY <1>1, <1>2, <1>5, <2>1, <2>3
    <3> QED BY <1>6, <1>11, <2>3, <3>1
  <2> QED BY <2>2, <2>3
<1>13. Placed'
  <2> SUFFICES ASSUME NEW s \in (held \cap Live) \cup {r}
               PROVE  IF Stream(s)' THEN StreamPlaced(s)' ELSE WalkerPlaced(s)'
    BY <1>4 DEF Placed
  <2>1. CASE s = r
    BY <1>1, <1>2, <1>6, <2>1 DEF StreamPlaced, WalkerPlaced
  <2>2. CASE s # r
    BY <1>3, <1>5, <2>2, SamePlaced DEF RInv
  <2> QED BY <2>1, <2>2
<1> QED BY <1>7, <1>8, <1>9, <1>10, <1>12, <1>13 DEF RInv

LEMMA ReaderDocumentKeeps ==
  ASSUME Lawful, RInv, NEW r \in Readers, NEW d \in Doc, reader_document(r, d)
  PROVE  RInv'
<1>1. /\ Running /\ r \in Readers \ Live /\ <<d, 0>> \in held
      /\ reader' = [reader EXCEPT ![r] = Blank("walker", d)]
      /\ held' = held \cup {r} /\ UNCHANGED <<tree, wrapped>>
  BY DEF reader_document
<1>2. <<d, 0>> \in wrapped
  BY <1>1, HeldReaders, CellsDistinct DEF RInv, Typed
<1>3. \A s \in Live : Stream(s) /\ reader[s].doc = d => reader[s].mode \in {"closed", "end"}
  BY DEF reader_document, SoleReader, Lawful, Stream
<1> QED BY <1>1, <1>2, <1>3, NewReaderKeeps

LEMMA ReaderStreamKeeps ==
  ASSUME RInv, NEW r \in Readers, reader_stream(r)
  PROVE  RInv'
BY NewReaderKeeps DEF reader_stream

-----------------------------------------------------------------------------
(* Reader#expand.                                                          *)

LEMMA CountOneMore ==
  ASSUME NEW K, IsFiniteSet(K), NEW p, NEW n \in Nat, Cardinality(K) <= n
  PROVE  Cardinality(K \cup {p}) <= n + 1
<1>1. Cardinality(K \cup {p}) = IF p \in K THEN Cardinality(K) ELSE Cardinality(K) + 1
  BY FS_AddElement
<1> QED BY <1>1, FS_CardinalityType

LEMMA ExpandMoves ==
  ASSUME RInv, NEW r \in held \cap Live, reader[r].node # 0, Preserve(r)
  PROVE  LET d == reader[r].doc
             p == reader[r].node
         IN  \E g, C :
              /\ Becomes(r, g) /\ g.kind = reader[r].kind /\ g.doc = d /\ g.node = p
              /\ g.mode = reader[r].mode /\ g.back = reader[r].back
              /\ g.preserve = Stream(r)
              /\ Stream(r) => g.preserves = reader[r].preserves + 1
              /\ C \subseteq {p} /\ UNCHANGED alive
              /\ claimed' \in [Doc -> SUBSET Pos] /\ marked' \in [Doc -> SUBSET Pos]
              /\ claimed'[d] = claimed[d] \cup C /\ marked'[d] = marked[d] \cup Above[p]
              /\ \A e \in Doc \ {d} : claimed'[e] = claimed[e] /\ marked'[e] = marked[e]
<1>1. PICK h, d, p : h = reader[r] /\ d = h.doc /\ p = h.node
  OBVIOUS
<1>2. h \in ReaderRecord /\ r \in Readers
  BY <1>1, HeldReaders DEF RInv
<1>3. d \in Doc /\ p \in Pos /\ Above[p] \subseteq Pos
  BY <1>1, CursorPlaced, CursorInUse, AboveTyped
<1>4. PICK n, s : n = (IF Stream(r) THEN h.preserves + 1 ELSE 0) /\ s = Stream(r)
  OBVIOUS
<1>5. n \in 0..MaxPreserves /\ s \in BOOLEAN
  <2>1. h.preserves \in 0..MaxPreserves /\ h.preserves < MaxPreserves
    BY <1>1, <1>2 DEF Preserve, ReaderRecord
  <2>2. n \in 0..MaxPreserves
    BY <1>4, <2>1, BoundIsNat
  <2> QED BY <1>4, <2>2 DEF Stream
<1> DEFINE g == [h EXCEPT !.preserves = n, !.preserve = s]
<1>6. reader' = [reader EXCEPT ![r] = g]
  <2>1. reader' = [reader EXCEPT ![r].preserves = IF Stream(r) THEN @ + 1 ELSE 0,
                                 ![r].preserve = Stream(r)]
    BY DEF Preserve
  <2> QED BY <1>1, <1>2, <1>4, <2>1 DEF RInv, Typed
<1>7. /\ g \in ReaderRecord /\ g.kind = h.kind /\ g.doc = h.doc /\ g.node = h.node
      /\ g.mode = h.mode /\ g.back = h.back /\ g.preserve = s /\ g.preserves = n
  BY <1>2, <1>5 DEF ReaderRecord
<1> HIDE DEF g
<1>8. Becomes(r, g)
  BY <1>2, <1>6, <1>7, Becoming DEF RInv
<1>9. PICK C : C = IF reader[r].attr THEN {} ELSE {p}
  OBVIOUS
<1>10. /\ C \subseteq {p} /\ UNCHANGED alive
       /\ claimed' = [claimed EXCEPT ![d] = claimed[d] \cup C]
       /\ marked' = [marked EXCEPT ![d] = marked[d] \cup Above[p]]
  <2>1. claimed' = [claimed EXCEPT ![d] = IF reader[r].attr THEN @ ELSE @ \cup {p}]
    BY <1>1 DEF Preserve
  <2>2. claimed' = [claimed EXCEPT ![d] = claimed[d] \cup C]
    BY <1>9, <2>1
  <2> QED BY <1>1, <1>9, <2>2 DEF Preserve
<1>11. /\ claimed' \in [Doc -> SUBSET Pos] /\ marked' \in [Doc -> SUBSET Pos]
       /\ claimed'[d] = claimed[d] \cup C /\ marked'[d] = marked[d] \cup Above[p]
       /\ \A e \in Doc \ {d} : claimed'[e] = claimed[e] /\ marked'[e] = marked[e]
  BY <1>3, <1>10 DEF RInv, Typed
<1>12. g.preserve = Stream(r) /\ (Stream(r) => g.preserves = h.preserves + 1)
  BY <1>4, <1>7
<1> QED BY <1>1, <1>7, <1>8, <1>10, <1>11, <1>12

LEMMA ExpandKeeps ==
  ASSUME RInv, NEW r \in Readers, reader_expand(r)
  PROVE  RInv'
<1>1. /\ Running /\ r \in held \cap Live /\ reader[r].node # 0 /\ Preserve(r)
      /\ garbage = {} /\ garbage' = {}
  BY DEF reader_expand, On, Running
<1>2. PICK d, p : d = reader[r].doc /\ p = reader[r].node
  OBVIOUS
<1>3. PICK g, C :
        /\ Becomes(r, g) /\ g.kind = reader[r].kind /\ g.doc = d /\ g.node = p
        /\ g.mode = reader[r].mode /\ g.back = reader[r].back
        /\ g.preserve = Stream(r)
        /\ Stream(r) => g.preserves = reader[r].preserves + 1
        /\ C \subseteq {p} /\ UNCHANGED alive
        /\ claimed' \in [Doc -> SUBSET Pos] /\ marked' \in [Doc -> SUBSET Pos]
        /\ claimed'[d] = claimed[d] \cup C /\ marked'[d] = marked[d] \cup Above[p]
        /\ \A e \in Doc \ {d} : claimed'[e] = claimed[e] /\ marked'[e] = marked[e]
  <2> HIDE DEF Becomes
  <2> QED BY <1>1, <1>2, ExpandMoves
<1>4. /\ wrapped' = wrapped \cup {<<d, 0>>, <<d, p>>} /\ held' = held \cup {<<d, p>>}
  BY <1>2 DEF reader_expand, Wrap
<1>5. /\ d \in Doc /\ d # NULL /\ p \in Pos /\ p \in alive[d] /\ 0 \in alive[d] /\ p # 0
      /\ Above[p] \subseteq alive[d] /\ Above[p] \subseteq Pos /\ p \in Above[p]
  BY <1>1, <1>2, CursorPlaced, CursorInUse, AboveTyped
<1>6. /\ reader'[r] = g /\ \A s \in Readers \ {r} : reader'[s] = reader[s]
      /\ reader' \in [Readers -> ReaderRecord] /\ Live' = Live /\ Live \subseteq Readers
  BY <1>1, <1>3, HeldReaders DEF Becomes, RInv, Typed, Live
<1>7. \A s \in Readers \ {r} : /\ (Stream(s))' = Stream(s)
                               /\ (Owns(s))' = Owns(s) /\ (Lends(s))' = Lends(s)
  BY <1>6 DEF Stream, Owns, Lends
<1>8. Stream(r)' = Stream(r) /\ ~Owns(r)' /\ (reader'[r]).doc = d
  BY <1>3, <1>6 DEF Stream, Owns
<1>9. {<<d, 0>>, <<d, p>>} \subseteq Doc \X Cell /\ held' \cap Live = held \cap Live
  <2>1. {<<d, 0>>, <<d, p>>} \cap Readers = {}
    BY <1>5, CellsDistinct, Positions
  <2> QED BY <1>4, <1>5, <1>6, <2>1 DEF Cell
<1>10. \A s \in Live : Owns(s)' => Owns(s) /\ reader'[s].doc = reader[s].doc /\ s # r
                                  /\ reader[s].doc \in Doc /\ reader[s].doc # d
  <2> SUFFICES ASSUME NEW s \in Live, Owns(s)'
               PROVE  Owns(s) /\ reader'[s].doc = reader[s].doc /\ s # r
                      /\ reader[s].doc \in Doc /\ reader[s].doc # d
    OBVIOUS
  <2>1. s # r /\ Owns(s) /\ reader'[s].doc = reader[s].doc /\ reader[s].doc \in Doc
    BY <1>6, <1>7, <1>8, HeldReaders DEF RInv, Owns
  <2>2. CASE Owns(r)
    BY <1>1, <1>2, <2>1, <2>2 DEF RInv, Owned
  <2>3. CASE ~Owns(r)
    <3>1. <<d, 0>> \in wrapped
      BY <1>1, <1>2, <1>5, <2>3 DEF RInv, LentKept, Owns, Lends
    <3> QED BY <2>1, <3>1 DEF RInv, Owned
  <2> QED BY <2>1, <2>2, <2>3
<1>11. Typed'
  <2>1. \A e \in Doc : claimed'[e] \cup marked'[e] \subseteq alive'[e]
    BY <1>3, <1>5 DEF RInv, Typed
  <2>2. \A w \in wrapped' : w[2] \in alive'[w[1]]
    BY <1>3, <1>4, <1>5 DEF RInv, Typed
  <2> QED BY <1>1, <1>3, <1>4, <1>6, <1>9, <2>1, <2>2 DEF RInv, Typed
<1>12. Grown' /\ NodesKept'
  BY <1>1, <1>3 DEF RInv, Grown, NodesKept
<1>13. Claims'
  <2> SUFFICES ASSUME NEW e \in Doc, NEW q \in claimed'[e]
               PROVE  <<e, 0>> \in wrapped' /\ Above[q] \subseteq marked'[e]
    BY DEF Claims
  <2>1. CASE e = d
    BY <1>3, <1>4, <2>1 DEF RInv, Claims
  <2>2. CASE e # d
    BY <1>3, <1>4, <2>2 DEF RInv, Claims
  <2> QED BY <2>1, <2>2
<1>14. LentKept'
  <2> SUFFICES ASSUME NEW s \in held \cap Live, Lends(s)'
               PROVE  <<reader'[s].doc, 0>> \in wrapped'
    BY <1>1, <1>6, <1>9 DEF LentKept
  <2>1. CASE s = r
    BY <1>4, <1>8, <2>1
  <2>2. CASE s # r
    BY <1>4, <1>6, <1>7, <2>2 DEF RInv, LentKept
  <2> QED BY <2>1, <2>2
<1>15. Owned'
  <2>1. \A e \in Doc : alive'[e] # {} =>
          <<e, 0>> \in wrapped' \/ \E s \in Live' : Owns(s)' /\ reader'[s].doc = e
    <3> SUFFICES ASSUME NEW e \in Doc, alive[e] # {}, <<e, 0>> \notin wrapped, e # d
                 PROVE  \E s \in Live : Owns(s)' /\ reader'[s].doc = e
      BY <1>3, <1>4, <1>6
    <3>1. PICK s \in Live : Owns(s) /\ reader[s].doc = e
      BY DEF RInv, Owned
    <3>2. s # r
      BY <1>2, <3>1
    <3> QED BY <1>6, <1>7, <3>1, <3>2
  <2>2. \A s \in Live' : Owns(s)' => <<reader'[s].doc, 0>> \notin wrapped' /\ alive'[reader'[s].doc] # {}
    BY <1>3, <1>4, <1>5, <1>6, <1>10 DEF RInv, Owned
  <2>3. \A s, t \in Live' : Owns(s)' /\ Owns(t)' /\ reader'[s].doc = reader'[t].doc => s = t
    BY <1>6, <1>10 DEF RInv, Owned
  <2> QED BY <2>1, <2>2, <2>3 DEF Owned
<1>16. \A s \in Live : reader'[s].doc = reader[s].doc /\ reader'[s].mode = reader[s].mode
                       /\ (Stream(s))' = Stream(s)
  BY <1>2, <1>3, <1>6, <1>7, <1>8
<1>17. ReadersApart'
  BY <1>6, <1>9, <1>16 DEF RInv, ReadersApart
<1>18. IF Stream(r)' THEN StreamPlaced(r)' ELSE WalkerPlaced(r)'
  <2>1. CASE ~Stream(r)
    BY <1>3, <1>5, <1>6, <1>8, <2>1 DEF WalkerPlaced
  <2>2. CASE Stream(r)
    <3>1. StreamAt(r, d, p) /\ StreamPlaced(r)
      BY <1>1, <1>2, <1>5, <2>2 DEF RInv, Placed, StreamPlaced
    <3>2. p \notin Rest(p) /\ p \notin Inside(p)
      BY <1>5, LeftBehind DEF Inside
    <3>3. Cardinality(claimed'[d] \cap Above[p]) <= g.preserves
      <4> DEFINE K == claimed[d] \cap Above[p]
      <4>1. IsFiniteSet(K) /\ IsFiniteSet(K \cup {p})
        <5>1. K \subseteq Pos /\ K \cup {p} \subseteq Pos /\ IsFiniteSet(Pos)
          BY <1>5, Positions
        <5> QED BY <5>1, FS_Subset
      <4>2. claimed'[d] \cap Above[p] \subseteq K \cup {p}
        BY <1>3, <1>5
      <4>3. Cardinality(K) <= reader[r].preserves /\ reader[r].preserves \in Nat
        BY <1>1, <3>1, HeldReaders, BoundIsNat DEF StreamAt, RInv
      <4> HIDE DEF K
      <4>4. Cardinality(K \cup {p}) <= reader[r].preserves + 1
        BY <4>1, <4>3, CountOneMore
      <4>5. /\ Cardinality(claimed'[d] \cap Above[p]) <= Cardinality(K \cup {p})
            /\ Cardinality(claimed'[d] \cap Above[p]) \in Nat
            /\ Cardinality(K \cup {p}) \in Nat
        BY <4>1, <4>2, FS_Subset, FS_CardinalityType
      <4>6. g.preserves = reader[r].preserves + 1
        BY <1>3, <2>2
      <4> QED BY <4>3, <4>4, <4>5, <4>6
    <3>4. StreamAt(r, d, p)'
      BY <1>3, <1>6, <3>1, <3>2, <3>3 DEF StreamAt
    <3>5. reader[r].mode \notin {"start", "closed", "end"}
      BY <1>2, <1>5, <3>1 DEF StreamPlaced
    <3>6. StreamPlaced(r)'
      BY <1>3, <1>5, <1>6, <3>4, <3>5 DEF StreamPlaced
    <3> QED BY <1>8, <2>2, <3>6
  <2> QED BY <2>1, <2>2
<1>19. Placed'
  <2> SUFFICES ASSUME NEW s \in held \cap Live
               PROVE  IF Stream(s)' THEN StreamPlaced(s)' ELSE WalkerPlaced(s)'
    BY <1>6, <1>9 DEF Placed
  <2>1. CASE s = r
    BY <1>18, <2>1
  <2>2. CASE s # r /\ reader[s].doc # d
    <3>1. /\ reader'[s] = reader[s]
          /\ reader[s].doc \in Doc => /\ alive'[reader[s].doc] = alive[reader[s].doc]
                                      /\ claimed'[reader[s].doc] = claimed[reader[s].doc]
      BY <1>3, <1>6, <2>2
    <3> QED BY <3>1, SamePlaced DEF RInv
  <2>3. CASE s # r /\ reader[s].doc = d
    <3>1. reader'[s] = reader[s] /\ Stream(s)' = Stream(s)
      BY <1>6, <1>7, <2>3
    <3>2. CASE Stream(s)
      <4>1. reader[s].mode = "end"
        BY <1>1, <1>2, <1>5, <2>3, <3>2 DEF RInv, ReadersApart
      <4>2. StreamPlaced(s)
        BY <3>2 DEF RInv, Placed
      <4> QED BY <3>1, <3>2, <4>1, <4>2 DEF StreamPlaced
    <3>3. CASE ~Stream(s)
      BY <1>3, <3>1, <3>3 DEF RInv, Placed, WalkerPlaced
    <3> QED BY <3>2, <3>3
  <2> QED BY <2>1, <2>2, <2>3
<1> QED BY <1>11, <1>12, <1>13, <1>14, <1>15, <1>17, <1>19 DEF RInv

-----------------------------------------------------------------------------
(* Closing and collecting.                                                 *)

\* Document d is freed, and r, its owner if a reader owned it, lets go of it.
LEMMA DocFreedKeeps ==
  ASSUME RInv, NEW d \in Doc, Frees(d, Cell), NEW r,
         reader' \in [Readers -> ReaderRecord],
         \A s \in Readers \ {r} : reader'[s] = reader[s],
         r \in Readers => reader'[r].doc = NULL /\ ~Owns(r)',
         r \in held \cap Live => /\ r \in Live' /\ Stream(r)' /\ reader'[r].mode = "closed"
                                 /\ reader'[r].node = 0 /\ ~reader'[r].preserve,
         Live' \subseteq Live, Live \subseteq Live' \cup {r}, held \cap Live \subseteq Live',
         \A s \in Live : Owns(s) => IF s = r THEN reader[s].doc = d ELSE reader[s].doc # d,
         \A s \in (held \cap Live) \ {r} : reader[s].doc # d,
         garbage # {} => \A w \in held \ Readers : w[1] # d,
         held' = held \cap (Readers \cup wrapped'),
         garbage' \subseteq garbage \cap (Live' \cup wrapped')
  PROVE  RInv'
<1>1. /\ alive' \in [Doc -> SUBSET Cell] /\ marked' \in [Doc -> SUBSET Pos]
      /\ claimed' \in [Doc -> SUBSET Pos]
      /\ alive'[d] = {} /\ claimed'[d] = {} /\ marked'[d] = {}
      /\ \A e \in Doc \ {d} : /\ alive'[e] = alive[e] /\ marked'[e] = marked[e]
                              /\ claimed'[e] = claimed[e]
      /\ wrapped' = wrapped \ ({d} \X Cell)
  <2>1. alive[d] \subseteq Cell /\ marked[d] \subseteq Cell /\ claimed[d] \subseteq Cell
    BY DEF RInv, Typed, Cell
  <2> QED BY <2>1 DEF Frees
<1>2. /\ Live \subseteq Readers /\ Live' \subseteq Live
      /\ held' \subseteq held /\ held' \cap Live' = held \cap Live
  BY HeldReaders DEF RInv
<1>3. \A s \in Readers \ {r} : /\ reader'[s] = reader[s] /\ (Stream(s))' = Stream(s)
                               /\ (Owns(s))' = Owns(s) /\ (Lends(s))' = Lends(s)
  BY DEF Stream, Owns, Lends
<1>4. \A w \in wrapped' : w \in Doc \X Cell /\ w[1] # d /\ w \in wrapped
  BY <1>1 DEF RInv, Typed
<1>5. \A e \in Doc \ {d} : <<e, 0>> \in wrapped => <<e, 0>> \in wrapped'
  BY <1>1
<1>6. Typed'
  <2>1. held' \subseteq wrapped' \cup Live'
    BY <1>2, HeldSplit DEF RInv
  <2>2. garbage' \subseteq (wrapped' \cup Live') \ held'
    BY <1>2 DEF RInv, Typed
  <2>3. \A w \in wrapped' : w[2] \in alive'[w[1]]
    BY <1>1, <1>4 DEF RInv, Typed
  <2>4. \A e \in Doc : claimed'[e] \cup marked'[e] \subseteq alive'[e]
    BY <1>1 DEF RInv, Typed
  <2> QED BY <1>1, <1>4, <2>1, <2>2, <2>3, <2>4 DEF Typed
<1>7. Grown'
  <2> SUFFICES ASSUME NEW e \in Doc, NEW q \in alive'[e]
               PROVE  0 \in alive'[e] /\ (q # 0 => Above[q] \subseteq alive'[e])
    BY DEF Grown
  <2> QED BY <1>1 DEF RInv, Grown
<1>8. Claims'
  <2> SUFFICES ASSUME NEW e \in Doc, NEW q \in claimed'[e]
               PROVE  <<e, 0>> \in wrapped' /\ Above[q] \subseteq marked'[e]
    BY DEF Claims
  <2> QED BY <1>1, <1>5 DEF RInv, Claims
<1>9. NodesKept'
  <2> SUFFICES ASSUME garbage' # {}, NEW w \in held' \ Readers
               PROVE  <<w[1], 0>> \in wrapped' \ garbage'
    BY DEF NodesKept
  <2>1. w \in held \ Readers /\ garbage # {} /\ garbage' \subseteq garbage
    BY <1>2
  <2>2. <<w[1], 0>> \in wrapped \ garbage /\ w[1] # d
    BY <2>1 DEF RInv, NodesKept
  <2>3. w[1] \in Doc
    BY <2>1, HeldReaders DEF RInv, Typed
  <2> QED BY <1>5, <2>1, <2>2, <2>3
<1>10. LentKept'
  <2> SUFFICES ASSUME NEW s \in held \cap Live, Lends(s)'
               PROVE  <<reader'[s].doc, 0>> \in wrapped' \ garbage'
    BY <1>2 DEF LentKept
  <2>1. s # r
    BY <1>2 DEF Lends
  <2>2. Lends(s) /\ reader'[s] = reader[s] /\ reader[s].doc \in Doc \ {d}
    BY <1>2, <1>3, <2>1, HeldReaders DEF RInv, Lends
  <2>3. <<reader[s].doc, 0>> \in wrapped \ garbage
    BY <2>2 DEF RInv, LentKept
  <2> QED BY <1>5, <2>2, <2>3
<1>11. Owned'
  <2>1. \A e \in Doc : alive'[e] # {} =>
          <<e, 0>> \in wrapped' \/ \E s \in Live' : Owns(s)' /\ reader'[s].doc = e
    <3> SUFFICES ASSUME NEW e \in Doc, alive'[e] # {}, <<e, 0>> \notin wrapped'
                 PROVE  \E s \in Live' : Owns(s)' /\ reader'[s].doc = e
      OBVIOUS
    <3>1. e # d /\ alive[e] # {} /\ <<e, 0>> \notin wrapped
      BY <1>1, <1>5
    <3>2. PICK s \in Live : Owns(s) /\ reader[s].doc = e
      BY <3>1 DEF RInv, Owned
    <3>3. CASE s # r
      BY <1>2, <1>3, <3>2, <3>3
    <3>4. CASE s = r
      BY <3>1, <3>2, <3>4
    <3> QED BY <3>3, <3>4
  <2>2. \A s \in Live' : Owns(s)' => s # r /\ Owns(s) /\ reader'[s] = reader[s] /\ reader[s].doc \in Doc \ {d}
    <3> SUFFICES ASSUME NEW s \in Live', Owns(s)'
                 PROVE  s # r /\ Owns(s) /\ reader'[s] = reader[s] /\ reader[s].doc \in Doc \ {d}
      OBVIOUS
    <3>1. s # r /\ s \in Live /\ s \in Readers
      BY <1>2
    <3>2. Owns(s) /\ reader'[s] = reader[s]
      BY <1>3, <3>1
    <3> QED BY <3>1, <3>2, HeldReaders DEF RInv, Owns
  <2>3. \A s \in Live' : Owns(s)' => <<reader'[s].doc, 0>> \notin wrapped' /\ alive'[reader'[s].doc] # {}
    BY <1>1, <1>2, <2>2 DEF RInv, Owned
  <2>4. \A s, t \in Live' : Owns(s)' /\ Owns(t)' /\ reader'[s].doc = reader'[t].doc => s = t
    BY <1>2, <2>2 DEF RInv, Owned
  <2> QED BY <2>1, <2>3, <2>4 DEF Owned
<1>12. ReadersApart'
  <2> SUFFICES ASSUME NEW s \in held \cap Live, NEW t \in held \cap Live, Stream(s)',
                      reader'[s].doc # NULL, reader'[t].doc = reader'[s].doc
               PROVE  IF Stream(t)' THEN s = t ELSE reader'[s].mode = "end"
    BY <1>2 DEF ReadersApart
  <2>1. s # r /\ t # r
    BY <1>2
  <2> QED BY <1>2, <1>3, <2>1 DEF RInv, ReadersApart
<1>13. Placed'
  <2> SUFFICES ASSUME NEW s \in held \cap Live
               PROVE  IF Stream(s)' THEN StreamPlaced(s)' ELSE WalkerPlaced(s)'
    BY <1>2 DEF Placed
  <2>1. CASE s = r
    BY <1>2, <2>1 DEF StreamPlaced
  <2>2. CASE s # r
    <3>1. /\ reader'[s] = reader[s]
          /\ reader[s].doc \in Doc => /\ alive'[reader[s].doc] = alive[reader[s].doc]
                                      /\ claimed'[reader[s].doc] = claimed[reader[s].doc]
      BY <1>1, <1>2, <1>3, <2>2
    <3> QED BY <3>1, SamePlaced DEF RInv
  <2> QED BY <2>1, <2>2
<1> QED BY <1>6, <1>7, <1>8, <1>9, <1>10, <1>11, <1>12, <1>13 DEF RInv

\* Reader r, which owns nothing, is closed or goes; or nothing but wrappers
\* of nodes and what is held changes.
LEMMA LetGoKeeps ==
  ASSUME RInv, NEW r, UNCHANGED tree,
         reader' \in [Readers -> ReaderRecord],
         \A s \in Readers \ {r} : reader'[s] = reader[s],
         r \in Live => ~Owns(r),
         r \in Live' => /\ ~Owns(r)' /\ (Stream(r))' = Stream(r)
                        /\ (Lends(r)' => Lends(r))
                        /\ reader'[r].doc \in {NULL, reader[r].doc}
                        /\ reader'[r].node = 0 /\ reader'[r].mode # "reading"
                        /\ Stream(r) => /\ reader'[r].doc = NULL /\ reader'[r].mode = "closed"
                                        /\ ~reader'[r].preserve
                        /\ ~Stream(r) => reader'[r].doc = reader[r].doc,
         Live' \subseteq Live, Live \subseteq Live' \cup {r}, held \cap Live \subseteq Live',
         NEW W \in SUBSET (Doc \X Pos), wrapped' = wrapped \ W,
         held' = held \cap (Readers \cup wrapped'),
         garbage' \subseteq garbage \cap (Live' \cup wrapped')
  PROVE  RInv'
<1>1. UNCHANGED <<alive, marked, claimed>>
  BY DEF tree
<1>2. /\ Live \subseteq Readers /\ Live' \subseteq Live
      /\ held' \subseteq held /\ held' \cap Live' = held \cap Live
  BY HeldReaders DEF RInv
<1>3. \A s \in Readers \ {r} : /\ reader'[s] = reader[s] /\ (Stream(s))' = Stream(s)
                               /\ (Owns(s))' = Owns(s) /\ (Lends(s))' = Lends(s)
  BY DEF Stream, Owns, Lends
<1>4. \A e : <<e, 0>> \in wrapped' <=> <<e, 0>> \in wrapped
  BY Positions
<1>5. Typed'
  <2>1. held' \subseteq wrapped' \cup Live'
    BY <1>2, HeldSplit DEF RInv
  <2>2. garbage' \subseteq (wrapped' \cup Live') \ held'
    BY <1>2 DEF RInv, Typed
  <2> QED BY <1>1, <2>1, <2>2 DEF RInv, Typed
<1>6. Grown' /\ Claims'
  BY <1>1, <1>4 DEF RInv, Grown, Claims
<1>7. NodesKept'
  BY <1>2, <1>4 DEF RInv, NodesKept
<1>8. LentKept'
  <2> SUFFICES ASSUME NEW s \in held \cap Live, Lends(s)'
               PROVE  <<reader'[s].doc, 0>> \in wrapped' \ garbage'
    BY <1>2 DEF LentKept
  <2>1. Lends(s) /\ reader'[s].doc = reader[s].doc
    BY <1>2, <1>3 DEF Lends
  <2> QED BY <1>4, <2>1 DEF RInv, LentKept
<1>9. Owned'
  <2>1. \A s \in Live' : Owns(s)' => s # r /\ Owns(s) /\ reader'[s] = reader[s]
    BY <1>2, <1>3
  <2>2. \A s \in Live : Owns(s) => s \in Live' /\ Owns(s)' /\ reader'[s] = reader[s]
    BY <1>2, <1>3
  <2>3. \A e \in Doc : alive'[e] # {} =>
          <<e, 0>> \in wrapped' \/ \E s \in Live' : Owns(s)' /\ reader'[s].doc = e
    <3> SUFFICES ASSUME NEW e \in Doc, alive[e] # {}, <<e, 0>> \notin wrapped
                 PROVE  \E s \in Live' : Owns(s)' /\ reader'[s].doc = e
      BY <1>1, <1>4
    <3>1. PICK s \in Live : Owns(s) /\ reader[s].doc = e
      BY DEF RInv, Owned
    <3> QED BY <2>2, <3>1
  <2>4. \A s \in Live' : Owns(s)' => <<reader'[s].doc, 0>> \notin wrapped' /\ alive'[reader'[s].doc] # {}
    BY <1>1, <1>2, <1>4, <2>1 DEF RInv, Owned
  <2>5. \A s, t \in Live' : Owns(s)' /\ Owns(t)' /\ reader'[s].doc = reader'[t].doc => s = t
    BY <1>2, <2>1 DEF RInv, Owned
  <2> QED BY <2>3, <2>4, <2>5 DEF Owned
<1>10. ReadersApart'
  <2> SUFFICES ASSUME NEW s \in held \cap Live, NEW t \in held \cap Live, Stream(s)',
                      reader'[s].doc # NULL, reader'[t].doc = reader'[s].doc
               PROVE  IF Stream(t)' THEN s = t ELSE reader'[s].mode = "end"
    BY <1>2 DEF ReadersApart
  <2>1. s # r
    BY <1>2
  <2>2. reader'[s] = reader[s] /\ Stream(s)
    BY <1>2, <1>3, <2>1
  <2>3. CASE t # r
    BY <1>2, <1>3, <2>2, <2>3 DEF RInv, ReadersApart
  <2>4. CASE t = r
    <3>1. ~Stream(t) /\ ~Stream(t)' /\ reader[t].doc = reader'[t].doc
      BY <1>2, <2>2, <2>4
    <3> QED BY <2>2, <3>1 DEF RInv, ReadersApart
  <2> QED BY <2>3, <2>4
<1>11. Placed'
  <2> SUFFICES ASSUME NEW s \in held \cap Live
               PROVE  IF Stream(s)' THEN StreamPlaced(s)' ELSE WalkerPlaced(s)'
    BY <1>2 DEF Placed
  <2>1. CASE s = r
    <3>1. CASE Stream(r)
      BY <1>2, <2>1, <3>1 DEF StreamPlaced
    <3>2. CASE ~Stream(r)
      <4>1. reader[r].doc \in Doc
        BY <2>1, <3>2 DEF RInv, Placed, WalkerPlaced
      <4> QED BY <1>2, <2>1, <3>2, <4>1 DEF WalkerPlaced
    <3> QED BY <3>1, <3>2
  <2>2. CASE s # r
    BY <1>1, <1>2, <1>3, <2>2, SamePlaced DEF RInv
  <2> QED BY <2>1, <2>2
<1> QED BY <1>5, <1>6, <1>7, <1>8, <1>9, <1>10, <1>11 DEF RInv

LEMMA CloseKeeps ==
  ASSUME RInv, NEW r \in Readers, reader_close(r)
  PROVE  RInv'
<1>1. /\ r \in held \cap Live /\ garbage = {} /\ garbage' = {}
      /\ held' = held \cap (Readers \cup wrapped')
      /\ IF Owns(r) THEN Free(reader[r].doc, Cell) ELSE UNCHANGED <<tree, wrapped>>
  BY DEF reader_close, On, Running
<1>2. PICK h, k, d, m :
        /\ h = reader[r] /\ k = h.kind /\ d = (IF Stream(r) THEN NULL ELSE h.doc)
        /\ m = IF ~Stream(r) /\ h.mode = "end" THEN "end" ELSE "closed"
  OBVIOUS
<1>3. h \in ReaderRecord /\ k \in {"stream", "walker"} /\ d \in Doc \cup {NULL}
      /\ m \in {"closed", "end"} /\ (Stream(r) => m = "closed")
  BY <1>1, <1>2, HeldReaders DEF RInv, ReaderRecord, Live
<1> DEFINE g == [Blank(k, d) EXCEPT !.mode = m]
<1>4. reader' = [reader EXCEPT ![r] = g]
  <2>1. reader' = [reader EXCEPT ![r] =
                  [Blank(@.kind, IF Stream(r) THEN NULL ELSE @.doc) EXCEPT
                     !.mode = IF ~Stream(r) /\ reader[r].mode = "end" THEN "end" ELSE "closed"]]
    BY <1>1 DEF reader_close
  <2> QED BY <1>2, <2>1
<1>5. /\ g \in ReaderRecord /\ g.kind = k /\ g.doc = d /\ g.mode = m
      /\ g.node = 0 /\ g.preserve = FALSE
  <2>1. /\ Blank(k, d) \in ReaderRecord /\ Blank(k, d).kind = k /\ Blank(k, d).doc = d
        /\ Blank(k, d).node = 0 /\ Blank(k, d).preserve = FALSE
    BY <1>3, BoundIsNat DEF Blank, ReaderRecord, Cell
  <2> QED BY <1>3, <2>1 DEF ReaderRecord
<1> HIDE DEF g
<1>6. /\ reader'[r] = g /\ \A s \in Readers \ {r} : reader'[s] = reader[s]
      /\ reader' \in [Readers -> ReaderRecord]
  BY <1>4, <1>5 DEF RInv, Typed
<1>7. Live' = Live /\ (Stream(r))' = Stream(r) /\ ~Owns(r)'
  BY <1>1, <1>2, <1>3, <1>5, <1>6 DEF Live, Stream, Owns
<1>8. CASE Owns(r)
  <2>1. PICK e : e = h.doc
    OBVIOUS
  <2>2. /\ e \in Doc /\ Stream(r) /\ Free(e, Cell) /\ d = NULL /\ m = "closed"
    BY <1>1, <1>2, <1>3, <1>8, <2>1 DEF Owns, ReaderRecord
  <2>3. Frees(e, Cell)
    BY <2>2, Freeing DEF RInv
  <2>4. \A s \in Live : Owns(s) => IF s = r THEN reader[s].doc = e ELSE reader[s].doc # e
    BY <1>1, <1>2, <1>8, <2>1 DEF RInv, Owned
  <2>5. ASSUME NEW s \in (held \cap Live) \ {r}, reader[s].doc = e  PROVE FALSE
    <3>1. ~Owns(s)
      BY <2>4, <2>5
    <3>2. Lends(s)
      BY <2>2, <2>5, <3>1, CellsDistinct DEF Owns, Lends
    <3>3. <<e, 0>> \in wrapped
      BY <2>5, <3>2 DEF RInv, LentKept
    <3> QED BY <1>1, <1>2, <1>8, <2>1, <3>3 DEF RInv, Owned
  <2>6. r \in Live' /\ (Stream(r))' /\ reader'[r].mode = "closed" /\ reader'[r].doc = NULL
        /\ reader'[r].node = 0 /\ ~reader'[r].preserve
    BY <1>1, <1>5, <1>6, <1>7, <2>2
  <2> QED BY <1>1, <1>6, <1>7, <2>2, <2>3, <2>4, <2>5, <2>6, DocFreedKeeps
<1>9. CASE ~Owns(r)
  <2>1. UNCHANGED <<tree, wrapped>>
    BY <1>1, <1>9
  <2>2. (Lends(r))' => Lends(r)
    BY <1>2, <1>5, <1>6 DEF Lends, Stream
  <2>3. {} \in SUBSET (Doc \X Pos) /\ wrapped' = wrapped \ {}
    BY <2>1
  <2>4. /\ reader'[r].doc \in {NULL, reader[r].doc} /\ reader'[r].node = 0
        /\ reader'[r].mode # "reading"
        /\ Stream(r) => /\ reader'[r].doc = NULL /\ reader'[r].mode = "closed"
                        /\ ~reader'[r].preserve
        /\ ~Stream(r) => reader'[r].doc = reader[r].doc
    BY <1>2, <1>3, <1>5, <1>6
  <2> QED BY <1>1, <1>6, <1>7, <1>9, <2>1, <2>2, <2>3, <2>4, LetGoKeeps
<1> QED BY <1>8, <1>9

LEMMA DropKeeps ==
  ASSUME RInv, NEW o \in held, drop(o)
  PROVE  RInv'
<1>1. /\ garbage = {} /\ garbage' = {} /\ held' = held \ {o}
      /\ UNCHANGED <<reader, alive, marked, claimed, wrapped>>
  BY DEF drop, Running, tree
<1>2. /\ Live' = Live
      /\ \A s : (Stream(s))' = Stream(s) /\ (Owns(s))' = Owns(s) /\ (Lends(s))' = Lends(s)
  BY <1>1 DEF Live, Stream, Owns, Lends
<1>3. Typed' /\ Grown' /\ Claims' /\ NodesKept'
  BY <1>1, <1>2 DEF RInv, Typed, Grown, Claims, NodesKept
<1>4. Owned' /\ LentKept' /\ ReadersApart'
  BY <1>1, <1>2 DEF RInv, Owned, LentKept, ReadersApart
<1>5. Placed'
  <2> SUFFICES ASSUME NEW s \in held \cap Live
               PROVE  IF Stream(s)' THEN StreamPlaced(s)' ELSE WalkerPlaced(s)'
    BY <1>1, <1>2 DEF Placed
  <2> QED BY <1>1, SamePlaced DEF RInv
<1> QED BY <1>3, <1>4, <1>5 DEF RInv

LEMMA MarkKeeps ==
  ASSUME Lawful, RInv, gc_mark
  PROVE  RInv'
<1>1. /\ garbage = {} /\ garbage' = (wrapped \cup Live) \ Marked
      /\ UNCHANGED <<reader, alive, marked, claimed, wrapped, held>>
      /\ KeepsWalked /\ KeepsExpanded /\ Momentary
  BY DEF gc_mark, tree
<1>2. /\ Live' = Live
      /\ \A s : (Stream(s))' = Stream(s) /\ (Owns(s))' = Owns(s) /\ (Lends(s))' = Lends(s)
  BY <1>1 DEF Live, Stream, Owns, Lends
<1>3. held \subseteq Marked
  BY DEF Marked
<1>4. Typed' /\ Grown' /\ Claims'
  BY <1>1, <1>2, <1>3 DEF RInv, Typed, Grown, Claims
<1>5. Owned' /\ ReadersApart'
  BY <1>1, <1>2 DEF RInv, Owned, ReadersApart
<1>6. \A w \in held \ Readers : w \in wrapped /\ w \in Doc \X Cell
  BY HeldReaders DEF RInv, Typed
<1>7. NodesKept'
  <2> SUFFICES ASSUME NEW w \in held \ Readers  PROVE <<w[1], 0>> \in wrapped /\ <<w[1], 0>> \in Marked
    BY <1>1 DEF NodesKept
  <2>1. CASE w[2] = 0
    <3>1. w = <<w[1], 0>>
      BY <1>6, <2>1
    <3> QED BY <1>3, <1>6, <3>1
  <2>2. CASE w[2] # 0
    <3>1. w \in {v \in held \ Readers : v[2] # 0}
      BY <2>2
    <3>2. <<w[1], 0>> \in Marked
      BY <3>1 DEF Marked, node_mark
    <3>3. <<w[1], 0>> \notin Readers
      BY <1>6, CellsDistinct
    <3>4. Marked \ Readers \subseteq wrapped
      BY <1>1 DEF Momentary, Lawful
    <3> QED BY <3>2, <3>3, <3>4
  <2> QED BY <2>1, <2>2
<1>8. LentKept'
  <2> SUFFICES ASSUME NEW s \in held \cap Live, Lends(s)
               PROVE  <<reader[s].doc, 0>> \in wrapped /\ <<reader[s].doc, 0>> \in Marked
    BY <1>1, <1>2 DEF LentKept
  <2>1. <<reader[s].doc, 0>> \in wrapped /\ reader[s].doc # NULL
    BY DEF RInv, LentKept, Lends
  <2>2. Keeps(s)
    BY <1>1 DEF Lends, KeepsWalked, KeepsExpanded, Lawful
  <2> QED BY <2>1, <2>2 DEF Keeps
<1>9. Placed'
  <2> SUFFICES ASSUME NEW s \in held \cap Live
               PROVE  IF Stream(s)' THEN StreamPlaced(s)' ELSE WalkerPlaced(s)'
    BY <1>1, <1>2 DEF Placed
  <2> QED BY <1>1, SamePlaced DEF RInv
<1> QED BY <1>4, <1>5, <1>7, <1>8, <1>9 DEF RInv

LEMMA NoReaderIs ==
  NoReader \in ReaderRecord /\ NoReader.kind = "none" /\ NoReader.doc = NULL
BY BoundIsNat DEF NoReader, Blank, ReaderRecord, Cell

\* A sweep of the last wrapper of a document, or of its reader.
LEMMA SweepFrees ==
  ASSUME RInv, NEW o \in garbage, sweep(o), NEW d \in Doc,
         (o \in Readers /\ Owns(o) /\ reader[o].doc = d) \/ (o \notin Readers /\ o = <<d, 0>>)
  PROVE  /\ \A s \in Live : Owns(s) => IF s = o THEN reader[s].doc = d ELSE reader[s].doc # d
         /\ \A s \in (held \cap Live) \ {o} : reader[s].doc # d
         /\ \A w \in held \ Readers : w[1] # d
<1>1. o \in Live \/ o \in wrapped
  BY DEF RInv, Typed
<1>2. o \in Readers => o \in Live
  BY <1>1, HeldSplit DEF RInv
<1>3. o \notin Readers => o \in wrapped /\ o \notin Live
  BY <1>1, HeldReaders DEF RInv
<1>4. \A s \in Live : Owns(s) => IF s = o THEN reader[s].doc = d ELSE reader[s].doc # d
  BY <1>2, <1>3 DEF RInv, Owned
<1>5. <<d, 0>> \notin wrapped \ garbage
  BY <1>2 DEF RInv, Owned
<1>6. ASSUME NEW s \in (held \cap Live) \ {o}, reader[s].doc = d  PROVE FALSE
  <2>1. ~Owns(s)
    BY <1>4, <1>6
  <2>2. Lends(s)
    BY <1>6, <2>1, CellsDistinct DEF Owns, Lends
  <2> QED BY <1>5, <1>6, <2>2 DEF RInv, LentKept
<1>7. \A w \in held \ Readers : w[1] # d
  BY <1>5 DEF RInv, NodesKept
<1> QED BY <1>4, <1>6, <1>7

LEMMA SweepKeeps ==
  ASSUME RInv, NEW o, sweep(o)
  PROVE  RInv'
<1>1. /\ o \in garbage /\ o \notin held
      /\ held' = held \cap (Readers \cup wrapped')
      /\ garbage' = (garbage \ {o}) \cap (Readers \cup wrapped')
  BY DEF sweep, RInv, Typed
<1>2. garbage \cap Readers \subseteq Live /\ Live \subseteq Readers
  BY HeldSplit, HeldReaders DEF RInv, Typed
<1>3. CASE o \in Readers
  <2>1. /\ reader' = [reader EXCEPT ![o] = NoReader]
        /\ IF Owns(o) THEN Free(reader[o].doc, Cell) ELSE UNCHANGED <<tree, wrapped>>
    BY <1>3 DEF sweep
  <2>2. /\ reader' \in [Readers -> ReaderRecord] /\ reader'[o] = NoReader
        /\ \A s \in Readers \ {o} : reader'[s] = reader[s]
    BY <1>3, <2>1, NoReaderIs DEF RInv, Typed
  <2>3. Live' = Live \ {o} /\ o \in Live
    BY <1>1, <1>2, <1>3, <2>2, NoReaderIs DEF Live
  <2>4. garbage' \subseteq garbage \cap (Live' \cup wrapped')
    BY <1>1, <1>2, <2>3
  <2>5. reader'[o].doc = NULL /\ ~Owns(o)'
    BY <2>2, NoReaderIs DEF Owns
  <2>6. CASE Owns(o)
    <3>1. PICK d \in Doc : reader[o].doc = d
      BY <2>3, <2>6, HeldReaders DEF RInv, Owns
    <3>2. Free(d, Cell) /\ o \in garbage /\ d = reader[o].doc
      BY <1>1, <2>1, <2>6, <3>1
    <3>3. Frees(d, Cell)
      BY <3>2, Freeing DEF RInv
    <3>4. /\ \A s \in Live : Owns(s) => IF s = o THEN reader[s].doc = d ELSE reader[s].doc # d
          /\ \A s \in (held \cap Live) \ {o} : reader[s].doc # d
          /\ \A w \in held \ Readers : w[1] # d
      <4>1. o \in Readers /\ Owns(o) /\ reader[o].doc = d
        BY <1>3, <2>6, <3>1
      <4>2. o \in garbage
        BY <1>1
      <4> QED BY <4>1, <4>2, SweepFrees
    <3> QED BY <1>1, <2>2, <2>3, <2>4, <2>5, <3>2, <3>3, <3>4, DocFreedKeeps
  <2>7. CASE ~Owns(o)
    <3>1. UNCHANGED tree /\ wrapped' = wrapped \ {} /\ {} \in SUBSET (Doc \X Pos)
      BY <2>1, <2>7
    <3> QED BY <1>1, <2>2, <2>3, <2>4, <2>7, <3>1, LetGoKeeps
  <2> QED BY <2>6, <2>7
<1>4. CASE o \notin Readers
  <2>1. o \in wrapped /\ o \in Doc \X Cell /\ o = <<o[1], o[2]>> /\ o[1] \in Doc
    BY <1>1, <1>2, <1>4 DEF RInv, Typed
  <2>2. /\ reader' = reader
        /\ IF o[2] = 0 THEN Free(o[1], Cell) ELSE UNCHANGED tree /\ wrapped' = wrapped \ {o}
    BY <1>4 DEF sweep
  <2>3. Live' = Live /\ o \notin Live /\ reader' \in [Readers -> ReaderRecord]
    BY <1>2, <1>4, <2>2 DEF Live, RInv, Typed
  <2>4. garbage' \subseteq garbage \cap (Live' \cup wrapped')
    BY <1>1, <1>2, <2>3
  <2>5. CASE o[2] = 0
    <3>1. PICK d \in Doc : d = o[1] /\ o = <<d, 0>> /\ Free(d, Cell)
      BY <2>1, <2>2, <2>5
    <3>2. Frees(d, Cell)
      BY <3>1, Freeing DEF RInv
    <3>3. /\ \A s \in Live : Owns(s) => IF s = o THEN reader[s].doc = d ELSE reader[s].doc # d
          /\ \A s \in (held \cap Live) \ {o} : reader[s].doc # d
          /\ \A w \in held \ Readers : w[1] # d
      BY <1>1, <1>4, <3>1, SweepFrees
    <3> QED BY <1>1, <1>4, <2>2, <2>3, <2>4, <3>2, <3>3, DocFreedKeeps
  <2>6. CASE o[2] # 0
    <3>1. /\ UNCHANGED tree /\ wrapped' = wrapped \ {o} /\ {o} \in SUBSET (Doc \X Pos)
      BY <2>1, <2>2, <2>6 DEF Cell
    <3> QED BY <1>1, <1>4, <2>2, <2>3, <2>4, <3>1, LetGoKeeps
  <2> QED BY <2>5, <2>6
<1> QED BY <1>3, <1>4

-----------------------------------------------------------------------------
(* The methods that move a reader, by what they do.                        *)

LEMMA ReadKeeps ==
  ASSUME RInv, NEW r \in Readers, reader_read(r)
  PROVE  RInv'
<1>1. /\ r \in held \cap Live /\ Running /\ held' = held \cap (Readers \cup wrapped')
      /\ garbage' = garbage
  BY DEF reader_read, On, Running
<1>2. held = held \cap (Readers \cup wrapped)
  BY HeldReaders DEF RInv, Typed
<1>3. CASE /\ reader[r].mode = "start" /\ Stream(r)
           /\ \E d \in Doc : alive[d] = {} /\ Enter(r, d) /\ Build(d)
           /\ UNCHANGED wrapped
  <2>1. PICK d \in Doc : alive[d] = {} /\ Enter(r, d) /\ Build(d)
    BY <1>3
  <2>2. PICK g : /\ Becomes(r, g) /\ g.mode = "reading" /\ g.node = 1 /\ g.doc = d
                 /\ g.kind = reader[r].kind /\ g.preserve = reader[r].preserve
    BY <1>1, <2>1, EnterMoves DEF RInv
  <2>3. UNCHANGED <<wrapped, held>>
    BY <1>1, <1>2, <1>3
  <2>4. /\ alive[d] = {} /\ Build(d)
        /\ Becomes(r, g) /\ g.doc = d /\ g.kind = reader[r].kind
        /\ g.preserve = reader[r].preserve
        /\ (g.mode = "reading" /\ g.node = 1) \/ (g.mode = "error" /\ g.node = 0)
    BY <2>1, <2>2
  <2>5. Running /\ r \in held \cap Live /\ Stream(r) /\ reader[r].mode = "start"
    BY <1>1, <1>3
  <2> QED BY <2>3, <2>4, <2>5, StartKeeps
<1>4. CASE /\ reader[r].mode \in {"start", "closed"} /\ ~Stream(r)
           /\ IF Children(reader[r].doc, 0) = {} THEN Put(r, 0, "end") ELSE Enter(r, reader[r].doc)
           /\ UNCHANGED <<tree, wrapped>>
  BY <1>1, <1>2, <1>4, WalkerStart
<1>5. CASE /\ reader[r].mode = "reading"
           /\ IF ~reader[r].back /\ Children(reader[r].doc, reader[r].node) # {}
              THEN /\ Put(r, First(Children(reader[r].doc, reader[r].node)), "reading")
                   /\ UNCHANGED <<tree, wrapped>>
              ELSE IF Stream(r) THEN LeaveStream(r) ELSE LeaveWalker(r)
  <2>1. CASE ~reader[r].back /\ Children(reader[r].doc, reader[r].node) # {}
    BY <1>1, <1>2, <1>5, <2>1, DescendKeeps
  <2>2. CASE /\ ~ (~reader[r].back /\ Children(reader[r].doc, reader[r].node) # {})
             /\ Stream(r)
    BY <1>1, <1>5, <2>2, LeaveStreamKeeps
  <2>3. CASE /\ ~ (~reader[r].back /\ Children(reader[r].doc, reader[r].node) # {})
             /\ ~Stream(r)
    <3>1. LeaveWalker(r) /\ UNCHANGED <<held, garbage>>
      BY <1>1, <1>2, <1>5, <2>3 DEF LeaveWalker
    <3>2. reader[r].node # 0
      BY <1>1, <1>5, <2>3 DEF RInv, Placed, WalkerPlaced
    <3> QED BY <1>1, <2>3, <3>1, <3>2, LeaveWalkerKeeps
  <2> QED BY <2>1, <2>2, <2>3
<1> QED BY <1>3, <1>4, <1>5 DEF reader_read

LEMMA NextKeeps ==
  ASSUME RInv, NEW r \in Readers, reader_next(r)
  PROVE  RInv'
<1>1. /\ r \in held \cap Live /\ Running /\ held' = held \cap (Readers \cup wrapped')
      /\ garbage' = garbage /\ reader[r].mode = "reading"
  BY DEF reader_next, On, Running
<1>2. held = held \cap (Readers \cup wrapped)
  BY HeldReaders DEF RInv, Typed
<1>3. CASE Stream(r)
  <2>1. LeaveStream(r)
    BY <1>3 DEF reader_next
  <2> QED BY <1>1, <1>3, <2>1, LeaveStreamKeeps
<1>4. CASE ~Stream(r)
  <2>1. UNCHANGED <<tree, wrapped, held, garbage>>
    BY <1>1, <1>2, <1>4 DEF reader_next
  <2>2. CASE NextSiblings(reader[r].doc, reader[r].node) # {}
    <3>1. LeaveWalker(r) /\ UNCHANGED <<held, garbage>>
      BY <1>4, <2>1, <2>2 DEF reader_next
    <3>2. reader[r].node # 0
      BY <1>1, <1>4 DEF RInv, Placed, WalkerPlaced
    <3> QED BY <1>1, <1>4, <3>1, <3>2, LeaveWalkerKeeps
  <2>3. CASE NextSiblings(reader[r].doc, reader[r].node) = {}
    <3>1. PICK p \in Pos \cap alive[reader[r].doc], m \in {"reading", "end"} : Put(r, p, m)
      BY <1>4, <2>3 DEF reader_next
    <3> QED BY <1>1, <1>4, <2>1, <3>1, SkipKeeps
  <2> QED BY <2>2, <2>3
<1> QED BY <1>3, <1>4

LEMMA NextSiblingKeeps ==
  ASSUME RInv, NEW r \in Readers, reader_next_sibling(r)
  PROVE  RInv'
<1>1. r \in held \cap Live /\ ~Stream(r) /\ LeaveWalker(r) /\ UNCHANGED <<held, garbage>>
  BY DEF reader_next_sibling, On, Running
<1>2. reader[r].node # 0
  BY <1>1 DEF reader_next_sibling, RInv, Placed, WalkerPlaced
<1> QED BY <1>1, <1>2, LeaveWalkerKeeps

\* A method that leaves the reader in mode m, on attribute a.
LEMMA Staying ==
  ASSUME RInv, NEW r \in held \cap Live, NEW m \in {"reading", "error"}, NEW a \in BOOLEAN,
         reader' = [reader EXCEPT ![r].mode = m, ![r].attr = a],
         reader[r].mode # "end", m = "reading" => reader[r].mode = "reading",
         UNCHANGED <<tree, wrapped, held, garbage>>
  PROVE  RInv'
<1>1. PICK h : h = reader[r]
  OBVIOUS
<1>2. h \in ReaderRecord /\ r \in Readers
  BY <1>1, HeldReaders DEF RInv
<1> DEFINE g == [h EXCEPT !.mode = m, !.attr = a]
<1>3. reader' = [reader EXCEPT ![r] = g]
  BY <1>1, <1>2 DEF RInv, Typed
<1>4. /\ g \in ReaderRecord /\ g.kind = h.kind /\ g.doc = h.doc /\ g.node = h.node
      /\ g.back = h.back /\ g.preserves = h.preserves /\ g.preserve = h.preserve
      /\ g.mode = m
  BY <1>2 DEF ReaderRecord
<1> HIDE DEF g
<1>5. g.mode = "error" \/ (g.mode = "reading" /\ reader[r].mode = "reading")
  BY <1>4
<1>6. Stream(r) => reader[r].mode # "end"
  OBVIOUS
<1> QED BY <1>1, <1>3, <1>4, <1>5, <1>6, StayKeeps

\* It may name the mode or the attribute only.
LEMMA OneField ==
  ASSUME Typed, NEW r \in Live
  PROVE  /\ reader[r].attr \in BOOLEAN
         /\ \A m : [reader EXCEPT ![r].mode = m]
                     = [reader EXCEPT ![r].mode = m, ![r].attr = reader[r].attr]
         /\ \A a : [reader EXCEPT ![r].attr = a]
                     = [reader EXCEPT ![r].mode = reader[r].mode, ![r].attr = a]
<1>1. PICK h : h = reader[r]
  OBVIOUS
<1>2. h \in ReaderRecord /\ r \in Readers
  BY <1>1, HeldReaders
<1>3. /\ \A m : [h EXCEPT !.mode = m] = [[h EXCEPT !.mode = m] EXCEPT !.attr = h.attr]
      /\ \A a : [h EXCEPT !.attr = a] = [[h EXCEPT !.mode = h.mode] EXCEPT !.attr = a]
      /\ h.attr \in BOOLEAN
  BY <1>2 DEF ReaderRecord
<1> QED BY <1>1, <1>2, <1>3 DEF Typed

LEMMA MoveToAttrKeeps ==
  ASSUME RInv, NEW r \in Readers, NEW b \in BOOLEAN, reader_move_to_attr(r, b)
  PROVE  RInv'
<1>1. /\ r \in held \cap Live /\ reader[r].mode = "reading"
      /\ reader' = [reader EXCEPT ![r].attr = b]
      /\ UNCHANGED <<tree, wrapped, held, garbage>>
  BY DEF reader_move_to_attr, On, Running
<1>2. [reader EXCEPT ![r].attr = b] = [reader EXCEPT ![r].mode = reader[r].mode, ![r].attr = b]
  BY <1>1, OneField DEF RInv
<1>3. reader' = [reader EXCEPT ![r].mode = "reading", ![r].attr = b]
  BY <1>1, <1>2
<1> QED BY <1>1, <1>3, Staying

LEMMA ExpandFailsKeeps ==
  ASSUME RInv, NEW r \in Readers, reader_expand_fails(r)
  PROVE  RInv'
<1>1. /\ r \in held \cap Live /\ reader[r].mode = "reading"
      /\ reader' = [reader EXCEPT ![r].mode = "error"]
      /\ UNCHANGED <<tree, wrapped, held, garbage>>
  BY DEF reader_expand_fails, On, Running
<1>2. /\ reader' = [reader EXCEPT ![r].mode = "error", ![r].attr = reader[r].attr]
      /\ reader[r].attr \in BOOLEAN
  BY <1>1, OneField DEF RInv
<1> QED BY <1>1, <1>2, Staying

LEMMA ReadFailsKeeps ==
  ASSUME RInv, NEW r \in Readers, reader_read_fails(r)
  PROVE  RInv'
<1>1. r \in held \cap Live /\ Running /\ Stream(r) /\ UNCHANGED <<wrapped, held>> /\ garbage' = garbage
  BY DEF reader_read_fails, On, Running
<1>2. CASE reader[r].mode = "start" /\ reader' = [reader EXCEPT ![r].mode = "error"] /\ UNCHANGED tree
  <2>1. /\ reader' = [reader EXCEPT ![r].mode = "error", ![r].attr = reader[r].attr]
        /\ reader[r].attr \in BOOLEAN
    BY <1>1, <1>2, OneField DEF RInv
  <2> QED BY <1>1, <1>2, <2>1, Staying
<1>3. CASE /\ reader[r].mode = "start"
           /\ \E d \in Doc :
                /\ alive[d] = {}
                /\ Build(d)
                /\ reader' = [reader EXCEPT ![r].mode = "error", ![r].doc = d]
  <2>1. PICK d \in Doc :
          alive[d] = {} /\ Build(d) /\ reader' = [reader EXCEPT ![r].mode = "error", ![r].doc = d]
    BY <1>3
  <2>2. PICK h : h = reader[r]
    OBVIOUS
  <2>3. h \in ReaderRecord /\ r \in Readers /\ h.node = 0
    BY <1>1, <1>3, <2>2, HeldReaders DEF RInv, Placed, StreamPlaced
  <2> DEFINE g == [h EXCEPT !.mode = "error", !.doc = d]
  <2>4. reader' = [reader EXCEPT ![r] = g]
    BY <2>1, <2>2, <2>3 DEF RInv, Typed
  <2>5. /\ g \in ReaderRecord /\ g.kind = h.kind /\ g.doc = d /\ g.node = h.node
        /\ g.preserve = h.preserve /\ g.mode = "error"
    BY <2>3 DEF ReaderRecord
  <2> HIDE DEF g
  <2>6. Becomes(r, g)
    BY <2>3, <2>4, <2>5, Becoming DEF RInv
  <2>7. /\ alive[d] = {} /\ Build(d)
        /\ g.doc = d /\ g.kind = reader[r].kind
        /\ g.preserve = reader[r].preserve
        /\ (g.mode = "reading" /\ g.node = 1) \/ (g.mode = "error" /\ g.node = 0)
    BY <2>1, <2>2, <2>3, <2>5
  <2> QED BY <1>1, <1>3, <2>6, <2>7, StartKeeps
<1>4. CASE /\ reader[r].mode = "reading"
           /\ reader' = [reader EXCEPT ![r].mode = "error", ![r].attr = FALSE]
           /\ UNCHANGED tree
  BY <1>1, <1>4, Staying
<1> QED BY <1>2, <1>3, <1>4 DEF reader_read_fails

-----------------------------------------------------------------------------
(* The invariant is one.                                                   *)

LEMMA RInit ==
  ASSUME Init
  PROVE  RInv
<1>1. Live = {}
  BY DEF Init, Live, NoReader, Blank
<1>2. Typed
  <2>1. NoReader \in ReaderRecord
    BY NoReaderIs
  <2> QED BY <1>1, <2>1 DEF Init, Typed
<1>3. Grown /\ Owned /\ Claims /\ NodesKept
  BY <1>1 DEF Init, Grown, Owned, Claims, NodesKept
<1>4. LentKept /\ ReadersApart /\ Placed
  BY <1>1 DEF LentKept, ReadersApart, Placed
<1> QED BY <1>2, <1>3, <1>4 DEF RInv

LEMMA StutterKeeps ==
  ASSUME RInv, UNCHANGED vars
  PROVE  RInv'
<1>1. UNCHANGED <<reader, alive, marked, claimed, wrapped, held, garbage>>
  BY DEF vars, tree
<1>2. Live' = Live
  BY <1>1 DEF Live
<1>3. \A s : /\ (Stream(s))' = Stream(s) /\ (Owns(s))' = Owns(s) /\ (Lends(s))' = Lends(s)
  BY <1>1 DEF Stream, Owns, Lends
<1>4. Typed' /\ Grown' /\ Claims' /\ NodesKept'
  BY <1>1, <1>2 DEF RInv, Typed, Grown, Claims, NodesKept
<1>5. Owned' /\ LentKept' /\ ReadersApart'
  BY <1>1, <1>2, <1>3 DEF RInv, Owned, LentKept, ReadersApart
<1>6. Placed'
  <2> SUFFICES ASSUME NEW s \in held \cap Live
               PROVE  IF Stream(s)' THEN StreamPlaced(s)' ELSE WalkerPlaced(s)'
    BY <1>1, <1>2 DEF Placed
  <2> QED BY <1>1, SamePlaced DEF RInv
<1> QED BY <1>4, <1>5, <1>6 DEF RInv

LEMMA RStep ==
  ASSUME Lawful, RInv, [Next]_vars
  PROVE  RInv'
<1>1. CASE Make
  <2>1. ASSUME NEW d \in Doc, document_parse(d)  PROVE RInv'
    BY <2>1, ParseKeeps
  <2>2. ASSUME NEW r \in Readers, NEW d \in Doc, reader_document(r, d)  PROVE RInv'
    BY <2>2, ReaderDocumentKeeps
  <2>3. ASSUME NEW r \in Readers, reader_stream(r)  PROVE RInv'
    BY <2>3, ReaderStreamKeeps
  <2> QED BY <1>1, <2>1, <2>2, <2>3 DEF Make
<1>2. CASE Move
  <2> SUFFICES ASSUME NEW r \in Readers,
                      \/ reader_read(r) \/ reader_read_fails(r) \/ reader_next(r)
                      \/ reader_next_sibling(r)
                      \/ \E b \in BOOLEAN : reader_move_to_attr(r, b)
               PROVE  RInv'
    BY <1>2 DEF Move
  <2>1. CASE reader_read(r)
    BY <2>1, ReadKeeps
  <2>2. CASE reader_read_fails(r)
    BY <2>2, ReadFailsKeeps
  <2>3. CASE reader_next(r)
    BY <2>3, NextKeeps
  <2>4. CASE reader_next_sibling(r)
    BY <2>4, NextSiblingKeeps
  <2>5. CASE \E b \in BOOLEAN : reader_move_to_attr(r, b)
    BY <2>5, MoveToAttrKeeps
  <2> QED BY <2>1, <2>2, <2>3, <2>4, <2>5
<1>3. CASE HandOut
  <2>1. ASSUME NEW r \in Readers, reader_node(r)  PROVE RInv'
    BY <2>1, ReaderNodeKeeps
  <2>2. ASSUME NEW r \in Readers, reader_expand(r)  PROVE RInv'
    BY <2>2, ExpandKeeps
  <2>3. ASSUME NEW r \in Readers, reader_expand_fails(r)  PROVE RInv'
    BY <2>3, ExpandFailsKeeps
  <2>4. ASSUME NEW d \in Doc, NEW p \in Pos, node_get(d, p)  PROVE RInv'
    BY <2>4, NodeGetKeeps
  <2> QED BY <1>3, <2>1, <2>2, <2>3, <2>4 DEF HandOut
<1>4. CASE Collect
  <2>1. ASSUME NEW o, sweep(o)  PROVE RInv'
    BY <2>1, SweepKeeps
  <2> QED BY <1>4, <2>1, MarkKeeps DEF Collect
<1>5. ASSUME NEW r \in Readers, reader_close(r)  PROVE RInv'
  BY <1>5, CloseKeeps
<1>6. ASSUME NEW o \in held, drop(o)  PROVE RInv'
  BY <1>6, DropKeeps
<1> QED BY <1>1, <1>2, <1>3, <1>4, <1>5, <1>6, StutterKeeps DEF Next

\* The invariant of the readers, when the program keeps all the rules.
THEOREM ReaderInvariance == ASSUME Lawful PROVE Spec => []RInv
<1>1. Init => RInv
  BY RInit
<1>2. RInv /\ [Next]_vars => RInv'
  BY RStep
<1> QED BY <1>1, <1>2, PTL DEF Spec

\* The variables have their types, and only what is in use is wrapped.
THEOREM ReaderTypes == ASSUME Lawful PROVE Spec => []ReaderTypeOK
<1>1. RInv => ReaderTypeOK
  BY DEF RInv, Typed, ReaderTypeOK
<1> QED BY <1>1, ReaderInvariance, PTL

\* A document in use has one owner: its wrapper, or one reader that builds it.
THEOREM OneOwnerAlways == ASSUME Lawful PROVE Spec => []OneOwner
<1>1. ASSUME RInv, NEW d \in Doc, alive[d] # {}
      PROVE  Cardinality({r \in Live : Owns(r) /\ reader[r].doc = d}
                           \cup {w \in wrapped : w = <<d, 0>>}) = 1
  <2> DEFINE S == {r \in Live : Owns(r) /\ reader[r].doc = d}
                    \cup {w \in wrapped : w = <<d, 0>>}
  <2>1. CASE <<d, 0>> \in wrapped
    <3>1. S = {<<d, 0>>}
      BY <1>1, <2>1 DEF RInv, Owned
    <3> QED BY <3>1, FS_Singleton
  <2>2. CASE <<d, 0>> \notin wrapped
    <3>1. PICK r \in Live : Owns(r) /\ reader[r].doc = d
      BY <1>1, <2>2 DEF RInv, Owned
    <3>2. S = {r}
      BY <1>1, <2>2, <3>1 DEF RInv, Owned
    <3> QED BY <3>2, FS_Singleton
  <2> QED BY <2>1, <2>2
<1>2. RInv => OneOwner
  BY <1>1 DEF OneOwner
<1> QED BY <1>2, ReaderInvariance, PTL

\* What a query on a reader looks at has not been freed behind the cursor,
\* nor with the document.
THEOREM QueriesAreSafe == ASSUME Lawful PROVE Spec => []QueriesInUse
<1>1. ASSUME RInv, NEW r \in held \cap Live
      PROVE  Queries(r) \subseteq IF reader[r].doc = NULL THEN {} ELSE alive[reader[r].doc]
  <2>1. CASE reader[r].doc = NULL
    <3>1. reader[r].node = 0
      BY <1>1, <2>1, CursorPlaced
    <3> QED BY <2>1, <3>1
         DEF Queries, node_queries, scope_queries, document_queries, subtree_queries
  <2>2. CASE reader[r].doc # NULL
    <3>1. PICK d, p : d = reader[r].doc /\ p = reader[r].node
      OBVIOUS
    <3>2. /\ 0 \in alive[d] /\ p \in alive[d]
          /\ p # 0 => p \in Pos /\ Above[p] \subseteq alive[d]
      BY <1>1, <2>2, <3>1, CursorInUse
    <3>3. p # 0 /\ ~reader[r].back /\ Stream(r) => Below(p) \subseteq alive[d]
      BY <1>1, <3>1 DEF RInv, Placed, StreamPlaced, StreamAt
    <3>4. /\ node_queries(r) \subseteq alive[d] /\ scope_queries(r) \subseteq alive[d]
          /\ document_queries(r) \subseteq alive[d] /\ subtree_queries(r) \subseteq alive[d]
      BY <3>1, <3>2, <3>3 DEF node_queries, scope_queries, document_queries, subtree_queries
    <3> QED BY <2>2, <3>1, <3>4 DEF Queries
  <2> QED BY <2>1, <2>2
<1>2. RInv => QueriesInUse
  BY <1>1 DEF QueriesInUse
<1> QED BY <1>2, ReaderInvariance, PTL

-----------------------------------------------------------------------------
(* Nodes from expand.                                                      *)

\* An action that frees nothing.
Spares == \A d \in Doc : alive[d] \subseteq alive'[d]

LEMMA BuildSpares ==
  ASSUME Typed, NEW d \in Doc, alive[d] = {}, Build(d)
  PROVE  Spares
BY DEF Typed, Build, Spares

\* A stream does not free below what is claimed: if it is above the node
\* left, that claim is still counted, and if it is below, the node is marked.
LEMMA LeaveSparesClaims ==
  ASSUME RInv, NEW r \in held \cap Live, Stream(r), reader[r].mode = "reading",
         LeaveStream(r), NEW e \in Doc, NEW q \in claimed[e]
  PROVE  Below(q) \cap alive[e] \subseteq alive'[e]
<1>1. PICK d, p : d = reader[r].doc /\ p = reader[r].node
  OBVIOUS
<1>2. PICK F, left :
        /\ d \in Doc /\ p \in Pos /\ Frees(d, F)
        /\ (F = Below(p) \cap alive[d] /\ left = 0 /\ p \notin marked[d]) \/ F = {}
        /\ left = IF p \in claimed[d] /\ reader[r].preserves > 0
                  THEN reader[r].preserves - 1 ELSE reader[r].preserves
  <2> HIDE DEF Frees, Moves
  <2> QED BY <1>1, LeaveMoves
<1>3. CASE e # d \/ F = {}
  BY <1>2, <1>3 DEF Frees
<1>4. CASE e = d /\ F # {}
  <2>1. F = Below(p) \cap alive[d] /\ left = 0 /\ p \notin marked[d]
    BY <1>2, <1>4
  <2>2. q \in Pos /\ Above[q] \subseteq marked[d] /\ p \notin claimed[d]
    <3>1. \A z \in claimed[d] : z \in Pos /\ Above[z] \subseteq marked[d]
      BY <1>2 DEF RInv, Typed, Claims
    <3> QED BY <1>2, <1>4, <2>1, <3>1, AboveTyped
  <2>3. q \notin Above[p]
    <3> SUFFICES ASSUME q \in Above[p]  PROVE FALSE
      OBVIOUS
    <3>1. StreamAt(r, d, p)
      BY <1>1, <1>2, Positions DEF RInv, Placed, StreamPlaced
    <3>2. q \in claimed[d] \cap Above[p] /\ IsFiniteSet(claimed[d] \cap Above[p])
      <4>1. Above[p] \subseteq Pos /\ IsFiniteSet(Pos)
        BY <1>2, AboveTyped, Positions
      <4> QED BY <1>4, <4>1, FS_Subset
    <3>3. Cardinality(claimed[d] \cap Above[p]) \in Nat /\ Cardinality(claimed[d] \cap Above[p]) # 0
      BY <3>2, FS_CardinalityType, FS_EmptySet
    <3>4. Cardinality(claimed[d] \cap Above[p]) <= reader[r].preserves
      BY <3>1 DEF StreamAt
    <3>5. reader[r].preserves \in Nat
      BY HeldReaders, BoundIsNat DEF RInv
    <3>6. left = reader[r].preserves
      BY <1>2, <2>2
    <3> QED BY <2>1, <3>3, <3>4, <3>5, <3>6
  <2>4. ASSUME NEW x \in Below(q) \cap F  PROVE FALSE
    <3>1. x \in Pos /\ q \in Above[x] /\ p \in Above[x]
      BY <2>1 DEF Below
    <3>2. p \in Above[q]
      BY <2>3, <3>1, AboveChain
    <3> QED BY <2>1, <2>2, <3>2
  <2> QED BY <1>2, <1>4, <2>4 DEF Frees
<1> QED BY <1>3, <1>4

\* A document goes with the reader that owns it, or with its wrapper.
LEMMA FreedElsewhere ==
  ASSUME RInv, NEW d \in Doc, Free(d, Cell), NEW e \in Doc \ {d}
  PROVE  alive'[e] = alive[e]
BY Freeing DEF RInv, Frees

LEMMA ExpandedStep ==
  ASSUME RInv, [Next]_vars, NEW w \in held \ Readers, w[2] \in claimed[w[1]]
  PROVE  Below(w[2]) \cap alive[w[1]] \subseteq alive'[w[1]]
<1>1. PICK e, q : e = w[1] /\ q = w[2]
  OBVIOUS
<1>2. e \in Doc /\ q \in claimed[e] /\ <<e, 0>> \in wrapped
  <2>1. w \in wrapped /\ wrapped \subseteq Doc \X Cell
    BY HeldReaders DEF RInv, Typed
  <2> QED BY <1>1, <2>1 DEF RInv, Claims
<1>3. CASE Spares
  BY <1>1, <1>2, <1>3 DEF Spares
<1>4. ASSUME NEW r \in Live, Owns(r), Free(reader[r].doc, Cell)
      PROVE  alive'[e] = alive[e]
  <2>1. reader[r].doc \in Doc /\ reader[r].doc # e
    BY <1>2, <1>4, HeldReaders DEF RInv, Owned, Owns
  <2> QED BY <1>2, <1>4, <2>1, FreedElsewhere
<1>5. CASE Make
  <2>1. Spares
    BY <1>5, BuildSpares DEF Make, document_parse, reader_document, reader_stream, tree, Spares, RInv
  <2> QED BY <1>3, <2>1
<1>6. CASE Move
  <2> SUFFICES ASSUME NEW r \in Readers,
                      \/ reader_read(r) \/ reader_read_fails(r) \/ reader_next(r)
                      \/ reader_next_sibling(r)
                      \/ \E b \in BOOLEAN : reader_move_to_attr(r, b)
               PROVE  Below(q) \cap alive[e] \subseteq alive'[e]
    BY <1>1, <1>6 DEF Move
  <2>1. CASE reader_read(r) \/ reader_next(r)
    <3>1. r \in held \cap Live
      BY <2>1 DEF reader_read, reader_next, On
    <3>2. CASE Stream(r) /\ reader[r].mode = "reading" /\ LeaveStream(r)
      BY <1>2, <3>1, <3>2, LeaveSparesClaims
    <3>3. CASE UNCHANGED tree
      BY <3>3 DEF tree
    <3>4. CASE \E d \in Doc : alive[d] = {} /\ Build(d)
      BY <1>1, <1>3, <3>4, BuildSpares DEF RInv
    <3>5. \/ Stream(r) /\ reader[r].mode = "reading" /\ LeaveStream(r)
          \/ UNCHANGED tree
          \/ \E d \in Doc : alive[d] = {} /\ Build(d)
      BY <2>1 DEF reader_read, reader_next, LeaveWalker
    <3> QED BY <3>2, <3>3, <3>4, <3>5
  <2>2. CASE reader_read_fails(r)
    <3>1. UNCHANGED tree \/ \E d \in Doc : alive[d] = {} /\ Build(d)
      BY <2>2 DEF reader_read_fails
    <3>2. Spares
      BY <3>1, BuildSpares DEF RInv, tree, Spares
    <3> QED BY <1>1, <1>3, <3>2
  <2>3. CASE reader_next_sibling(r)
    BY <2>3 DEF reader_next_sibling, LeaveWalker, tree
  <2>4. CASE \E b \in BOOLEAN : reader_move_to_attr(r, b)
    BY <2>4 DEF reader_move_to_attr, tree
  <2> QED BY <2>1, <2>2, <2>3, <2>4
<1>7. CASE HandOut
  BY <1>7 DEF HandOut, reader_node, reader_expand, reader_expand_fails, node_get, Preserve, tree
<1>8. CASE gc_mark \/ \E o \in held : drop(o)
  BY <1>8 DEF gc_mark, drop, tree
<1>9. ASSUME NEW o, sweep(o)  PROVE Below(q) \cap alive[e] \subseteq alive'[e]
  <2>1. CASE o \in Readers
    <3>1. o \in Live
      BY <1>9, <2>1, HeldSplit DEF sweep, RInv, Typed
    <3> QED BY <1>4, <1>9, <2>1, <3>1 DEF sweep, tree
  <2>2. CASE o \notin Readers
    <3>1. o \in garbage /\ o \in wrapped
      BY <1>9, <2>2, HeldReaders DEF sweep, RInv, Typed
    <3>2. o \in Doc \X Cell /\ o = <<o[1], o[2]>> /\ o[1] \in Doc
      BY <3>1 DEF RInv, Typed
    <3>3. CASE o[2] = 0
      <4>1. <<e, 0>> \notin garbage
        BY <1>1, <3>1 DEF RInv, NodesKept
      <4>2. o[1] # e
        BY <3>1, <3>2, <3>3, <4>1
      <4>3. Free(o[1], Cell)
        BY <1>9, <2>2, <3>3 DEF sweep
      <4> QED BY <1>2, <3>2, <4>2, <4>3, FreedElsewhere
    <3>4. CASE o[2] # 0
      BY <1>9, <2>2, <3>4 DEF sweep, tree
    <3> QED BY <3>3, <3>4
  <2> QED BY <2>1, <2>2
<1>10. CASE Collect
  BY <1>1, <1>8, <1>9, <1>10 DEF Collect
<1>11. ASSUME NEW r \in Readers, reader_close(r)  PROVE Below(q) \cap alive[e] \subseteq alive'[e]
  <2>1. /\ r \in Live
        /\ IF Owns(r) THEN Free(reader[r].doc, Cell) ELSE UNCHANGED tree
    BY <1>11 DEF reader_close, On
  <2> QED BY <1>4, <2>1 DEF tree
<1>12. CASE UNCHANGED vars
  BY <1>12 DEF vars, tree
<1> QED BY <1>1, <1>5, <1>6, <1>7, <1>8, <1>10, <1>11, <1>12 DEF Next

\* No step takes anything away from a node from expand that the program holds.
THEOREM ExpandedKept == ASSUME Lawful PROVE Spec => ExpandedStays
<1>1. RInv /\ [Next]_vars =>
        [\A w \in held \ Readers :
           w[2] \in claimed[w[1]] => Below(w[2]) \cap alive[w[1]] \subseteq alive'[w[1]]]_vars
  BY ExpandedStep
<1> QED BY <1>1, ReaderInvariance, PTL DEF Spec, ExpandedStays
=============================================================================
