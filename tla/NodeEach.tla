------------------------------ MODULE NodeEach ------------------------------
(***************************************************************************)
(* Node#each (rxml_node_each) beside NodeMemory: the method keeps the      *)
(* address of a child in a C variable while the block, any Ruby code at    *)
(* all, edits trees, lets go of objects and runs the collector.  Only when *)
(* the block returns does it follow the child's next pointer.              *)
(***************************************************************************)
EXTENDS NodeMemory, Naturals, Sequences

CONSTANT EachRules  \* the usage rules, defined below, that the blocks keep

ASSUME EachRulesAreKnown == EachRules \subseteq {"still"}

VARIABLES
  receiver,  \* the wrapper each was called on, NULL when no each is running
  xchild,    \* the child whose block is running
  yielded    \* the children that have been yielded

eachVars == <<receiver, xchild, yielded>>

EachInit == Init /\ receiver = NULL /\ xchild = NULL /\ yielded = <<>>

-----------------------------------------------------------------------------

\* The first child is wrapped and yielded.
node_each(o) ==
  /\ Running
  /\ receiver = NULL
  /\ IsNode(o)
  /\ Follow(xml[X(o)].children)
  /\ receiver' = o
  /\ xchild' = xml[X(o)].children
  /\ yielded' = <<xchild'>>

\* Mutant of following: the last child is taken for the end.
following_but_last ==
  IF xml[xchild].next # NULL /\ xml[xml[xchild].next].next = NULL THEN NULL
  ELSE xml[xchild].next

following == xml[xchild].next

\* The block returns: each goes on to the next child, or returns itself.
each_next ==
  /\ Running
  /\ receiver # NULL
  /\ xchild \in InUse(xml)
  /\ IF following # NULL
     THEN /\ Follow(following)
          /\ xchild' = following
          /\ yielded' = Append(yielded, following)
          /\ UNCHANGED receiver
     ELSE /\ receiver' = NULL
          /\ xchild' = NULL
          /\ yielded' = <<>>
          /\ UNCHANGED <<xml, ruby, held>>

\* break, an exception, or a return from the block.
each_break ==
  /\ Running
  /\ receiver # NULL
  /\ receiver' = NULL
  /\ xchild' = NULL
  /\ yielded' = <<>>
  /\ UNCHANGED <<xml, ruby, held>>

Children(h, n) == {c \in Node \cap InUse(h) : h[c].parent = n}

\* "still": the block leaves the child list of the receiver as it is.
Still ==
  ("still" \in EachRules /\ receiver # NULL) =>
    LET n == X(receiver)
    IN /\ xml'[n].children = xml[n].children
       /\ Children(xml', n) = Children(xml, n)
       /\ \A c \in Children(xml, n) : xml'[c].next = xml[c].next

\* While each runs, its receiver is on the stack: it cannot be dropped.
EachNext ==
  \/ \E o \in held : node_each(o)
  \/ each_next
  \/ each_break
  \/ /\ Make \/ Move \/ (Edit /\ Still) \/ \E o \in held \ {receiver} : drop(o)
     /\ UNCHANGED eachVars
  \/ Collect /\ UNCHANGED eachVars

EachSpec == EachInit /\ [][EachNext]_<<vars, eachVars>>

-----------------------------------------------------------------------------
(* Properties.                                                             *)

\* The child each will go on from is alive and still the receiver's, though
\* nothing but the receiver may be left to keep its tree: wherever the block
\* moves the receiver to, and whatever it lets go of (rxml_node_mark).
CursorInUse ==
  receiver # NULL => xchild \in InUse(xml) /\ xml[xchild].parent = X(receiver)

\* "Iterates over this node's children" (ruby_xml_node.c:596): when each
\* returns, every child has been yielded once and in order, if the block
\* left the list alone.
YieldsAll ==
  [][each_next /\ receiver' = NULL =>
       /\ Len(yielded) = Cardinality(Children(xml, X(receiver)))
       /\ yielded[1] = xml[X(receiver)].children
       /\ \A i \in 1..Len(yielded) - 1 : xml[yielded[i]].next = yielded[i + 1]]_<<vars, eachVars>>
=============================================================================
