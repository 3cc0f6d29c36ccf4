---------------------------- MODULE NodeIdentity ----------------------------
(***************************************************************************)
(* What the memory protocol promises a Ruby program, without saying how:   *)
(* each structure has at most one object, a structure is retrieved as the  *)
(* object it has, and the collector takes away only objects that are not   *)
(* held.  A call made by the program may do away with any structure, held  *)
(* or not: an edit can free nodes.                                         *)
(***************************************************************************)
CONSTANTS Cell, Object, NULL

VARIABLES
  instance,   \* the object of each structure, or NULL
  held,       \* the objects the program refers to
  collecting  \* whether the collector is running

vars == <<instance, held, collecting>>

Init ==
  /\ instance = [c \in Cell |-> NULL]
  /\ held = {}
  /\ collecting = FALSE

Without(gone) == [c \in Cell |-> IF c \in gone THEN NULL ELSE instance[c]]

\* A call: structures gone go away, structure c is retrieved unless NULL.
Call(gone, c) ==
  /\ ~collecting
  /\ UNCHANGED collecting
  /\ LET left == Without(gone)
     IN \/ /\ c = NULL
           /\ instance' = left
           /\ UNCHANGED held
        \/ /\ c # NULL /\ left[c] # NULL
           /\ instance' = left
           /\ held' = held \cup {left[c]}
        \/ /\ c # NULL /\ left[c] = NULL
           /\ \E o \in Object : /\ o \notin held
                                /\ \A d \in Cell : left[d] # o
                                /\ instance' = [left EXCEPT ![c] = o]
                                /\ held' = held \cup {o}

Drop(o) ==
  /\ ~collecting
  /\ held' = held \ {o}
  /\ UNCHANGED <<instance, collecting>>

Begin == ~collecting /\ collecting' = TRUE /\ UNCHANGED <<instance, held>>

\* The collector does away with structures that no held object stands for.
Reclaim(gone) ==
  /\ collecting
  /\ \A c \in gone : instance[c] \notin held
  /\ instance' = Without(gone)
  /\ collecting' \in BOOLEAN
  /\ UNCHANGED held

Next ==
  \/ \E gone \in SUBSET Cell : Reclaim(gone) \/ \E c \in Cell \cup {NULL} : Call(gone, c)
  \/ \E o \in held : Drop(o)
  \/ Begin

Spec == Init /\ [][Next]_vars
=============================================================================
