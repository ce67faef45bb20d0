------------------------------ MODULE LruStack ------------------------------
(***************************************************************************)
(* What a set-associative LRU cache promises, with no line, way or stamp:  *)
(* each set is a list of at most Depth tags, most recently used first.  An *)
(* access moves its tag to the front; it is a hit when the tag was in the  *)
(* list, and on a miss in a full set the last tag falls out.               *)
(***************************************************************************)
EXTENDS Integers, Sequences

CONSTANTS
  Sets,    \* the sets an address may be in
  Tags,    \* the tags of the addresses
  Depth    \* lines of a set

VARIABLES
  stack,   \* set |-> its tags, most recently used first
  hits,
  misses

stackVars == <<stack, hits, misses>>

InStack(tags, tag) == \E i \in DOMAIN tags : tags[i] = tag

(* The entry at i, then what was above it, then what was below it. *)
MoveToFront(tags, i) ==
  <<tags[i]>> \o SubSeq(tags, 1, i - 1) \o SubSeq(tags, i + 1, Len(tags))

(* A new entry in front; of a full list the last falls out. *)
Push(tags, tag) ==
  <<tag>> \o (IF Len(tags) < Depth THEN tags ELSE SubSeq(tags, 1, Depth - 1))

Init ==
  /\ stack = [s \in Sets |-> << >>]
  /\ hits = 0
  /\ misses = 0

Use(s, tag) ==
  \/ \E i \in DOMAIN stack[s] :
       /\ stack[s][i] = tag
       /\ stack' = [stack EXCEPT ![s] = MoveToFront(@, i)]
       /\ hits' = hits + 1
       /\ UNCHANGED misses
  \/ /\ ~InStack(stack[s], tag)
     /\ stack' = [stack EXCEPT ![s] = Push(@, tag)]
     /\ misses' = misses + 1
     /\ UNCHANGED hits

Next == \E s \in Sets, tag \in Tags : Use(s, tag)

Spec == Init /\ [][Next]_stackVars

=============================================================================
