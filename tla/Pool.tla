-------------------------------- MODULE Pool --------------------------------
(***************************************************************************)
(* What a container promises to goroutines that only resolve, without how: *)
(* a pool with one slot for each resource, filled once and in the order of *)
(* the declared dependencies, from which everybody is served.              *)
(*                                                                         *)
(* Container.tla implements it: ContainerPool.tla.                         *)
(***************************************************************************)
EXTENDS Integers, SequencesExt

CONSTANTS
  Nodes,    \* resource IDs
  Threads,  \* goroutines
  Graphs,   \* compiled graphs, as in Container
  Batches,  \* the lists that may be asked for
  CanFail,  \* nodes whose Build may return an error
  Nothing,  \* no instance
  Error     \* an answer that is an error

VARIABLES
  g,       \* the compiled graph
  slots,   \* per node, its instance
  asked,   \* per thread, the nodes it still waits for
  answer   \* per thread, the last answer

vars == <<g, slots, asked, answer>>

Needs(n) == ToSet(g.deps[n]) \union ToSet(g.uses[n])

\* Some set of declared nodes has n and all that its members resolve, and
\* neither a Build that may fail nor a cycle.
Sound(n) ==
  \E S \in SUBSET (ToSet(g.topo) \ CanFail) :
    /\ n \in S
    /\ \A m \in S : Needs(m) \subseteq S
    /\ \A T \in SUBSET S \ {{}} : \E m \in T : Needs(m) \intersect T = {}

Init ==
  /\ g \in Graphs
  /\ slots = [n \in Nodes |-> Nothing]
  /\ asked = [t \in Threads |-> <<>>]
  /\ answer = [t \in Threads |-> Nothing]

Ask(t, ids) ==
  /\ asked[t] = <<>>
  /\ asked' = [asked EXCEPT ![t] = ids]
  /\ UNCHANGED <<g, slots, answer>>

\* A slot is filled once, with an instance of its own, after the slots of the
\* declared dependencies.
Put(n) ==
  /\ slots[n] = Nothing
  /\ \A d \in ToSet(g.deps[n]) : slots[d] # Nothing
  /\ \A m \in Nodes : slots'[n] # slots[m]
  /\ slots' = [slots EXCEPT ![n] = slots'[n]]
  /\ UNCHANGED <<g, asked, answer>>

\* The next node asked for is answered with what is in its slot.
Answer(t) ==
  /\ asked[t] # <<>> /\ slots[Head(asked[t])] # Nothing
  /\ answer' = [answer EXCEPT ![t] = slots[Head(asked[t])]]
  /\ asked' = [asked EXCEPT ![t] = Tail(@)]
  /\ UNCHANGED <<g, slots>>

\* An error answers only what cannot be had for sure, and ends the list.
Refuse(t) ==
  /\ asked[t] # <<>> /\ ~Sound(Head(asked[t]))
  /\ answer' = [answer EXCEPT ![t] = Error]
  /\ asked' = [asked EXCEPT ![t] = <<>>]
  /\ UNCHANGED <<g, slots>>

Next ==
  \/ \E t \in Threads : Answer(t) \/ Refuse(t) \/ \E ids \in Batches : Ask(t, ids)
  \/ \E n \in Nodes : Put(n)

Spec == Init /\ [][Next]_vars

=============================================================================
