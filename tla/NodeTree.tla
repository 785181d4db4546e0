------------------------------ MODULE NodeTree ------------------------------
(***************************************************************************)
(* The children dictionaries of the controller's node tree (class          *)
(* ControllerNode in managers.py): a Python dict from index to node is a   *)
(* function whose domain is a finite set of naturals.                      *)
(***************************************************************************)
EXTENDS Integers, FiniteSets, Functions

\* Field(default_factory=dict): a node starts without children.
NoChildren == [i \in {} |-> i]

\* The nodes a dictionary holds.
Nodes(children) == Range(children)

\* Wrong ways to pick an index: the last child's, and the number of children.
GetIndexLast(children) == Cardinality(DOMAIN children) - 1
GetIndexCount(children) == Cardinality(DOMAIN children)

(***************************************************************************)
(* get_index(-1): the lowest natural that is not a key.  No route passes a *)
(* requested index, so this is the only branch the program runs.           *)
(***************************************************************************)
GetIndex(children) ==
  CHOOSE i \in 0 .. Cardinality(DOMAIN children) :
    /\ i \notin DOMAIN children
    /\ \A j \in 0 .. i - 1 : j \in DOMAIN children

\* self.children[index] = node
AddChild(children, index, node) ==
  [i \in DOMAIN children \cup {index} |->
     IF i = index THEN node ELSE children[i]]

\* Wrong ways to remove a child: not at all, with its siblings, and as from a
\* list, so that the later children move up.
RemoveChildNever(children, index) == children
RemoveChildAll(children, index) == NoChildren
RemoveChildShift(children, index) ==
  [i \in {IF j > index THEN j - 1 ELSE j : j \in DOMAIN children \ {index}} |->
     children[IF i >= index THEN i + 1 ELSE i]]

\* del self.children[index]
RemoveChild(children, index) ==
  Restrict(children, DOMAIN children \ {index})

\* The k lowest free indices, which k calls of get_index hand out in turn.
LowestFree(used, k) ==
  {i \in 0 .. Cardinality(used) + k - 1 :
     /\ i \notin used
     /\ Cardinality((0 .. i) \ used) =< k}

-----------------------------------------------------------------------------
\* A dictionary of nodes: finitely many natural indices, each with a node.
IsDict(children, S) ==
  /\ DOMAIN children \subseteq Nat
  /\ IsFiniteSet(DOMAIN children)
  /\ \A i \in DOMAIN children : children[i] \in S

\* Both dictionaries hold the same node in every slot that both have.
KeepsSlots(old, new) == \A i \in DOMAIN old \cap DOMAIN new : old[i] = new[i]

=============================================================================
