---------------------------- MODULE LibraryTree ----------------------------
(* The order in which the categories of a library are listed                  *)
(* (Library::category_tree): parents first, whatever parents a merge has      *)
(* left, with cycles and with parents that are gone.  One action is one turn  *)
(* of the loop.                                                               *)
EXTENDS Library, Sequences

CONSTANTS Rank          \* of each category that may exist: its place by title

ASSUME TitlesAssumption ==
    /\ IsFiniteSet(Categories)
    /\ Rank \in [Categories -> Nat]
    /\ \A c, d \in Categories : Rank[c] = Rank[d] => c = d

VARIABLES
    tree,           \* the categories as they were read
    stack,          \* those to come, each with its depth, the next one last
    listed,         \* the result; visited is what is in it
    through         \* the loop is over

cvars == <<tree, stack, listed, through>>

Visited == {listed[n].id : n \in 1..Len(listed)}
Left == Live(tree) \ Visited

(* The categories of a set from the last title to the first, as .rev() pushes *)
(* them: popping brings the first back first.                                 *)
Reversed(set) ==
    {s \in [1..Cardinality(set) -> set] :
        /\ \A c \in set : \E n \in 1..Cardinality(set) : s[n] = c
        /\ \A n, m \in 1..Cardinality(set) : n < m => Rank[s[n]] > Rank[s[m]]}
AtDepth(s, depth) == [n \in 1..Len(s) |-> [id |-> s[n], depth |-> depth]]

TreeInit ==
    /\ tree \in {ensure_android_root(t) : t \in Trees}
    /\ \E s \in Reversed({c \in Live(tree) : Orphan(tree, c)}) : stack = AtDepth(s, 0)
    /\ listed = <<>> /\ through = FALSE

(* A mutant of Onto: the children wait behind what is there already.          *)
Beneath(rest, s, depth) == AtDepth(s, depth) \o rest

Onto(rest, s, depth) == rest \o AtDepth(s, depth)

(* Listed at its depth, and its children pushed on what was below it.         *)
Listed(top, rest) ==
    /\ listed' = Append(listed, top)
    /\ \E s \in Reversed(Children(tree, top.id)) : stack' = Onto(rest, s, top.depth + 1)
    /\ UNCHANGED <<tree, through>>

Top == stack[Len(stack)]
Rest == SubSeq(stack, 1, Len(stack) - 1)

Pop ==
    /\ ~through /\ stack # <<>> /\ Top.id \notin Visited
    /\ Listed(Top, Rest)

(* On a cycle the parent of the first one listed comes to push it again.      *)
Skip ==
    /\ ~through /\ stack # <<>> /\ Top.id \in Visited
    /\ stack' = Rest
    /\ UNCHANGED <<tree, listed, through>>

(* What only a cycle of parents reaches is started from its first category.   *)
StartCycle ==
    /\ ~through /\ stack = <<>>
    /\ \E c \in Left :
        /\ \A d \in Left : Rank[c] <= Rank[d]
        /\ Listed([id |-> c, depth |-> 0], <<>>)

Through ==
    /\ ~through /\ stack = <<>> /\ Left = {}
    /\ through' = TRUE
    /\ UNCHANGED <<tree, stack, listed>>

TreeNext == Pop \/ Skip \/ StartCycle \/ Through

TreeSpec == TreeInit /\ [][TreeNext]_cvars

(* Lines that were pushed together, or came to the margin for the same reason. *)
Siblings(a, b) ==
    /\ a.depth = b.depth
    /\ IF a.depth = 0 THEN Orphan(tree, a.id) <=> Orphan(tree, b.id)
                      ELSE tree[a.id].parent = tree[b.id].parent

(* Every line of the listing is a category of its own, and in the end none is *)
(* missing, whatever cycles a merge has brought.  Each is under its parent,   *)
(* the nearest line above that is one step less deep; and at the left margin  *)
(* is only what has no parent to go under, or hangs on a cycle.  Siblings are *)
(* in the order of their titles.                                              *)
EveryCategoryIsListed ==
    /\ Visited \subseteq Live(tree)
    /\ through => Visited = Live(tree)
    /\ \A n, m \in 1..Len(listed) : listed[n].id = listed[m].id => n = m
    /\ \A n \in 1..Len(listed) :
        IF listed[n].depth = 0
          THEN Orphan(tree, listed[n].id) \/ ~Ends(tree, listed[n].id)
          ELSE \E m \in 1..(n - 1) :
                /\ listed[m].id = tree[listed[n].id].parent
                /\ listed[m].depth = listed[n].depth - 1
                /\ \A k \in (m + 1)..(n - 1) : listed[k].depth >= listed[n].depth
    /\ \A n, m \in 1..Len(listed) :
        n < m /\ Siblings(listed[n], listed[m]) => Rank[listed[n].id] < Rank[listed[m].id]
=============================================================================
