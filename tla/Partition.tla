----------------------------- MODULE Partition -----------------------------
(***************************************************************************)
(* What a union-find structure promises: a partition of the wallets met so *)
(* far, in which Merge joins two classes and nothing else ever moves.      *)
(***************************************************************************)
CONSTANT Wallets

VARIABLE classes

\* the class of x, or x alone if it was never met
ClassOf(x) == {x} \cup UNION {c \in classes : x \in c}

Init == classes = {}

Meet(x) == classes' = {c \in classes : x \notin c} \cup {ClassOf(x)}

Merge(a, b) ==
  classes' = {c \in classes : a \notin c /\ b \notin c} \cup {ClassOf(a) \cup ClassOf(b)}

Next == \/ \E x \in Wallets : Meet(x)
        \/ \E a, b \in Wallets : Merge(a, b)

Spec == Init /\ [][Next]_classes
=============================================================================
