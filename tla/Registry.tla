------------------------------ MODULE Registry ------------------------------
(***************************************************************************)
(* What the relation endpoints promise, whatever requests do inside: a     *)
(* book of the people the school knows and of who teaches whom.  A pair is *)
(* opened once, between two people of the book, and closed for good.       *)
(***************************************************************************)
CONSTANT Persons

VARIABLES
    people,   \* the persons who have an account
    open,     \* the pairs <<teacher, student>> that work together
    closed    \* the pairs that no longer do

book == <<people, open, closed>>

PairsOfPeople == {pair \in people \X people : pair[1] # pair[2]}

Init ==
    /\ people \subseteq Persons
    /\ open \subseteq PairsOfPeople /\ closed \subseteq PairsOfPeople
    /\ open \intersect closed = {}

\* A person's first request with a valid token.
Join(p) ==
    /\ p \notin people
    /\ people' = people \union {p}
    /\ UNCHANGED <<open, closed>>

Open(pair) ==
    /\ pair \notin open \union closed
    /\ open' = open \union {pair}
    /\ UNCHANGED <<people, closed>>

Close(pair) ==
    /\ open' = open \ {pair}
    /\ closed' = closed \union {pair}
    /\ UNCHANGED people

Next ==
    \/ \E p \in Persons : Join(p)
    \/ \E pair \in PairsOfPeople : Open(pair)
    \/ \E pair \in open : Close(pair)

Spec == Init /\ [][Next]_book
=============================================================================
