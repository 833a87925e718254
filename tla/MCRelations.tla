---------------------------- MODULE MCRelations ----------------------------
(* Two teachers, one of whom also held a student's token earlier, and one   *)
(* student who may not have logged in yet.                                  *)
EXTENDS Relations

CONSTANTS r1, r2, ann, bob, sid, rel1, rel2

MCPersons == {ann, bob, sid}
MCEmails == {"a@x", "b@x", "s@x", "n@x", "l@x"}

\* A migration made Bob's row.  Ann's email and roles change, Bob's role does;
\* Sid's first token may carry the email Ann had.
MCTokens ==
    { [sub |-> ann, email |-> "a@x", roles |-> {Teacher}],
      [sub |-> ann, email |-> "n@x", roles |-> {Student, Teacher}],
      [sub |-> bob, email |-> "b@x", roles |-> {Teacher}],
      [sub |-> bob, email |-> "b@x", roles |-> {Student}],
      [sub |-> sid, email |-> "s@x", roles |-> {Student}],
      [sub |-> sid, email |-> "a@x", roles |-> {Student}] }

MCInitialUsers ==
    [p \in MCPersons |->
        IF p = ann THEN [email |-> "a@x", role |-> Teacher]
        ELSE IF p = bob THEN [email |-> "l@x", role |-> Legacy]
        ELSE Null]

NoRelations == [i \in RelationIds |-> Null]

MCSymmetry == Permutations(Requests) \union Permutations(RelationIds)
=============================================================================
