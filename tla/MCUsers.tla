------------------------------ MODULE MCUsers ------------------------------
(* Two people.  Ann holds tokens from before and after an email and a role  *)
(* change; Bob, whose row a migration made, holds one with Ann's old email, *)
(* one of his own and one without any application role.                     *)
EXTENDS Users

CONSTANTS r1, r2, ann, bob

MCPersons == {ann, bob}
MCEmails == {"a@x", "b@x", "legacy@x"}

AnnTokens ==
    { [sub |-> ann, email |-> "a@x", roles |-> {Student}],
      [sub |-> ann, email |-> "b@x", roles |-> {Student, Teacher}] }

BobTokens ==
    { [sub |-> bob, email |-> "a@x", roles |-> {Student}],
      [sub |-> bob, email |-> "b@x", roles |-> {Student}] }

BobRoleless == [sub |-> bob, email |-> "b@x", roles |-> {}]

MCTokens == AnnTokens \union BobTokens \union {BobRoleless}

MCInitialUsers ==
    [p \in MCPersons |->
        IF p = ann THEN Null ELSE [email |-> "legacy@x", role |-> Legacy]]
=============================================================================
