---------------------------- MODULE MCDeployment ----------------------------
(* A fresh database, and databases of the first revision, with or without   *)
(* its stamp: up to two links and two lessons of one pair, orphans, rows of  *)
(* one person, rows that share a key.                                       *)
EXTENDS Deployment

CONSTANTS ann, sam, hw1

MCPersons == {ann, sam}

Link(i, t, s) == [id |-> i, teacher |-> t, student |-> s, status |-> Null]
Lesson(i, t, s, h) == [id |-> i, teacher |-> t, student |-> s, homework |-> h]

LinkTables ==
    { {}, {Link(1, ann, sam)}, {Link(1, ann, ann)},
      {Link(1, ann, sam), Link(2, ann, sam)},
      {Link(1, ann, sam), Link(2, sam, ann)} }
LessonTables ==
    { {}, {Lesson(1, ann, sam, hw1)},
      {Lesson(1, ann, sam, hw1), Lesson(2, sam, ann, Null)},
      {Lesson(1, ann, sam, hw1), Lesson(2, ann, sam, hw1)} }

Timestamps == {Plan[i] : i \in 1..Len(Baseline)}
LessonIdsAreText ==
    {On("text_id", "lessons", column) : column \in {"teacher", "student"}}

Legacy(users, links, lessons, revision) ==
    [users |-> users, links |-> links, lessons |-> lessons,
     schema |-> LessonIdsAreText \union
                    (IF revision = 0 THEN {} ELSE Timestamps),
     revision |-> revision]

Fresh == Legacy({}, {}, {}, 0)
Unstamped == Legacy({ann}, {Link(1, ann, sam)}, {Lesson(1, ann, sam, hw1)}, 0)
\* Every case of one table beside a plain row of the other.
Rows == (LinkTables \X {{Lesson(1, ann, sam, hw1)}})
            \union ({{Link(1, ann, sam)}} \X LessonTables)

MCDatabases ==
    {Fresh, Unstamped} \union
    {Legacy(u, rows[1], rows[2], 1) : u \in {{}, {ann, sam}}, rows \in Rows}
=============================================================================
