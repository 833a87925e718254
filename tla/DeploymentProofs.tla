-------------------------- MODULE DeploymentProofs --------------------------
(***************************************************************************)
(* The upgrade of a database in use and the script around it, for any      *)
(* number of people, rows and writes, and for every database that the      *)
(* upgrade may find.                                                       *)
(***************************************************************************)
EXTENDS Deployment, TLAPS, SequenceTheorems

-----------------------------------------------------------------------------
(* The plan of the upgrade, statement by statement.                        *)

Kinds == {"timestamps", "find_orphans", "insert_legacy", "validate_users",
          "find_duplicates", "delete_duplicates", "validate_unique",
          "text_id", "foreign_key", "homework_key", "unique", "columns",
          "normalise", "checks"}
Columns == {"all", "teacher", "student"}
Statement == [do : Kinds, table : Tables, column : Columns]

\* Statements are built of known words only.
LEMMA StatementsAreTyped ==
  ASSUME NEW do \in Kinds, NEW table \in Tables, NEW column \in Columns
  PROVE  On(do, table, column) \in Statement
BY DEF On, Statement

\* Two sequences one after the other, entry by entry.
LEMMA Joined ==
  ASSUME NEW S, NEW s \in Seq(S), NEW t \in Seq(S), NEW u, u = s \o t
  PROVE  /\ u \in Seq(S) /\ Len(u) = Len(s) + Len(t)
         /\ \A i \in 1..Len(s) + Len(t) :
                u[i] = IF i <= Len(s) THEN s[i] ELSE t[i - Len(s)]
BY ConcatProperties

\* The two shortest pieces of the plan.
LEMMA ShortSequences ==
  ASSUME NEW S, NEW x \in S, NEW y \in S, NEW z \in S
  PROVE  <<x>> \in Seq(S) /\ <<x, y>> \in Seq(S) /\ <<x, y, z>> \in Seq(S)
OBVIOUS

\* The thirteen statements of Align, written out as a sequence.
LEMMA ThirteenInSequence ==
  ASSUME NEW S, NEW x1 \in S, NEW x2 \in S, NEW x3 \in S, NEW x4 \in S,
         NEW x5 \in S, NEW x6 \in S, NEW x7 \in S, NEW x8 \in S, NEW x9 \in S,
         NEW x10 \in S, NEW x11 \in S, NEW x12 \in S, NEW x13 \in S
  PROVE  <<x1, x2, x3, x4, x5, x6, x7, x8, x9, x10, x11, x12, x13>> \in Seq(S)
OBVIOUS

\* Align, entry by entry.
LEMMA AlignIs ==
  ASSUME NEW table
  PROVE  /\ Len(Align(table)) = 13
         /\ Align(table)[1] = On("find_orphans", table, "teacher")
         /\ Align(table)[2] = On("insert_legacy", table, "teacher")
         /\ Align(table)[3] = On("find_orphans", table, "student")
         /\ Align(table)[4] = On("insert_legacy", table, "student")
         /\ Align(table)[5] = On("validate_users", table, "teacher")
         /\ Align(table)[6] = On("validate_users", table, "student")
         /\ Align(table)[7] = On("find_duplicates", table, "all")
         /\ Align(table)[8] = On("delete_duplicates", table, "all")
         /\ Align(table)[9] = On("validate_unique", table, "all")
         /\ Align(table)[10] = On("text_id", table, "teacher")
         /\ Align(table)[11] = On("text_id", table, "student")
         /\ Align(table)[12] = On("foreign_key", table, "teacher")
         /\ Align(table)[13] = On("foreign_key", table, "student")
BY DEF Align

\* Its length and its type.
LEMMA AlignIsASequence ==
  ASSUME NEW table \in Tables
  PROVE  Align(table) \in Seq(Statement)
<1>1. /\ On("find_orphans", table, "teacher") \in Statement
      /\ On("insert_legacy", table, "teacher") \in Statement
      /\ On("find_orphans", table, "student") \in Statement
      /\ On("insert_legacy", table, "student") \in Statement
      /\ On("validate_users", table, "teacher") \in Statement
      /\ On("validate_users", table, "student") \in Statement
      /\ On("find_duplicates", table, "all") \in Statement
      /\ On("delete_duplicates", table, "all") \in Statement
      /\ On("validate_unique", table, "all") \in Statement
      /\ On("text_id", table, "teacher") \in Statement
      /\ On("text_id", table, "student") \in Statement
      /\ On("foreign_key", table, "teacher") \in Statement
      /\ On("foreign_key", table, "student") \in Statement
  BY StatementsAreTyped DEF Kinds, Columns
<1> QED
  BY <1>1, ThirteenInSequence DEF Align

\* Where each revision's statements lie in the plan.
LEMMA PlanIs ==
  /\ Plan \in Seq(Statement) /\ Len(Plan) = 34
  /\ Len(Baseline) = 2 /\ Len(AlignTables) = 29
  /\ Plan[1] = On("timestamps", "users", "all")
  /\ Plan[2] = On("timestamps", "lessons", "all")
  /\ \A i \in 1..13 : Plan[i + 2] = Align("links")[i]
  /\ Plan[16] = On("unique", "links", "all")
  /\ \A i \in 1..13 : Plan[i + 16] = Align("lessons")[i]
  /\ Plan[30] = On("homework_key", "lessons", "all")
  /\ Plan[31] = On("unique", "lessons", "all")
  /\ Plan[32] = On("columns", "links", "all")
  /\ Plan[33] = On("normalise", "links", "all")
  /\ Plan[34] = On("checks", "links", "all")
<1>1. PICK b, links, u, lessons, h, d :
        /\ b = Baseline
        /\ links = Align("links") /\ u = <<On("unique", "links", "all")>>
        /\ lessons = Align("lessons")
        /\ h = <<On("homework_key", "lessons", "all"), On("unique", "lessons", "all")>>
        /\ d = RelationDomain
  OBVIOUS
<1>2. PICK p1, p2, p3, p4 :
        /\ p1 = links \o u /\ p2 = p1 \o lessons /\ p3 = p2 \o h
        /\ p4 = b \o p3
  OBVIOUS
<1>3. PICK p5 : p5 = p4 \o d
  OBVIOUS
<1>4. AlignTables = p3 /\ Plan = p5
  BY <1>1, <1>2, <1>3 DEF Plan, AlignTables
<1>5. /\ b \in Seq(Statement) /\ u \in Seq(Statement)
      /\ h \in Seq(Statement)
  BY <1>1, StatementsAreTyped, ShortSequences
     DEF Kinds, Columns, Tables, Baseline
<1>6. d \in Seq(Statement)
  BY <1>1, StatementsAreTyped, ShortSequences
     DEF Kinds, Columns, Tables, RelationDomain
<1>7. links \in Seq(Statement) /\ lessons \in Seq(Statement)
  BY <1>1, AlignIsASequence DEF Tables
<1>8. /\ p1 \in Seq(Statement) /\ p2 \in Seq(Statement)
      /\ p3 \in Seq(Statement) /\ p4 \in Seq(Statement)
  BY <1>2, <1>5, <1>7, Joined
<1>9. p5 \in Seq(Statement)
  BY <1>3, <1>6, <1>8, Joined
<1>10. /\ Len(p1) = Len(links) + Len(u)
       /\ \A i \in 1..Len(links) + Len(u) :
            p1[i] = IF i <= Len(links) THEN links[i] ELSE u[i - Len(links)]
  BY <1>2, <1>5, <1>7, Joined
<1>11. /\ Len(p2) = Len(p1) + Len(lessons)
       /\ \A i \in 1..Len(p1) + Len(lessons) :
            p2[i] = IF i <= Len(p1) THEN p1[i] ELSE lessons[i - Len(p1)]
  BY <1>2, <1>7, <1>8, Joined
<1>12. /\ Len(p3) = Len(p2) + Len(h)
       /\ \A i \in 1..Len(p2) + Len(h) :
            p3[i] = IF i <= Len(p2) THEN p2[i] ELSE h[i - Len(p2)]
  BY <1>2, <1>5, <1>8, Joined
<1>13. /\ Len(p4) = Len(b) + Len(p3)
       /\ \A i \in 1..Len(b) + Len(p3) :
            p4[i] = IF i <= Len(b) THEN b[i] ELSE p3[i - Len(b)]
  BY <1>2, <1>5, <1>8, Joined
<1>14. /\ Len(p5) = Len(p4) + Len(d)
       /\ \A i \in 1..Len(p4) + Len(d) :
            p5[i] = IF i <= Len(p4) THEN p4[i] ELSE d[i - Len(p4)]
  BY <1>3, <1>6, <1>8, Joined
<1>15. Len(b) = 2 /\ Len(u) = 1 /\ Len(h) = 2 /\ Len(d) = 3
  BY <1>1 DEF Baseline, RelationDomain
<1>16. Len(links) = 13 /\ Len(lessons) = 13
  BY <1>1, AlignIs
<1>17. Len(p1) = 14
  BY <1>10, <1>15, <1>16
<1>18. Len(p2) = 27
  BY <1>11, <1>16, <1>17
<1>19. Len(p3) = 29
  BY <1>12, <1>15, <1>18
<1>20. Len(p4) = 31
  BY <1>13, <1>15, <1>19
<1>21. Len(p5) = 34
  BY <1>14, <1>15, <1>20
<1>22. (\A i \in 1..13 : p1[i] = links[i]) /\ p1[14] = u[1]
  BY <1>10, <1>15, <1>16
<1>23. /\ \A i \in 1..14 : p2[i] = p1[i]
       /\ \A i \in 1..13 : p2[i + 14] = lessons[i]
  BY <1>11, <1>16, <1>17
<1>24. (\A i \in 1..27 : p3[i] = p2[i]) /\ p3[28] = h[1] /\ p3[29] = h[2]
  BY <1>12, <1>15, <1>18
<1>25. p4[1] = b[1] /\ p4[2] = b[2] /\ \A i \in 1..29 : p4[i + 2] = p3[i]
  BY <1>13, <1>15, <1>19
<1>26. /\ \A i \in 1..31 : p5[i] = p4[i]
       /\ p5[32] = d[1] /\ p5[33] = d[2] /\ p5[34] = d[3]
  BY <1>14, <1>15, <1>20
<1>27. p5[1] = b[1] /\ p5[2] = b[2] /\ \A i \in 1..29 : p5[i + 2] = p3[i]
  BY <1>25, <1>26
<1>28. /\ \A i \in 1..13 : p5[i + 2] = links[i]
       /\ p5[16] = u[1]
       /\ \A i \in 1..13 : p5[i + 16] = lessons[i]
       /\ p5[30] = h[1] /\ p5[31] = h[2]
  BY <1>22, <1>23, <1>24, <1>27
<1>29. /\ b[1] = On("timestamps", "users", "all")
       /\ b[2] = On("timestamps", "lessons", "all")
       /\ u[1] = On("unique", "links", "all")
       /\ h[1] = On("homework_key", "lessons", "all")
       /\ h[2] = On("unique", "lessons", "all")
       /\ d[1] = On("columns", "links", "all")
       /\ d[2] = On("normalise", "links", "all")
       /\ d[3] = On("checks", "links", "all")
  BY <1>1 DEF Baseline, RelationDomain
<1>30. /\ \A i \in 1..13 : Plan[i + 2] = Align("links")[i]
       /\ \A i \in 1..13 : Plan[i + 16] = Align("lessons")[i]
  BY <1>1, <1>4, <1>28
<1>31. /\ Plan[1] = On("timestamps", "users", "all")
       /\ Plan[2] = On("timestamps", "lessons", "all")
       /\ Plan[16] = On("unique", "links", "all")
       /\ Plan[30] = On("homework_key", "lessons", "all")
       /\ Plan[31] = On("unique", "lessons", "all")
       /\ Plan[32] = On("columns", "links", "all")
       /\ Plan[33] = On("normalise", "links", "all")
       /\ Plan[34] = On("checks", "links", "all")
  BY <1>4, <1>26, <1>27, <1>28, <1>29
<1>32. Plan \in Seq(Statement) /\ Len(Plan) = 34
  BY <1>4, <1>9, <1>21
<1>33. Len(Baseline) = 2 /\ Len(AlignTables) = 29
  BY <1>1, <1>4, <1>15, <1>19
<1> QED
  BY <1>30, <1>31, <1>32, <1>33

\* Entry by entry.
LEMMA PlanLength ==
  Len(Plan) = 34 /\ Len(Baseline) = 2 /\ Len(AlignTables) = 29
BY PlanIs

\* Every entry of the plan.
LEMMA PlanListed ==
  /\ Plan[1] = On("timestamps", "users", "all")
  /\ Plan[2] = On("timestamps", "lessons", "all")
  /\ Plan[3] = On("find_orphans", "links", "teacher")
  /\ Plan[4] = On("insert_legacy", "links", "teacher")
  /\ Plan[5] = On("find_orphans", "links", "student")
  /\ Plan[6] = On("insert_legacy", "links", "student")
  /\ Plan[7] = On("validate_users", "links", "teacher")
  /\ Plan[8] = On("validate_users", "links", "student")
  /\ Plan[9] = On("find_duplicates", "links", "all")
  /\ Plan[10] = On("delete_duplicates", "links", "all")
  /\ Plan[11] = On("validate_unique", "links", "all")
  /\ Plan[12] = On("text_id", "links", "teacher")
  /\ Plan[13] = On("text_id", "links", "student")
  /\ Plan[14] = On("foreign_key", "links", "teacher")
  /\ Plan[15] = On("foreign_key", "links", "student")
  /\ Plan[16] = On("unique", "links", "all")
  /\ Plan[17] = On("find_orphans", "lessons", "teacher")
  /\ Plan[18] = On("insert_legacy", "lessons", "teacher")
  /\ Plan[19] = On("find_orphans", "lessons", "student")
  /\ Plan[20] = On("insert_legacy", "lessons", "student")
  /\ Plan[21] = On("validate_users", "lessons", "teacher")
  /\ Plan[22] = On("validate_users", "lessons", "student")
  /\ Plan[23] = On("find_duplicates", "lessons", "all")
  /\ Plan[24] = On("delete_duplicates", "lessons", "all")
  /\ Plan[25] = On("validate_unique", "lessons", "all")
  /\ Plan[26] = On("text_id", "lessons", "teacher")
  /\ Plan[27] = On("text_id", "lessons", "student")
  /\ Plan[28] = On("foreign_key", "lessons", "teacher")
  /\ Plan[29] = On("foreign_key", "lessons", "student")
  /\ Plan[30] = On("homework_key", "lessons", "all")
  /\ Plan[31] = On("unique", "lessons", "all")
  /\ Plan[32] = On("columns", "links", "all")
  /\ Plan[33] = On("normalise", "links", "all")
  /\ Plan[34] = On("checks", "links", "all")
<1>1. \A i \in 1..13 : Plan[i + 2] = Align("links")[i]
  BY PlanIs
<1>2. /\ Plan[3] = Align("links")[1] /\ Plan[4] = Align("links")[2]
      /\ Plan[5] = Align("links")[3] /\ Plan[6] = Align("links")[4]
      /\ Plan[7] = Align("links")[5] /\ Plan[8] = Align("links")[6]
      /\ Plan[9] = Align("links")[7] /\ Plan[10] = Align("links")[8]
      /\ Plan[11] = Align("links")[9] /\ Plan[12] = Align("links")[10]
      /\ Plan[13] = Align("links")[11] /\ Plan[14] = Align("links")[12]
      /\ Plan[15] = Align("links")[13]
  BY <1>1
<1>3. \A i \in 1..13 : Plan[i + 16] = Align("lessons")[i]
  BY PlanIs
<1>4. /\ Plan[17] = Align("lessons")[1] /\ Plan[18] = Align("lessons")[2]
      /\ Plan[19] = Align("lessons")[3] /\ Plan[20] = Align("lessons")[4]
      /\ Plan[21] = Align("lessons")[5] /\ Plan[22] = Align("lessons")[6]
      /\ Plan[23] = Align("lessons")[7] /\ Plan[24] = Align("lessons")[8]
      /\ Plan[25] = Align("lessons")[9] /\ Plan[26] = Align("lessons")[10]
      /\ Plan[27] = Align("lessons")[11] /\ Plan[28] = Align("lessons")[12]
      /\ Plan[29] = Align("lessons")[13]
  BY <1>3
<1>5. /\ Plan[1] = On("timestamps", "users", "all")
      /\ Plan[2] = On("timestamps", "lessons", "all")
      /\ Plan[16] = On("unique", "links", "all")
      /\ Plan[30] = On("homework_key", "lessons", "all")
      /\ Plan[31] = On("unique", "lessons", "all")
      /\ Plan[32] = On("columns", "links", "all")
      /\ Plan[33] = On("normalise", "links", "all")
      /\ Plan[34] = On("checks", "links", "all")
  BY PlanIs
<1> QED
  BY <1>2, <1>4, <1>5, AlignIs

Rows == {"links", "lessons"}
People == {"teacher", "student"}

\* A statement of the plan is what its three fields say.
LEMMA PlanTyped ==
  ASSUME NEW i \in 1..Len(Plan)
  PROVE  /\ Plan[i] \in Statement
         /\ Plan[i] = On(Plan[i].do, Plan[i].table, Plan[i].column)
<1>1. Plan \in Seq(Statement)
  BY PlanIs
<1>2. Plan[i] \in Statement
  BY <1>1
<1> QED
  BY <1>2 DEF Statement, On

\* Thirty-four places, for a proof by cases.
LEMMA Positions ==
  ASSUME NEW i \in 1..Len(Plan)
  PROVE  \/ i = 1 \/ i = 2 \/ i = 3 \/ i = 4 \/ i = 5 \/ i = 6 \/ i = 7
         \/ i = 8 \/ i = 9 \/ i = 10 \/ i = 11 \/ i = 12 \/ i = 13 \/ i = 14
         \/ i = 15 \/ i = 16 \/ i = 17 \/ i = 18 \/ i = 19 \/ i = 20 \/ i = 21
         \/ i = 22 \/ i = 23 \/ i = 24 \/ i = 25 \/ i = 26 \/ i = 27 \/ i = 28
         \/ i = 29 \/ i = 30 \/ i = 31 \/ i = 32 \/ i = 33 \/ i = 34
<1>1. Len(Plan) = 34
  BY PlanLength
<1> QED
  BY <1>1

\* What each statement does.
LEMMA PlanKinds ==
  /\ Plan[1].do = "timestamps" /\ Plan[2].do = "timestamps"
  /\ Plan[3].do = "find_orphans" /\ Plan[4].do = "insert_legacy"
  /\ Plan[5].do = "find_orphans" /\ Plan[6].do = "insert_legacy"
  /\ Plan[7].do = "validate_users" /\ Plan[8].do = "validate_users"
  /\ Plan[9].do = "find_duplicates" /\ Plan[10].do = "delete_duplicates"
  /\ Plan[11].do = "validate_unique" /\ Plan[12].do = "text_id"
  /\ Plan[13].do = "text_id" /\ Plan[14].do = "foreign_key"
  /\ Plan[15].do = "foreign_key" /\ Plan[16].do = "unique"
  /\ Plan[17].do = "find_orphans" /\ Plan[18].do = "insert_legacy"
  /\ Plan[19].do = "find_orphans" /\ Plan[20].do = "insert_legacy"
  /\ Plan[21].do = "validate_users" /\ Plan[22].do = "validate_users"
  /\ Plan[23].do = "find_duplicates" /\ Plan[24].do = "delete_duplicates"
  /\ Plan[25].do = "validate_unique" /\ Plan[26].do = "text_id"
  /\ Plan[27].do = "text_id" /\ Plan[28].do = "foreign_key"
  /\ Plan[29].do = "foreign_key" /\ Plan[30].do = "homework_key"
  /\ Plan[31].do = "unique" /\ Plan[32].do = "columns"
  /\ Plan[33].do = "normalise" /\ Plan[34].do = "checks"
BY PlanListed DEF On

\* What the statements of each table are about.
LEMMA LinksTargets ==
  /\ Plan[3].table = "links" /\ Plan[3].column = "teacher"
  /\ Plan[4].table = "links" /\ Plan[4].column = "teacher"
  /\ Plan[5].table = "links" /\ Plan[5].column = "student"
  /\ Plan[6].table = "links" /\ Plan[6].column = "student"
  /\ Plan[7].table = "links" /\ Plan[7].column = "teacher"
  /\ Plan[8].table = "links" /\ Plan[8].column = "student"
  /\ Plan[9].table = "links" /\ Plan[9].column = "all"
  /\ Plan[10].table = "links" /\ Plan[10].column = "all"
  /\ Plan[11].table = "links" /\ Plan[11].column = "all"
  /\ Plan[14].table = "links" /\ Plan[14].column = "teacher"
  /\ Plan[15].table = "links" /\ Plan[15].column = "student"
  /\ Plan[16].table = "links" /\ Plan[16].column = "all"
BY PlanListed DEF On

LEMMA LessonsTargets ==
  /\ Plan[17].table = "lessons" /\ Plan[17].column = "teacher"
  /\ Plan[18].table = "lessons" /\ Plan[18].column = "teacher"
  /\ Plan[19].table = "lessons" /\ Plan[19].column = "student"
  /\ Plan[20].table = "lessons" /\ Plan[20].column = "student"
  /\ Plan[21].table = "lessons" /\ Plan[21].column = "teacher"
  /\ Plan[22].table = "lessons" /\ Plan[22].column = "student"
  /\ Plan[23].table = "lessons" /\ Plan[23].column = "all"
  /\ Plan[24].table = "lessons" /\ Plan[24].column = "all"
  /\ Plan[25].table = "lessons" /\ Plan[25].column = "all"
  /\ Plan[28].table = "lessons" /\ Plan[28].column = "teacher"
  /\ Plan[29].table = "lessons" /\ Plan[29].column = "student"
  /\ Plan[31].table = "lessons" /\ Plan[31].column = "all"
BY PlanListed DEF On

\* Where the statements of a kind are.
LEMMA KindsAt ==
  ASSUME NEW i \in 1..Len(Plan)
  PROVE  /\ Plan[i].do = "find_orphans" => i \in {3, 5, 17, 19}
         /\ Plan[i].do = "insert_legacy" => i \in {4, 6, 18, 20}
         /\ Plan[i].do = "validate_users" => i \in {7, 8, 21, 22}
         /\ Plan[i].do = "find_duplicates" => i \in {9, 23}
         /\ Plan[i].do = "delete_duplicates" => i \in {10, 24}
         /\ Plan[i].do = "validate_unique" => i \in {11, 25}
         /\ Plan[i].do = "foreign_key" => i \in {14, 15, 28, 29}
         /\ Plan[i].do = "unique" => i \in {16, 31}
         /\ Plan[i].do = "columns" => i \in {32}
         /\ Plan[i].do = "normalise" => i \in {33}
         /\ Plan[i].do = "checks" => i \in {34}
<1>1. Plan[i].do = "find_orphans" => i \in {3, 5, 17, 19}
  BY Positions, PlanKinds
<1>2. Plan[i].do = "insert_legacy" => i \in {4, 6, 18, 20}
  BY Positions, PlanKinds
<1>3. Plan[i].do = "validate_users" => i \in {7, 8, 21, 22}
  BY Positions, PlanKinds
<1>4. Plan[i].do = "find_duplicates" => i \in {9, 23}
  BY Positions, PlanKinds
<1>5. Plan[i].do = "delete_duplicates" => i \in {10, 24}
  BY Positions, PlanKinds
<1>6. Plan[i].do = "validate_unique" => i \in {11, 25}
  BY Positions, PlanKinds
<1>7. Plan[i].do = "foreign_key" => i \in {14, 15, 28, 29}
  BY Positions, PlanKinds
<1>8. Plan[i].do = "unique" => i \in {16, 31}
  BY Positions, PlanKinds
<1>9. Plan[i].do = "columns" => i \in {32}
  BY Positions, PlanKinds
<1>10. Plan[i].do = "normalise" => i \in {33}
  BY Positions, PlanKinds
<1>11. Plan[i].do = "checks" => i \in {34}
  BY Positions, PlanKinds
<1> QED
  BY <1>1, <1>2, <1>3, <1>4, <1>5, <1>6, <1>7, <1>8, <1>9, <1>10, <1>11

\* What stands where, by the kind of the statement.
LEMMA PlanOrder ==
  ASSUME NEW i \in 1..Len(Plan)
  PROVE  /\ Plan[i].do \in {"find_orphans", "insert_legacy", "validate_users",
                            "foreign_key"} =>
                Plan[i].table \in Rows /\ Plan[i].column \in People
         /\ Plan[i].do \in {"find_duplicates", "delete_duplicates",
                            "validate_unique", "unique"} =>
                Plan[i].table \in Rows /\ Plan[i].column = "all"
         /\ Plan[i].do = "insert_legacy" =>
                /\ i > 3 /\ i < 32
                /\ Plan[i - 1] = On("find_orphans", Plan[i].table, Plan[i].column)
         /\ Plan[i].do = "delete_duplicates" =>
                i > 3 /\ Plan[i - 1] = On("find_duplicates", Plan[i].table, "all")
<1>1. ASSUME Plan[i].do \in {"find_orphans", "insert_legacy", "validate_users",
                            "foreign_key"}
      PROVE  Plan[i].table \in Rows /\ Plan[i].column \in People
  <2>1. i \in {3, 4, 5, 6, 7, 8, 14, 15, 17, 18, 19, 20, 21, 22, 28, 29}
    BY <1>1, KindsAt
  <2>2. CASE i \in {3, 4, 5, 6, 7, 8, 14, 15}
    <3>1. Plan[i].table = "links"
      BY <2>2, LinksTargets
    <3>2. Plan[i].column \in {"teacher", "student"}
      BY <2>2, LinksTargets
    <3> QED
      BY <3>1, <3>2 DEF Rows, People
  <2>3. CASE i \in {17, 18, 19, 20, 21, 22, 28, 29}
    <3>1. Plan[i].table = "lessons"
      BY <2>3, LessonsTargets
    <3>2. Plan[i].column \in {"teacher", "student"}
      BY <2>3, LessonsTargets
    <3> QED
      BY <3>1, <3>2 DEF Rows, People
  <2> QED
    BY <2>1, <2>2, <2>3
<1>2. ASSUME Plan[i].do \in {"find_duplicates", "delete_duplicates",
                            "validate_unique", "unique"}
      PROVE  Plan[i].table \in Rows /\ Plan[i].column = "all"
  <2>1. i \in {9, 10, 11, 16, 23, 24, 25, 31}
    BY <1>2, KindsAt
  <2>2. CASE i \in {9, 10, 11, 16}
    <3>1. Plan[i].table = "links"
      BY <2>2, LinksTargets
    <3>2. Plan[i].column = "all"
      BY <2>2, LinksTargets
    <3> QED
      BY <3>1, <3>2 DEF Rows
  <2>3. CASE i \in {23, 24, 25, 31}
    <3>1. Plan[i].table = "lessons"
      BY <2>3, LessonsTargets
    <3>2. Plan[i].column = "all"
      BY <2>3, LessonsTargets
    <3> QED
      BY <3>1, <3>2 DEF Rows
  <2> QED
    BY <2>1, <2>2, <2>3
<1>3. ASSUME Plan[i].do = "insert_legacy"
      PROVE  /\ i > 3 /\ i < 32
             /\ Plan[i - 1] = On("find_orphans", Plan[i].table, Plan[i].column)
  <2>1. i \in {4, 6, 18, 20}
    BY <1>3, KindsAt
  <2>2. i > 3 /\ i < 32
    BY <2>1
  <2>3. CASE i = 4
    <3>1. Plan[3] = On("find_orphans", "links", "teacher")
      BY PlanListed
    <3>2. Plan[4].table = "links" /\ Plan[4].column = "teacher"
      BY LinksTargets
    <3>3. i - 1 = 3
      BY <2>3
    <3>4. Plan[i - 1] = On("find_orphans", Plan[i].table, Plan[i].column)
      BY <2>3, <3>1, <3>2, <3>3
    <3> QED
      BY <2>2, <3>4
  <2>4. CASE i = 6
    <3>1. Plan[5] = On("find_orphans", "links", "student")
      BY PlanListed
    <3>2. Plan[6].table = "links" /\ Plan[6].column = "student"
      BY LinksTargets
    <3>3. i - 1 = 5
      BY <2>4
    <3>4. Plan[i - 1] = On("find_orphans", Plan[i].table, Plan[i].column)
      BY <2>4, <3>1, <3>2, <3>3
    <3> QED
      BY <2>2, <3>4
  <2>5. CASE i = 18
    <3>1. Plan[17] = On("find_orphans", "lessons", "teacher")
      BY PlanListed
    <3>2. Plan[18].table = "lessons" /\ Plan[18].column = "teacher"
      BY LessonsTargets
    <3>3. i - 1 = 17
      BY <2>5
    <3>4. Plan[i - 1] = On("find_orphans", Plan[i].table, Plan[i].column)
      BY <2>5, <3>1, <3>2, <3>3
    <3> QED
      BY <2>2, <3>4
  <2>6. CASE i = 20
    <3>1. Plan[19] = On("find_orphans", "lessons", "student")
      BY PlanListed
    <3>2. Plan[20].table = "lessons" /\ Plan[20].column = "student"
      BY LessonsTargets
    <3>3. i - 1 = 19
      BY <2>6
    <3>4. Plan[i - 1] = On("find_orphans", Plan[i].table, Plan[i].column)
      BY <2>6, <3>1, <3>2, <3>3
    <3> QED
      BY <2>2, <3>4
  <2> QED
    BY <2>1, <2>3, <2>4, <2>5, <2>6
<1>4. ASSUME Plan[i].do = "delete_duplicates"
      PROVE  i > 3 /\ Plan[i - 1] = On("find_duplicates", Plan[i].table, "all")
  <2>1. i \in {10, 24}
    BY <1>4, KindsAt
  <2>2. i > 3
    BY <2>1
  <2>3. CASE i = 10
    <3>1. Plan[9] = On("find_duplicates", "links", "all")
      BY PlanListed
    <3>2. Plan[10].table = "links"
      BY LinksTargets
    <3>3. i - 1 = 9
      BY <2>3
    <3>4. Plan[i - 1] = On("find_duplicates", Plan[i].table, "all")
      BY <2>3, <3>1, <3>2, <3>3
    <3> QED
      BY <2>2, <3>4
  <2>4. CASE i = 24
    <3>1. Plan[23] = On("find_duplicates", "lessons", "all")
      BY PlanListed
    <3>2. Plan[24].table = "lessons"
      BY LessonsTargets
    <3>3. i - 1 = 23
      BY <2>4
    <3>4. Plan[i - 1] = On("find_duplicates", Plan[i].table, "all")
      BY <2>4, <3>1, <3>2, <3>3
    <3> QED
      BY <2>2, <3>4
  <2> QED
    BY <2>1, <2>3, <2>4
<1> QED
  BY <1>1, <1>2, <1>3, <1>4

\* Every column is repaired before it is validated or gets its key.
LEMMA PlanRepairsFirst ==
  ASSUME NEW i \in 1..Len(Plan), Plan[i].do \in {"validate_users", "foreign_key"}
  PROVE  \E j \in 1..Len(Plan) :
            j < i /\ Plan[j] = On("insert_legacy", Plan[i].table, Plan[i].column)
<1>1. i \in {7, 8, 14, 15, 21, 22, 28, 29}
  BY KindsAt
<1>2. Len(Plan) = 34
  BY PlanLength
<1>3. CASE i \in {7, 14}
  <2>1. Plan[4] = On("insert_legacy", "links", "teacher")
    BY PlanListed
  <2>2. Plan[i].table = "links" /\ Plan[i].column = "teacher"
    <3>1. /\ Plan[7].table = "links" /\ Plan[7].column = "teacher"
          /\ Plan[14].table = "links" /\ Plan[14].column = "teacher"
      BY LinksTargets
    <3> QED
      BY <1>3, <3>1
  <2>3. 4 \in 1..Len(Plan) /\ 4 < i
    BY <1>2, <1>3
  <2> QED
    BY <2>1, <2>2, <2>3
<1>4. CASE i \in {8, 15}
  <2>1. Plan[6] = On("insert_legacy", "links", "student")
    BY PlanListed
  <2>2. Plan[i].table = "links" /\ Plan[i].column = "student"
    <3>1. /\ Plan[8].table = "links" /\ Plan[8].column = "student"
          /\ Plan[15].table = "links" /\ Plan[15].column = "student"
      BY LinksTargets
    <3> QED
      BY <1>4, <3>1
  <2>3. 6 \in 1..Len(Plan) /\ 6 < i
    BY <1>2, <1>4
  <2> QED
    BY <2>1, <2>2, <2>3
<1>5. CASE i \in {21, 28}
  <2>1. Plan[18] = On("insert_legacy", "lessons", "teacher")
    BY PlanListed
  <2>2. Plan[i].table = "lessons" /\ Plan[i].column = "teacher"
    <3>1. /\ Plan[21].table = "lessons" /\ Plan[21].column = "teacher"
          /\ Plan[28].table = "lessons" /\ Plan[28].column = "teacher"
      BY LessonsTargets
    <3> QED
      BY <1>5, <3>1
  <2>3. 18 \in 1..Len(Plan) /\ 18 < i
    BY <1>2, <1>5
  <2> QED
    BY <2>1, <2>2, <2>3
<1>6. CASE i \in {22, 29}
  <2>1. Plan[20] = On("insert_legacy", "lessons", "student")
    BY PlanListed
  <2>2. Plan[i].table = "lessons" /\ Plan[i].column = "student"
    <3>1. /\ Plan[22].table = "lessons" /\ Plan[22].column = "student"
          /\ Plan[29].table = "lessons" /\ Plan[29].column = "student"
      BY LessonsTargets
    <3> QED
      BY <1>6, <3>1
  <2>3. 20 \in 1..Len(Plan) /\ 20 < i
    BY <1>2, <1>6
  <2> QED
    BY <2>1, <2>2, <2>3
<1> QED
  BY <1>1, <1>3, <1>4, <1>5, <1>6

\* Both tables get both foreign keys and their unique constraint.
LEMMA PlanHasKeys ==
  ASSUME NEW table \in Rows
  PROVE  /\ \A column \in People : \E j \in 1..31 :
                Plan[j] = On("foreign_key", table, column)
         /\ \E j \in 1..31 : Plan[j] = On("unique", table, "all")
<1>1. /\ Plan[14] = On("foreign_key", "links", "teacher")
      /\ Plan[15] = On("foreign_key", "links", "student")
      /\ Plan[16] = On("unique", "links", "all")
  BY PlanListed
<1>2. /\ Plan[28] = On("foreign_key", "lessons", "teacher")
      /\ Plan[29] = On("foreign_key", "lessons", "student")
      /\ Plan[31] = On("unique", "lessons", "all")
  BY PlanListed
<1>3. CASE table = "links"
  BY <1>1, <1>3 DEF People
<1>4. CASE table = "lessons"
  BY <1>2, <1>4 DEF People
<1> QED
  BY <1>3, <1>4 DEF Rows

\* Where each revision begins.
LEMMA FirstOfIs ==
  FirstOf(0) = 1 /\ FirstOf(1) = 3 /\ FirstOf(2) = 32 /\ FirstOf(3) = 35
BY PlanLength DEF FirstOf

\* A statement changes the schema when its kind does.
LEMMA SchemaStepsAre ==
  ASSUME NEW i \in 1..Len(Plan)
  PROVE  Plan[i] \in SchemaSteps <=> Plan[i].do \in Exclusive \union {"foreign_key"}
BY DEF SchemaSteps

-----------------------------------------------------------------------------
(* Views of the database.                                                  *)

\* What the upgrade sees is what is committed, but for what it did itself:
\* accounts it added, relations of one person it took away, statuses it set.
SameRow(table, row, other) ==
    /\ row.id = other.id
    /\ row.teacher = other.teacher /\ row.student = other.student
    /\ table = "lessons" => row.homework = other.homework
Follows ==
    /\ tx.revision = db.revision
    /\ db.schema \subseteq tx.schema
    /\ db.users \subseteq tx.users
    /\ tx.lessons = db.lessons
    /\ \A row \in tx.links : \E old \in db.links : SameRow("links", row, old)
    /\ \A old \in db.links :
        old.teacher # old.student =>
            \E row \in tx.links : SameRow("links", row, old)

\* What the upgrade changed and did not commit is barred from writers.
Locked ==
    /\ \A s \in tx.schema \ db.schema : <<s.table, "write">> \in barred
    /\ at = 0 => tx = db /\ barred = {}

\* What the statements before this one have established.
Prepared ==
    /\ \A i \in 1..Len(Plan) :
        i < at =>
            /\ Plan[i] \in SchemaSteps => Plan[i] \in tx.schema
            /\ (~disturbed /\ Plan[i].do = "insert_legacy") =>
                    Orphans(tx, Plan[i].table, Plan[i].column) = {}
    /\ Doing("insert_legacy") =>
        /\ found \subseteq Persons
        /\ ~disturbed => found = Orphans(tx, Table, Plan[at].column)
    /\ (Doing("delete_duplicates") /\ ~disturbed) => found = Duplicates(tx, Table)
    /\ (Doing("checks") /\ ~disturbed) =>
        \A row \in tx.links : row.teacher # row.student

Scripted ==
    /\ at # 0 => script = "migrating"
    /\ script \in {"remove", "start"} =>
        outcome = "done" /\ db.revision = LastRevision
    /\ (script = "migrating" /\ at = 0 /\ outcome = "done") =>
        db.revision = LastRevision
    /\ script = "finished" => outcome = "done" /\ server # "down"

\* None of the properties is inductive.  That a migrated database is legal rests
\* on the constraints, which the upgrade adds to a view that others' rows flow
\* into: so that view is consistent, follows what is committed, and differs from
\* it only where a lock keeps writers away.  That an undisturbed upgrade fails
\* only for duplicates rests on what its earlier statements have repaired.
DeploymentInv ==
    /\ DeploymentTypeOK
    /\ Consistent(db) /\ Consistent(tx)
    /\ Follows /\ Locked /\ Prepared /\ Scripted
    /\ FailureExplained /\ DownOnlyWhenMigrated

\* The fields of a database, and its tables by name.
LEMMA DatabaseFields ==
  ASSUME NEW view \in Database
  PROVE  /\ view.users \subseteq Persons /\ view.links \subseteq LinkRow
         /\ view.lessons \subseteq LessonRow /\ view.schema \subseteq SchemaSteps
         /\ view.revision \in {0, 1, 2, 3}
         /\ view["links"] = view.links /\ view["lessons"] = view.lessons
BY DEF Database, LastRevision

\* The fields of a row, and its columns by name.
LEMMA RowFields ==
  /\ \A row \in LinkRow : row.id \in Nat /\ row.teacher \in Persons /\ row.student \in Persons
        /\ row["teacher"] = row.teacher /\ row["student"] = row.student
  /\ \A row \in LessonRow : row.id \in Nat /\ row.teacher \in Persons /\ row.student \in Persons
        /\ row["teacher"] = row.teacher /\ row["student"] = row.student
BY RowIdsAreOrdered DEF LinkRow, LessonRow

\* Fewer rows and more accounts leave fewer orphans.
LEMMA OrphansShrink ==
  ASSUME NEW view, NEW next, NEW table, NEW column,
         view.users \subseteq next.users,
         \A row \in next[table] : \E old \in view[table] : row[column] = old[column]
  PROVE  Orphans(next, table, column) \subseteq Orphans(view, table, column)
BY DEF Orphans

\* Whoever a row refers to is a person.
LEMMA OrphansAreKnown ==
  ASSUME NEW view \in Database, NEW table \in Rows, NEW column \in People
  PROVE  Orphans(view, table, column) \subseteq Persons
<1>1. view[table] \subseteq LinkRow \/ view[table] \subseteq LessonRow
  BY DatabaseFields DEF Rows
<1>2. \A row \in view[table] : row[column] \in Persons
  BY <1>1, RowFields DEF People
<1> QED
  BY <1>2 DEF Orphans

\* Rows that share a key in one view do so in any view that has the same rows.
LEMMA DuplicatesFollow ==
  ASSUME NEW view, NEW next, NEW table \in Rows,
         \A row \in next[table] : \E old \in view[table] : SameRow(table, row, old),
         Duplicates(next, table) # {}
  PROVE  Duplicates(view, table) # {}
<1>1. PICK row \in next[table], other \in next[table] :
        SameKey(table, row, other) /\ other.id < row.id
  BY DEF Duplicates
<1>2. PICK oldRow \in view[table] : SameRow(table, row, oldRow)
  OBVIOUS
<1>3. PICK oldOther \in view[table] : SameRow(table, other, oldOther)
  OBVIOUS
<1>4. SameKey(table, oldRow, oldOther) /\ oldOther.id < oldRow.id
  BY <1>1, <1>2, <1>3 DEF SameRow, SameKey, Keyed, Rows
<1> QED
  BY <1>4 DEF Duplicates

\* Ids tell rows apart, so that a table without duplicates has one row per key.
LEMMA OneRowPerKey ==
  ASSUME NEW view \in Database, NEW table \in Rows, Duplicates(view, table) = {},
         \A row, other \in view[table] : row.id = other.id => row = other
  PROVE  \A row, other \in view[table] : SameKey(table, row, other) => row = other
<1> SUFFICES ASSUME NEW row \in view[table], NEW other \in view[table],
                    SameKey(table, row, other), row # other
             PROVE  FALSE
  OBVIOUS
<1>1. row.id \in Nat /\ other.id \in Nat
  BY DatabaseFields, RowFields DEF Rows
<1>2. SameKey(table, other, row)
  BY DEF SameKey, Keyed
<1>3. row.id < other.id \/ other.id < row.id
  BY <1>1
<1> QED
  BY <1>2, <1>3 DEF Duplicates

-----------------------------------------------------------------------------
(* Initial states, and what the invariant says once it is migrated.        *)

\* Any consistent database may be the first.
LEMMA DeploymentInitInv == DeploymentInit => DeploymentInv
<1> SUFFICES ASSUME DeploymentInit PROVE DeploymentInv
  OBVIOUS
<1> USE DEF DeploymentInit, MigrationsInit
<1>1. db \in Database /\ Consistent(db) /\ tx = db
  BY DatabasesAreDatabases, DatabasesAreConsistent
<1>2. Len(Plan) = 34
  BY PlanLength
<1>3. DeploymentTypeOK
  <2>1. at \in 0..Len(Plan) + 1
    BY <1>2
  <2>2. disturbed \in BOOLEAN
    OBVIOUS
  <2>3. script \in Steps \union {"finished", "exited"}
    BY DEF Steps
  <2>4. barred \subseteq Tables \X {"read", "write"} /\ held \subseteq Tables
        /\ wants \in Tables \union {Null}
    OBVIOUS
  <2> QED
    BY <1>1, <2>1, <2>2, <2>3, <2>4 DEF DeploymentTypeOK
<1>4. Follows
  BY <1>1 DEF Follows, SameRow
<1>5. Locked
  BY <1>1 DEF Locked
<1>6. Prepared
  BY <1>2 DEF Prepared, Doing, Running
<1>7. Scripted /\ FailureExplained /\ DownOnlyWhenMigrated
  BY DEF Scripted, FailureExplained, DownOnlyWhenMigrated
<1> QED
  BY <1>1, <1>3, <1>4, <1>5, <1>6, <1>7 DEF DeploymentInv

\* All constraints of the three revisions are there at the last one.
LEMMA MigratedHasConstraints ==
  ASSUME NEW view \in Database, Consistent(view), view.revision = LastRevision
  PROVE  /\ \A table \in Rows :
            /\ \A column \in People : On("foreign_key", table, column) \in view.schema
            /\ On("unique", table, "all") \in view.schema
         /\ On("checks", "links", "all") \in view.schema
<1>1. FirstOf(view.revision) = 35
  BY FirstOfIs DEF LastRevision
<1>2. \A i \in 1..Len(Plan) : i < 35 => (Plan[i] \in SchemaSteps => Plan[i] \in view.schema)
  BY <1>1 DEF Consistent
<1>3. \A i \in 1..34 : Plan[i].do \in Exclusive \union {"foreign_key"} => Plan[i] \in view.schema
  BY <1>2, PlanLength, SchemaStepsAre
<1>4. \A i \in 1..34 : \A do, table, column :
        (Plan[i] = On(do, table, column) /\ do \in {"foreign_key", "unique", "checks"})
            => Plan[i] \in view.schema
  BY <1>3 DEF On, Exclusive
<1>5. \A table \in Rows : \A column \in People : On("foreign_key", table, column) \in view.schema
  BY <1>4, PlanHasKeys
<1>6. \A table \in Rows : On("unique", table, "all") \in view.schema
  BY <1>4, PlanHasKeys
<1>7. Plan[34] = On("checks", "links", "all") /\ 34 \in 1..34
  BY PlanListed
<1>8. On("checks", "links", "all") \in view.schema
  BY <1>4, <1>7
<1> QED
  BY <1>5, <1>6, <1>8

\* So the constraints of the last revision make the rows legal.
LEMMA InvMigrated == DeploymentInv => MigratedIsLegal
<1> SUFFICES ASSUME DeploymentInv, db.revision = LastRevision
             PROVE  /\ \A row \in db.links \union db.lessons :
                        {row.teacher, row.student} \subseteq db.users
                    /\ \A row \in db.links :
                        /\ row.teacher # row.student
                        /\ row.status # Null
                        /\ \A other \in db.links :
                            (row.teacher = other.teacher /\ row.student = other.student)
                                => row = other
                    /\ \A row, other \in db.lessons :
                        (row.homework # Null /\ row.homework = other.homework)
                            => row = other
  BY DEF MigratedIsLegal
<1>1. db \in Database /\ Consistent(db)
  BY DEF DeploymentInv, DeploymentTypeOK
<1>2. \A table \in Rows :
        /\ \A column \in People : Orphans(db, table, column) = {}
        /\ Duplicates(db, table) = {}
        /\ \A row, other \in db[table] : row.id = other.id => row = other
  BY <1>1, MigratedHasConstraints DEF Consistent, Rows, People
<1>3. /\ \A row \in db.links : row.teacher # row.student
      /\ \A row \in db.links : row.status # Null
  BY <1>1, MigratedHasConstraints DEF Consistent
<1>4. \A table \in Rows : \A row, other \in db[table] :
        SameKey(table, row, other) => row = other
  BY <1>1, <1>2, OneRowPerKey
<1>5. \A table \in Rows : \A row \in db[table] :
        row["teacher"] \in db.users /\ row["student"] \in db.users
  BY <1>2 DEF Orphans, People
<1>6. \A row \in db.links \union db.lessons : row.teacher \in db.users /\ row.student \in db.users
  BY <1>1, <1>5, DatabaseFields, RowFields DEF Rows
<1>7. \A row, other \in db.links :
        (row.teacher = other.teacher /\ row.student = other.student) => row = other
  BY <1>1, <1>4, DatabaseFields DEF Rows, SameKey, Keyed
<1>8. \A row, other \in db.lessons :
        (row.homework # Null /\ row.homework = other.homework) => row = other
  BY <1>1, <1>4, DatabaseFields DEF Rows, SameKey, Keyed
<1> QED
  BY <1>3, <1>6, <1>7, <1>8

-----------------------------------------------------------------------------
(* How the upgrade moves on, or does not.                                  *)

\* A rolled back upgrade.
LEMMA FailInv ==
  ASSUME DeploymentInv, Fail, UNCHANGED deployVars, at # 0,
         disturbed' \in BOOLEAN,
         disturbed' \/ \E table \in Rows : Duplicates(db, table) # {}
  PROVE  DeploymentInv'
<1>1. /\ tx' = db /\ at' = 0 /\ barred' = {} /\ outcome' = "failed" /\ db' = db
      /\ held' = held /\ wants' = wants
      /\ script' = script /\ code' = code /\ server' = server
  BY DEF Fail, clientVars, deployVars
<1>2. Len(Plan) = 34
  BY PlanLength
<1>3. DeploymentTypeOK'
  <2>1. at' \in 0..Len(Plan) + 1
    BY <1>1, <1>2
  <2> QED
    BY <1>1, <2>1 DEF DeploymentInv, DeploymentTypeOK
<1>4. Consistent(db') /\ Consistent(tx')
  BY <1>1 DEF DeploymentInv
<1>5. Follows'
  BY <1>1 DEF Follows, SameRow
<1>6. Locked'
  BY <1>1 DEF Locked
<1>7. Prepared'
  BY <1>1, <1>2 DEF Prepared, Doing, Running
<1>8. Scripted'
  BY <1>1 DEF Scripted, DeploymentInv
<1>9. FailureExplained'
  BY <1>1 DEF FailureExplained, Rows
<1>10. DownOnlyWhenMigrated'
  BY <1>1 DEF DownOnlyWhenMigrated, DeploymentInv
<1> QED
  BY <1>3, <1>4, <1>5, <1>6, <1>7, <1>8, <1>9, <1>10 DEF DeploymentInv

\* A statement that succeeds: whatever it does, it does to the view of the
\* upgrade, which stays consistent and keeps following what is committed.
LEMMA ProceedInv ==
  ASSUME DeploymentInv, Running, at' = at + 1,
         UNCHANGED <<outcome, disturbed, db, clientVars, writes>>,
         UNCHANGED deployVars,
         tx' \in Database, Consistent(tx'), Follows',
         \A s \in tx'.schema \ db.schema : <<s.table, "write">> \in barred',
         barred' \subseteq Tables \X {"read", "write"},
         tx.schema \subseteq tx'.schema,
         Plan[at] \in SchemaSteps => Plan[at] \in tx'.schema,
         \A table \in Rows, column \in People :
            Orphans(tx', table, column) \subseteq Orphans(tx, table, column),
         (~disturbed /\ Plan[at].do = "insert_legacy") =>
            Orphans(tx', Table, Plan[at].column) = {},
         Plan[at].do = "find_orphans" =>
            tx' = tx /\ found' = Orphans(tx, Table, Plan[at].column),
         Plan[at].do = "find_duplicates" =>
            tx' = tx /\ found' = Duplicates(tx, Table),
         Plan[at].do = "normalise" => \A row \in tx'.links : row.teacher # row.student
  PROVE  DeploymentInv'
<1>1. /\ outcome' = outcome /\ disturbed' = disturbed /\ db' = db
      /\ held' = held /\ wants' = wants
      /\ script' = script /\ code' = code /\ server' = server
  BY DEF clientVars, deployVars
<1>2. at \in 1..Len(Plan) /\ Len(Plan) = 34
  BY PlanLength DEF Running
<1>3. DeploymentTypeOK'
  <2>1. at' \in 0..Len(Plan) + 1
    BY <1>2
  <2> QED
    BY <1>1, <2>1 DEF DeploymentInv, DeploymentTypeOK
<1>4. Consistent(db')
  BY <1>1 DEF DeploymentInv
<1>5. Locked'
  BY <1>1, <1>2 DEF Locked
<1>6. Prepared'
  <2>1. ASSUME NEW i \in 1..Len(Plan), i < at'
        PROVE  Plan[i] \in SchemaSteps => Plan[i] \in tx'.schema
    <3>1. i < at \/ i = at
      BY <1>2, <2>1
    <3> QED
      BY <3>1 DEF DeploymentInv, Prepared
  <2>2. ASSUME NEW i \in 1..Len(Plan), i < at', ~disturbed',
               Plan[i].do = "insert_legacy"
        PROVE  Orphans(tx', Plan[i].table, Plan[i].column) = {}
    <3>1. i < at \/ i = at
      BY <1>2, <2>2
    <3>2. CASE i = at
      BY <1>1, <2>2, <3>2 DEF Table
    <3>3. CASE i < at
      <4>1. Orphans(tx, Plan[i].table, Plan[i].column) = {}
        BY <1>1, <2>2, <3>3 DEF DeploymentInv, Prepared
      <4>2. Plan[i].table \in Rows /\ Plan[i].column \in People
        BY <2>2, PlanOrder
      <4> QED
        BY <4>1, <4>2
    <3> QED
      BY <3>1, <3>2, <3>3
  <2>3. ASSUME at' \in 1..Len(Plan), Plan[at'].do = "insert_legacy"
        PROVE  /\ found' \subseteq Persons
               /\ found' = Orphans(tx', Plan[at'].table, Plan[at'].column)
    <3>1. Plan[at' - 1] = On("find_orphans", Plan[at'].table, Plan[at'].column)
          /\ Plan[at'].table \in Rows /\ Plan[at'].column \in People
      BY <2>3, PlanOrder
    <3>2. at' - 1 = at
      BY <1>2
    <3>3. Plan[at].do = "find_orphans" /\ Plan[at].table = Plan[at'].table
          /\ Plan[at].column = Plan[at'].column
      BY <3>1, <3>2 DEF On
    <3>4. found' = Orphans(tx', Plan[at'].table, Plan[at'].column)
      BY <3>3 DEF Table
    <3> QED
      BY <3>1, <3>4, OrphansAreKnown
  <2>4. ASSUME at' \in 1..Len(Plan), Plan[at'].do = "delete_duplicates"
        PROVE  found' = Duplicates(tx', Plan[at'].table)
    <3>1. Plan[at' - 1] = On("find_duplicates", Plan[at'].table, "all")
      BY <2>4, PlanOrder
    <3>2. at' - 1 = at
      BY <1>2
    <3>3. Plan[at].do = "find_duplicates" /\ Plan[at].table = Plan[at'].table
      BY <3>1, <3>2 DEF On
    <3> QED
      BY <3>3 DEF Table
  <2>5. ASSUME at' \in 1..Len(Plan), Plan[at'].do = "checks"
        PROVE  \A row \in tx'.links : row.teacher # row.student
    <3>1. at' = 34
      BY <2>5, KindsAt
    <3>2. at = 33
      BY <1>2, <3>1
    <3> QED
      BY <3>2, PlanKinds
  <2> QED
    BY <2>1, <2>2, <2>3, <2>4, <2>5 DEF Prepared, Doing, Running, Table
<1>7. Scripted'
  <2>1. at # 0 /\ at' # 0
    BY <1>2
  <2> QED
    BY <1>1, <2>1 DEF Scripted, DeploymentInv
<1>8. FailureExplained' /\ DownOnlyWhenMigrated'
  BY <1>1 DEF FailureExplained, DownOnlyWhenMigrated, DeploymentInv
<1> QED
  BY <1>3, <1>4, <1>5, <1>6, <1>7, <1>8 DEF DeploymentInv

\* A statement that only reads, or finds its work done.
LEMMA SameViewInv ==
  ASSUME DeploymentInv, Running, UNCHANGED deployVars,
         Proceed(tx), UNCHANGED barred,
         Plan[at] \in SchemaSteps => Plan[at] \in tx.schema,
         (~disturbed /\ Plan[at].do = "insert_legacy") =>
            Orphans(tx, Table, Plan[at].column) = {},
         Plan[at].do = "find_orphans" => found' = Orphans(tx, Table, Plan[at].column),
         Plan[at].do = "find_duplicates" => found' = Duplicates(tx, Table),
         Plan[at].do # "normalise"
  PROVE  DeploymentInv'
<1>1. /\ tx' = tx /\ at' = at + 1 /\ db' = db /\ barred' = barred
      /\ UNCHANGED <<outcome, disturbed, db, clientVars, writes>>
  BY DEF Proceed
<1>2. tx' \in Database /\ Consistent(tx') /\ barred' \subseteq Tables \X {"read", "write"}
  BY <1>1 DEF DeploymentInv, DeploymentTypeOK
<1>3. Follows'
  BY <1>1 DEF DeploymentInv, Follows
<1>4. \A s \in tx'.schema \ db.schema : <<s.table, "write">> \in barred'
  BY <1>1 DEF DeploymentInv, Locked
<1> QED
  BY <1>1, <1>2, <1>3, <1>4, ProceedInv

\* A statement that changes the schema and no row.
LEMMA SchemaStepInv ==
  ASSUME DeploymentInv, Running, UNCHANGED <<found, deployVars>>,
         Plan[at] \in SchemaSteps,
         Proceed([tx EXCEPT !.schema = @ \union {Plan[at]}]),
         barred \subseteq barred', barred' \subseteq Tables \X {"read", "write"},
         Plan[at] \notin tx.schema => <<Table, "write">> \in barred',
         Plan[at].do = "unique" => Duplicates(tx, Table) = {},
         Plan[at].do = "foreign_key" => Orphans(tx, Table, Plan[at].column) = {},
         Plan[at].do # "columns",
         Plan[at].do = "checks" =>
            /\ On("columns", "links", "all") \in tx.schema
            /\ \A row \in tx.links : row.teacher # row.student
  PROVE  DeploymentInv'
<1>1. /\ tx' = [tx EXCEPT !.schema = @ \union {Plan[at]}] /\ at' = at + 1
      /\ UNCHANGED <<outcome, disturbed, db, clientVars, writes>>
      /\ UNCHANGED deployVars
  BY DEF Proceed
<1>2. tx \in Database /\ Consistent(tx)
  BY DEF DeploymentInv, DeploymentTypeOK
<1>3. /\ tx'.users = tx.users /\ tx'.links = tx.links /\ tx'.lessons = tx.lessons
      /\ tx'.revision = tx.revision /\ tx'.schema = tx.schema \union {Plan[at]}
  BY <1>1, <1>2 DEF Database
<1>4. tx' \in Database
  BY <1>1, <1>2 DEF Database
<1>5. \A table \in Rows : tx'[table] = tx[table]
  BY <1>2, <1>3, <1>4, DatabaseFields DEF Rows
<1>6. \A table \in Rows :
        /\ Duplicates(tx', table) = Duplicates(tx, table)
        /\ \A column \in People : Orphans(tx', table, column) = Orphans(tx, table, column)
  BY <1>3, <1>5 DEF Duplicates, Orphans
<1>7. Plan[at].do \in Exclusive \union {"foreign_key"}
  BY SchemaStepsAre DEF Running
<1>8. Consistent(tx')
  <2>1. ASSUME NEW table \in Rows
        PROVE  /\ \A row, other \in tx'[table] : row.id = other.id => row = other
               /\ On("unique", table, "all") \in tx'.schema => Duplicates(tx', table) = {}
    <3>1. \A row, other \in tx[table] : row.id = other.id => row = other
      BY <1>2, <2>1 DEF Consistent, Rows
    <3>2. CASE On("unique", table, "all") \in tx.schema
      BY <1>2, <1>5, <1>6, <2>1, <3>1, <3>2 DEF Consistent, Rows
    <3>3. CASE On("unique", table, "all") = Plan[at]
      <4>1. Plan[at].do = "unique" /\ Table = table
        BY <3>3 DEF On, Table
      <4> QED
        BY <1>5, <1>6, <3>1, <4>1
    <3> QED
      BY <1>3, <1>5, <3>1, <3>2, <3>3
  <2>2. ASSUME NEW table \in Rows, NEW column \in People,
               On("foreign_key", table, column) \in tx'.schema
        PROVE  Orphans(tx', table, column) = {}
    <3>1. CASE On("foreign_key", table, column) \in tx.schema
      BY <1>2, <1>6, <3>1 DEF Consistent, Rows, People
    <3>2. CASE On("foreign_key", table, column) = Plan[at]
      <4>1. Plan[at].do = "foreign_key" /\ Table = table /\ Plan[at].column = column
        BY <3>2 DEF On, Table
      <4> QED
        BY <1>6, <4>1
    <3> QED
      BY <1>3, <2>2, <3>1, <3>2
  <2>3. On("columns", "links", "all") \in tx'.schema <=>
            On("columns", "links", "all") \in tx.schema
    BY <1>3 DEF On
  <2>4. \A row \in tx'.links :
            row.status # Null <=> On("columns", "links", "all") \in tx'.schema
    BY <1>2, <1>3, <2>3 DEF Consistent
  <2>5. On("checks", "links", "all") \in tx'.schema =>
            /\ On("columns", "links", "all") \in tx'.schema
            /\ \A row \in tx'.links : row.teacher # row.student
    <3>1. On("checks", "links", "all") = Plan[at] => Plan[at].do = "checks"
      BY DEF On
    <3> QED
      BY <1>2, <1>3, <3>1 DEF Consistent
  <2>6. \A i \in 1..Len(Plan) :
            (i < FirstOf(tx'.revision) /\ Plan[i] \in SchemaSteps) => Plan[i] \in tx'.schema
    BY <1>2, <1>3 DEF Consistent
  <2> QED
    BY <2>1, <2>2, <2>4, <2>5, <2>6 DEF Consistent, Rows, People
<1>9. Follows'
  BY <1>1, <1>3 DEF DeploymentInv, Follows
<1>10. \A s \in tx'.schema \ db.schema : <<s.table, "write">> \in barred'
  BY <1>3 DEF DeploymentInv, Locked, Table
<1>11. /\ Plan[at].do # "insert_legacy" /\ Plan[at].do # "find_orphans"
       /\ Plan[at].do # "find_duplicates" /\ Plan[at].do # "normalise"
  BY <1>7 DEF Exclusive
<1> QED
  BY <1>1, <1>3, <1>4, <1>6, <1>8, <1>9, <1>10, <1>11, ProceedInv

-----------------------------------------------------------------------------
(* One lemma per statement.                                                *)

\* What the SELECT finds is what the next statement takes.
LEMMA FindOrphansInv ==
  DeploymentInv /\ FindOrphans /\ UNCHANGED deployVars => DeploymentInv'
<1> SUFFICES ASSUME DeploymentInv, FindOrphans, UNCHANGED deployVars
             PROVE  DeploymentInv'
  OBVIOUS
<1>1. Running /\ Plan[at].do = "find_orphans" /\ Proceed(tx) /\ UNCHANGED barred
      /\ found' = Orphans(tx, Table, Plan[at].column)
  BY DEF FindOrphans, Doing
<1>2. Plan[at] \notin SchemaSteps
  BY <1>1, SchemaStepsAre DEF Running, Exclusive
<1> QED
  BY <1>1, <1>2, SameViewInv

\* The same of the rows that share a key.
LEMMA FindDuplicatesInv ==
  DeploymentInv /\ FindDuplicates /\ UNCHANGED deployVars => DeploymentInv'
<1> SUFFICES ASSUME DeploymentInv, FindDuplicates, UNCHANGED deployVars
             PROVE  DeploymentInv'
  OBVIOUS
<1>1. Running /\ Plan[at].do = "find_duplicates" /\ Proceed(tx) /\ UNCHANGED barred
      /\ found' = Duplicates(tx, Table)
  BY DEF FindDuplicates, Doing
<1>2. Plan[at] \notin SchemaSteps
  BY <1>1, SchemaStepsAre DEF Running, Exclusive
<1> QED
  BY <1>1, <1>2, SameViewInv

\* What was repaired for a column stays repaired while nobody interferes.
LEMMA StillRepaired ==
  ASSUME DeploymentInv, Running, ~disturbed,
         Plan[at].do \in {"validate_users", "foreign_key"}
  PROVE  Orphans(tx, Table, Plan[at].column) = {}
<1>1. at \in 1..Len(Plan)
  BY DEF Running
<1>2. PICK j \in 1..Len(Plan) :
        j < at /\ Plan[j] = On("insert_legacy", Table, Plan[at].column)
  BY <1>1, PlanRepairsFirst DEF Table
<1>3. Plan[j].do = "insert_legacy" /\ Plan[j].table = Table
      /\ Plan[j].column = Plan[at].column
  BY <1>2 DEF On
<1> QED
  BY <1>2, <1>3 DEF DeploymentInv, Prepared

\* Rows that share a key in the upgrade's view share it in the database.
LEMMA DuplicatesAreCommitted ==
  ASSUME DeploymentInv, NEW table \in Rows, Duplicates(tx, table) # {}
  PROVE  Duplicates(db, table) # {}
<1>1. db \in Database /\ tx \in Database /\ Follows
  BY DEF DeploymentInv, DeploymentTypeOK
<1>2. \A row \in tx[table] : \E old \in db[table] : SameRow(table, row, old)
  <2>1. CASE table = "links"
    BY <1>1, <2>1, DatabaseFields DEF Follows
  <2>2. CASE table = "lessons"
    BY <1>1, <2>2, DatabaseFields DEF Follows, SameRow
  <2> QED
    BY <2>1, <2>2 DEF Rows
<1> QED
  BY <1>2, DuplicatesFollow

\* Orphans can only be left where somebody wrote after the repair.
LEMMA ValidateUserRefsInv ==
  DeploymentInv /\ ValidateUserRefs /\ UNCHANGED deployVars => DeploymentInv'
<1> SUFFICES ASSUME DeploymentInv, ValidateUserRefs, UNCHANGED deployVars
             PROVE  DeploymentInv'
  OBVIOUS
<1>1. Running /\ Plan[at].do = "validate_users"
      /\ Unless(Orphans(tx, Table, Plan[at].column) # {}, tx)
  BY DEF ValidateUserRefs, Doing
<1>2. at # 0 /\ disturbed \in BOOLEAN
  BY <1>1 DEF Running, DeploymentInv, DeploymentTypeOK
<1>3. CASE Orphans(tx, Table, Plan[at].column) # {}
  <2>1. disturbed /\ Fail /\ disturbed' = disturbed
    BY <1>1, <1>3, StillRepaired DEF Unless
  <2> QED
    BY <1>2, <2>1, FailInv
<1>4. CASE Orphans(tx, Table, Plan[at].column) = {}
  <2>1. Proceed(tx) /\ UNCHANGED <<found, barred>>
    BY <1>1, <1>4 DEF Unless
  <2>2. Plan[at] \notin SchemaSteps
    BY <1>1, SchemaStepsAre DEF Running, Exclusive
  <2> QED
    BY <1>1, <2>1, <2>2, SameViewInv
<1> QED
  BY <1>3, <1>4

\* It fails for rows that are committed.
LEMMA ValidateUniqueInv ==
  DeploymentInv /\ ValidateUnique /\ UNCHANGED deployVars => DeploymentInv'
<1> SUFFICES ASSUME DeploymentInv, ValidateUnique, UNCHANGED deployVars
             PROVE  DeploymentInv'
  OBVIOUS
<1>1. Running /\ Plan[at].do = "validate_unique"
      /\ Unless(Duplicates(tx, Table) # {}, tx)
  BY DEF ValidateUnique, Doing
<1>2. at # 0 /\ disturbed \in BOOLEAN /\ Table \in Rows
  BY <1>1, PlanOrder DEF Running, DeploymentInv, DeploymentTypeOK, Table
<1>3. CASE Duplicates(tx, Table) # {}
  <2>1. Fail /\ disturbed' = disturbed /\ Duplicates(db, Table) # {}
    BY <1>1, <1>2, <1>3, DuplicatesAreCommitted DEF Unless
  <2> QED
    BY <1>2, <2>1, FailInv
<1>4. CASE Duplicates(tx, Table) = {}
  <2>1. Proceed(tx) /\ UNCHANGED <<found, barred>>
    BY <1>1, <1>4 DEF Unless
  <2>2. Plan[at] \notin SchemaSteps
    BY <1>1, SchemaStepsAre DEF Running, Exclusive
  <2> QED
    BY <1>1, <2>1, <2>2, SameViewInv
<1> QED
  BY <1>3, <1>4

\* It fails for any row found, and what is found is committed unless somebody
\* interferes.
LEMMA DeleteDuplicatesInv ==
  DeploymentInv /\ DeleteDuplicates /\ UNCHANGED deployVars => DeploymentInv'
<1> SUFFICES ASSUME DeploymentInv, DeleteDuplicates, UNCHANGED deployVars
             PROVE  DeploymentInv'
  OBVIOUS
<1>1. Running /\ Plan[at].do = "delete_duplicates" /\ Unless(found # {}, tx)
  BY DEF DeleteDuplicates, Doing
<1>2. at # 0 /\ disturbed \in BOOLEAN /\ Table \in Rows
  BY <1>1, PlanOrder DEF Running, DeploymentInv, DeploymentTypeOK, Table
<1>3. CASE found # {}
  <2>1. Fail /\ disturbed' = disturbed
    BY <1>1, <1>3 DEF Unless
  <2>2. ~disturbed => found = Duplicates(tx, Table)
    BY <1>1 DEF DeploymentInv, Prepared, Doing
  <2>3. ~disturbed => Duplicates(db, Table) # {}
    BY <1>2, <1>3, <2>2, DuplicatesAreCommitted
  <2> QED
    BY <1>2, <2>1, <2>3, FailInv
<1>4. CASE found = {}
  <2>1. Proceed(tx) /\ UNCHANGED <<found, barred>>
    BY <1>1, <1>4 DEF Unless
  <2>2. Plan[at] \notin SchemaSteps
    BY <1>1, SchemaStepsAre DEF Running, Exclusive
  <2> QED
    BY <1>1, <2>1, <2>2, SameViewInv
<1> QED
  BY <1>3, <1>4

\* More accounts and fewer rows break no constraint.
LEMMA ConsistentShrink ==
  ASSUME NEW view \in Database, Consistent(view), NEW next \in Database,
         next.schema = view.schema, next.revision = view.revision,
         view.users \subseteq next.users,
         next.links \subseteq view.links, next.lessons \subseteq view.lessons
  PROVE  /\ Consistent(next)
         /\ \A table \in Rows, column \in People :
                Orphans(next, table, column) \subseteq Orphans(view, table, column)
<1>1. \A table \in Rows : next[table] \subseteq view[table]
  BY DatabaseFields DEF Rows
<1>2. \A table \in Rows, column \in People :
        Orphans(next, table, column) \subseteq Orphans(view, table, column)
  BY <1>1 DEF Orphans
<1>3. \A table \in Rows : Duplicates(next, table) \subseteq Duplicates(view, table)
  BY <1>1 DEF Duplicates
<1>4. ASSUME NEW table \in Rows
      PROVE  /\ \A row, other \in next[table] : row.id = other.id => row = other
             /\ On("unique", table, "all") \in next.schema => Duplicates(next, table) = {}
             /\ \A column \in People :
                    On("foreign_key", table, column) \in next.schema
                        => Orphans(next, table, column) = {}
  BY <1>1, <1>2, <1>3, <1>4 DEF Consistent, Rows, People
<1>5. /\ \A row \in next.links :
            row.status # Null <=> On("columns", "links", "all") \in next.schema
      /\ On("checks", "links", "all") \in next.schema =>
            /\ On("columns", "links", "all") \in next.schema
            /\ \A row \in next.links : row.teacher # row.student
      /\ \A i \in 1..Len(Plan) :
            (i < FirstOf(next.revision) /\ Plan[i] \in SchemaSteps) => Plan[i] \in next.schema
  BY DEF Consistent
<1> QED
  BY <1>2, <1>4, <1>5 DEF Consistent, Rows, People

\* An account can only be there already when somebody logged in.
LEMMA InsertLegacyUsersInv ==
  DeploymentInv /\ InsertLegacyUsers /\ UNCHANGED deployVars => DeploymentInv'
<1> SUFFICES ASSUME DeploymentInv, InsertLegacyUsers, UNCHANGED deployVars
             PROVE  DeploymentInv'
  OBVIOUS
<1>1. Running /\ Plan[at].do = "insert_legacy" /\ Doing("insert_legacy")
      /\ Unless(found \intersect tx.users # {}, [tx EXCEPT !.users = @ \union found])
  BY DEF InsertLegacyUsers, Doing
<1>2. at # 0 /\ disturbed \in BOOLEAN /\ Table \in Rows /\ Plan[at].column \in People
  BY <1>1, PlanOrder DEF Running, DeploymentInv, DeploymentTypeOK, Table
<1>3. /\ found \subseteq Persons
      /\ ~disturbed => found = Orphans(tx, Table, Plan[at].column)
  BY <1>1 DEF DeploymentInv, Prepared
<1>4. CASE found \intersect tx.users # {}
  <2>1. Fail /\ disturbed' = disturbed
    BY <1>1, <1>4 DEF Unless
  <2>2. disturbed
    BY <1>3, <1>4 DEF Orphans
  <2> QED
    BY <1>2, <2>1, <2>2, FailInv
<1>5. CASE found \intersect tx.users = {}
  <2>1. /\ tx' = [tx EXCEPT !.users = @ \union found] /\ at' = at + 1
        /\ UNCHANGED <<outcome, disturbed, db, clientVars, writes>>
        /\ UNCHANGED <<found, barred>>
    BY <1>1, <1>5 DEF Unless, Proceed
  <2>2. tx \in Database /\ Consistent(tx)
    BY DEF DeploymentInv, DeploymentTypeOK
  <2>3. /\ tx'.users = tx.users \union found /\ tx'.links = tx.links
        /\ tx'.lessons = tx.lessons /\ tx'.schema = tx.schema
        /\ tx'.revision = tx.revision
    BY <2>1, <2>2 DEF Database
  <2>4. tx' \in Database
    BY <1>3, <2>1, <2>2 DEF Database
  <2>5. Consistent(tx') /\ \A table \in Rows, column \in People :
            Orphans(tx', table, column) \subseteq Orphans(tx, table, column)
    BY <2>2, <2>3, <2>4, ConsistentShrink
  <2>6. Follows'
    BY <2>1, <2>3 DEF DeploymentInv, Follows
  <2>7. /\ \A s \in tx'.schema \ db.schema : <<s.table, "write">> \in barred'
        /\ barred' \subseteq Tables \X {"read", "write"}
    BY <2>1, <2>3 DEF DeploymentInv, DeploymentTypeOK, Locked
  <2>8. Plan[at] \notin SchemaSteps
    BY <1>1, SchemaStepsAre DEF Running, Exclusive
  <2>9. ~disturbed => Orphans(tx', Table, Plan[at].column) = {}
    <3>1. tx'[Table] = tx[Table]
      BY <1>2, <2>2, <2>3, <2>4, DatabaseFields DEF Rows
    <3> QED
      BY <1>3, <2>3, <3>1 DEF Orphans
  <2> QED
    BY <1>1, <2>1, <2>3, <2>4, <2>5, <2>6, <2>7, <2>8, <2>9, ProceedInv
<1> QED
  BY <1>4, <1>5

\* The relations of one person are the only rows that go.
LEMMA NormaliseRelationsInv ==
  DeploymentInv /\ NormaliseRelations /\ UNCHANGED deployVars => DeploymentInv'
<1> SUFFICES ASSUME DeploymentInv, NormaliseRelations, UNCHANGED deployVars
             PROVE  DeploymentInv'
  OBVIOUS
<1>1. /\ Running /\ Plan[at].do = "normalise" /\ UNCHANGED <<found, barred>>
      /\ tx' = [tx EXCEPT !.links = {row \in @ : row.teacher # row.student}]
      /\ at' = at + 1 /\ UNCHANGED <<outcome, disturbed, db, clientVars, writes>>
  BY DEF NormaliseRelations, Doing, Proceed
<1>2. tx \in Database /\ db \in Database /\ Consistent(tx) /\ Follows
  BY DEF DeploymentInv, DeploymentTypeOK
<1>3. /\ tx'.links = {row \in tx.links : row.teacher # row.student}
      /\ tx'.users = tx.users /\ tx'.lessons = tx.lessons
      /\ tx'.schema = tx.schema /\ tx'.revision = tx.revision
  BY <1>1, <1>2 DEF Database
<1>4. tx' \in Database
  BY <1>1, <1>2 DEF Database
<1>5. Consistent(tx') /\ \A table \in Rows, column \in People :
        Orphans(tx', table, column) \subseteq Orphans(tx, table, column)
  BY <1>2, <1>3, <1>4, ConsistentShrink
<1>6. Follows'
  <2>1. \A row \in tx'.links : \E old \in db.links : SameRow("links", row, old)
    BY <1>2, <1>3 DEF Follows
  <2>2. ASSUME NEW old \in db.links, old.teacher # old.student
        PROVE  \E row \in tx'.links : SameRow("links", row, old)
    <3>1. PICK row \in tx.links : SameRow("links", row, old)
      BY <1>2, <2>2 DEF Follows
    <3> QED
      BY <1>3, <2>2, <3>1 DEF SameRow
  <2> QED
    BY <1>1, <1>2, <1>3, <2>1, <2>2 DEF Follows
<1>7. /\ \A s \in tx'.schema \ db.schema : <<s.table, "write">> \in barred'
      /\ barred' \subseteq Tables \X {"read", "write"}
  BY <1>1, <1>3 DEF DeploymentInv, DeploymentTypeOK, Locked
<1>8. Plan[at] \notin SchemaSteps
  BY <1>1, SchemaStepsAre DEF Running, Exclusive
<1>9. \A row \in tx'.links : row.teacher # row.student
  BY <1>3
<1> QED
  BY <1>1, <1>3, <1>4, <1>5, <1>6, <1>7, <1>8, <1>9, ProceedInv

\* A change of the schema with its lock.
LEMMA AlterTableInv ==
  ASSUME NEW do \in {"timestamps", "text_id", "homework_key"},
         DeploymentInv, AlterTable(do), UNCHANGED deployVars
  PROVE  DeploymentInv'
<1>1. /\ Running /\ Plan[at].do \in {"timestamps", "text_id", "homework_key"}
      /\ barred' = IF Asks(Table)
                   THEN barred \union ({Table} \X {"read", "write"}) ELSE barred
      /\ Proceed([tx EXCEPT !.schema = @ \union {Plan[at]}])
      /\ UNCHANGED found
  BY DEF AlterTable, Doing
<1>2. Plan[at] \in SchemaSteps /\ Plan[at].do \in Exclusive
  BY <1>1, SchemaStepsAre DEF Running, Exclusive
<1>3. Table \in Tables /\ barred \subseteq Tables \X {"read", "write"}
  BY <1>1, PlanTyped DEF Statement, Table, Running, DeploymentInv, DeploymentTypeOK
<1>4. barred \subseteq barred' /\ barred' \subseteq Tables \X {"read", "write"}
  BY <1>1, <1>3
<1>5. Plan[at] \notin tx.schema => <<Table, "write">> \in barred'
  BY <1>1, <1>2 DEF Asks
<1> QED
  BY <1>1, <1>2, <1>4, <1>5, SchemaStepInv

\* The key holds in the view of the upgrade, and its table is barred.
LEMMA CreateForeignKeyInv ==
  DeploymentInv /\ CreateForeignKey /\ UNCHANGED deployVars => DeploymentInv'
<1> SUFFICES ASSUME DeploymentInv, CreateForeignKey, UNCHANGED deployVars
             PROVE  DeploymentInv'
  OBVIOUS
<1>1. Running /\ Plan[at].do = "foreign_key"
  BY DEF CreateForeignKey, Doing
<1>2. at # 0 /\ disturbed \in BOOLEAN /\ Table \in Rows /\ Plan[at].column \in People
      /\ barred \subseteq Tables \X {"read", "write"}
  BY <1>1, PlanOrder DEF Running, DeploymentInv, DeploymentTypeOK, Table
<1>3. Plan[at] \in SchemaSteps
  BY <1>1, SchemaStepsAre DEF Running
<1>4. CASE Plan[at] \in tx.schema
  <2>1. Proceed(tx) /\ UNCHANGED <<found, barred>>
    BY <1>4 DEF CreateForeignKey
  <2> QED
    BY <1>1, <1>4, <2>1, SameViewInv
<1>5. CASE Plan[at] \notin tx.schema /\ Orphans(tx, Table, Plan[at].column) # {}
  <2>1. Fail /\ disturbed' = disturbed /\ disturbed
    BY <1>1, <1>5, StillRepaired DEF CreateForeignKey
  <2> QED
    BY <1>2, <2>1, FailInv
<1>6. CASE Plan[at] \notin tx.schema /\ Orphans(tx, Table, Plan[at].column) = {}
  <2>1. /\ barred' = barred \union ({Table, "users"} \X {"write"})
        /\ Proceed([tx EXCEPT !.schema = @ \union {Plan[at]}])
        /\ UNCHANGED found
    BY <1>6 DEF CreateForeignKey
  <2>2. /\ barred \subseteq barred' /\ barred' \subseteq Tables \X {"read", "write"}
        /\ <<Table, "write">> \in barred'
    BY <1>2, <2>1 DEF Tables, Rows
  <2> QED
    BY <1>1, <1>3, <1>6, <2>1, <2>2, SchemaStepInv
<1> QED
  BY <1>4, <1>5, <1>6

\* The same of the unique constraint.
LEMMA CreateUniqueInv ==
  DeploymentInv /\ CreateUnique /\ UNCHANGED deployVars => DeploymentInv'
<1> SUFFICES ASSUME DeploymentInv, CreateUnique, UNCHANGED deployVars
             PROVE  DeploymentInv'
  OBVIOUS
<1>1. Running /\ Plan[at].do = "unique"
  BY DEF CreateUnique, Doing
<1>2. at # 0 /\ disturbed \in BOOLEAN /\ Table \in Rows
      /\ barred \subseteq Tables \X {"read", "write"}
  BY <1>1, PlanOrder DEF Running, DeploymentInv, DeploymentTypeOK, Table
<1>3. Plan[at] \in SchemaSteps /\ Plan[at].do \in Exclusive
  BY <1>1, SchemaStepsAre DEF Running, Exclusive
<1>4. CASE Asks(Table) /\ Duplicates(tx, Table) # {}
  <2>1. Fail /\ disturbed' = disturbed /\ Duplicates(db, Table) # {}
    BY <1>2, <1>4, DuplicatesAreCommitted DEF CreateUnique
  <2> QED
    BY <1>2, <2>1, FailInv
<1>5. CASE ~(Asks(Table) /\ Duplicates(tx, Table) # {})
  <2>1. /\ barred' = IF Asks(Table)
                     THEN barred \union ({Table} \X {"read", "write"}) ELSE barred
        /\ Proceed([tx EXCEPT !.schema = @ \union {Plan[at]}])
        /\ UNCHANGED found
    BY <1>5 DEF CreateUnique
  <2>2. /\ barred \subseteq barred' /\ barred' \subseteq Tables \X {"read", "write"}
    BY <1>2, <2>1 DEF Tables, Rows
  <2>3. Asks(Table) <=> Plan[at] \notin tx.schema
    BY <1>1, <1>3 DEF Asks
  <2>4. Plan[at] \notin tx.schema => <<Table, "write">> \in barred'
    BY <2>1, <2>3
  <2>5. Duplicates(tx, Table) = {}
    <3>1. CASE Asks(Table)
      BY <1>5, <3>1
    <3>2. CASE Plan[at] \in tx.schema
      <4>1. Plan[at] = On("unique", Table, "all")
        BY <1>1, PlanTyped, PlanOrder DEF Running, Table
      <4> QED
        BY <1>2, <3>2, <4>1 DEF DeploymentInv, Consistent, Rows
    <3> QED
      BY <2>3, <3>1, <3>2
  <2> QED
    BY <1>1, <1>3, <2>1, <2>2, <2>4, <2>5, SchemaStepInv
<1> QED
  BY <1>4, <1>5

\* Nobody disturbed: no row is left for the checks to refuse.
LEMMA AddChecksInv ==
  DeploymentInv /\ AddChecks /\ UNCHANGED deployVars => DeploymentInv'
<1> SUFFICES ASSUME DeploymentInv, AddChecks, UNCHANGED deployVars
             PROVE  DeploymentInv'
  OBVIOUS
<1>1. Running /\ Plan[at].do = "checks" /\ Doing("checks")
  BY DEF AddChecks, Doing
<1>2. /\ at = 34 /\ at # 0 /\ disturbed \in BOOLEAN
      /\ barred \subseteq Tables \X {"read", "write"}
  BY <1>1, KindsAt DEF Running, DeploymentInv, DeploymentTypeOK
<1>3. Plan[at] \in SchemaSteps /\ Table \in Tables
  BY <1>1, SchemaStepsAre, PlanTyped DEF Running, Exclusive, Statement, Table
<1>4. On("columns", "links", "all") \in tx.schema
  <2>1. Plan[32] = On("columns", "links", "all") /\ 32 \in 1..Len(Plan)
    BY PlanListed, PlanLength
  <2>2. Plan[32].do = "columns"
    BY PlanKinds
  <2>3. Plan[32] \in SchemaSteps
    BY <2>1, <2>2, SchemaStepsAre DEF Exclusive
  <2> QED
    BY <1>2, <2>1, <2>3 DEF DeploymentInv, Prepared
<1>5. \A row \in tx.links : row.status # Null
  BY <1>4 DEF DeploymentInv, Consistent
<1>6. ~disturbed => \A row \in tx.links : row.teacher # row.student
  BY <1>1 DEF DeploymentInv, Prepared
<1>7. CASE \E row \in tx.links : row.teacher = row.student \/ row.status = Null
  <2>1. Fail /\ disturbed' = disturbed /\ disturbed
    BY <1>5, <1>6, <1>7 DEF AddChecks
  <2> QED
    BY <1>2, <2>1, FailInv
<1>8. CASE ~\E row \in tx.links : row.teacher = row.student \/ row.status = Null
  <2>1. /\ barred' = barred \union ({Table} \X {"read", "write"})
        /\ Proceed([tx EXCEPT !.schema = @ \union {Plan[at]}])
        /\ UNCHANGED found
    BY <1>8 DEF AddChecks
  <2>2. /\ barred \subseteq barred' /\ barred' \subseteq Tables \X {"read", "write"}
        /\ <<Table, "write">> \in barred'
    BY <1>2, <1>3, <2>1
  <2>3. \A row \in tx.links : row.teacher # row.student
    BY <1>8
  <2> QED
    BY <1>1, <1>3, <1>4, <2>1, <2>2, <2>3, SchemaStepInv
<1> QED
  BY <1>7, <1>8

\* Every row gets a status with the column.
LEMMA AddColumnsInv ==
  DeploymentInv /\ AddColumns /\ UNCHANGED deployVars => DeploymentInv'
<1> SUFFICES ASSUME DeploymentInv, AddColumns, UNCHANGED deployVars
             PROVE  DeploymentInv'
  OBVIOUS
<1> DEFINE step == On("columns", "links", "all")
           active(row) == [row EXCEPT !.status = "active"]
<1>1. /\ Running /\ Plan[at].do = "columns" /\ UNCHANGED found
      /\ barred' = IF Asks(Table)
                   THEN barred \union ({Table} \X {"read", "write"}) ELSE barred
      /\ tx' = [tx EXCEPT
                    !.schema = @ \union {Plan[at]},
                    !.links = IF Asks(Table) THEN {active(row) : row \in @} ELSE @]
      /\ at' = at + 1 /\ UNCHANGED <<outcome, disturbed, db, clientVars, writes>>
  BY DEF AddColumns, Doing, Proceed
<1>2. at = 32 /\ Plan[at] = step /\ Table = "links"
  <2>1. at = 32
    BY <1>1, KindsAt DEF Running
  <2>2. Plan[32] = step
    BY PlanListed
  <2>3. step.table = "links"
    BY DEF On
  <2> QED
    BY <2>1, <2>2, <2>3 DEF Table
<1>3. tx \in Database /\ db \in Database /\ Consistent(tx) /\ Follows
      /\ barred \subseteq Tables \X {"read", "write"}
  BY DEF DeploymentInv, DeploymentTypeOK
<1>4. Plan[at] \in SchemaSteps
  BY <1>1, SchemaStepsAre DEF Running, Exclusive
<1>5. Asks(Table) <=> step \notin tx.schema
  BY <1>1, <1>2 DEF Asks, Exclusive
<1>6. /\ tx'.links = IF Asks(Table) THEN {active(row) : row \in tx.links} ELSE tx.links
      /\ tx'.users = tx.users /\ tx'.lessons = tx.lessons
      /\ tx'.schema = tx.schema \union {step} /\ tx'.revision = tx.revision
  BY <1>1, <1>2, <1>3 DEF Database
<1>7. \A row \in tx.links :
        /\ active(row) \in LinkRow /\ active(row).status = "active"
        /\ active(row).id = row.id /\ active(row).teacher = row.teacher
        /\ active(row).student = row.student
  BY <1>3, DatabaseFields DEF LinkRow
<1> HIDE DEF active
<1>8. tx'.links \subseteq LinkRow
  BY <1>3, <1>6, <1>7, DatabaseFields
<1>9. tx' \in Database
  <2>1. tx'.schema \subseteq SchemaSteps
    BY <1>2, <1>3, <1>4, <1>6, DatabaseFields
  <2> QED
    BY <1>1, <1>3, <1>6, <1>8, <2>1 DEF Database
<1>10. \A row \in tx'.links : \E old \in tx.links :
        SameRow("links", row, old) /\ row \in {old, active(old)}
  BY <1>6, <1>7 DEF SameRow
<1>11. \A row \in tx'.links : row.status # Null
  <2>1. CASE Asks(Table)
    BY <1>6, <1>7, <2>1, NullIsNoStatus
  <2>2. CASE step \in tx.schema
    BY <1>3, <1>5, <1>6, <2>2 DEF Consistent
  <2> QED
    BY <1>5, <2>1, <2>2
<1>12. \A row \in tx'.links, other \in tx'.links : row.id = other.id => row = other
  <2> SUFFICES ASSUME NEW row \in tx'.links, NEW other \in tx'.links,
                      row.id = other.id
               PROVE  row = other
    OBVIOUS
  <2>1. \A one, two \in tx.links : one.id = two.id => one = two
    BY <1>3, DatabaseFields DEF Consistent
  <2>2. CASE Asks(Table)
    BY <1>6, <1>7, <2>1, <2>2
  <2>3. CASE ~Asks(Table)
    BY <1>6, <2>1, <2>3
  <2> QED
    BY <2>2, <2>3
<1>13. \A table \in Rows : \A row \in tx'[table] : \E old \in tx[table] :
        SameRow(table, row, old)
  <2>1. tx'["links"] = tx'.links /\ tx["links"] = tx.links
        /\ tx'["lessons"] = tx.lessons /\ tx["lessons"] = tx.lessons
    BY <1>3, <1>6, <1>9, DatabaseFields
  <2> QED
    BY <1>10, <2>1 DEF Rows, SameRow
<1>14. \A table \in Rows, column \in People :
        Orphans(tx', table, column) \subseteq Orphans(tx, table, column)
  <2>1. \A table \in Rows : \A row \in tx'[table] : row \in LinkRow \/ row \in LessonRow
    BY <1>9, DatabaseFields DEF Rows
  <2>2. \A table \in Rows : \A row \in tx[table] : row \in LinkRow \/ row \in LessonRow
    BY <1>3, DatabaseFields DEF Rows
  <2>3. \A table \in Rows, column \in People : \A row \in tx'[table] :
            \E old \in tx[table] : row[column] = old[column]
    BY <1>13, <2>1, <2>2, RowFields DEF SameRow, People
  <2> QED
    BY <1>6, <2>3, OrphansShrink
<1>15. Consistent(tx')
  <2>1. ASSUME NEW table \in Rows
        PROVE  /\ \A row, other \in tx'[table] : row.id = other.id => row = other
               /\ On("unique", table, "all") \in tx'.schema => Duplicates(tx', table) = {}
               /\ \A column \in People :
                    On("foreign_key", table, column) \in tx'.schema
                        => Orphans(tx', table, column) = {}
    <3>1. \A row, other \in tx'[table] : row.id = other.id => row = other
      <4>1. CASE table = "links"
        BY <1>9, <1>12, <4>1, DatabaseFields
      <4>2. CASE table = "lessons"
        BY <1>3, <1>6, <1>9, <4>2, DatabaseFields DEF Consistent
      <4> QED
        BY <4>1, <4>2 DEF Rows
    <3>2. On("unique", table, "all") \in tx'.schema => On("unique", table, "all") \in tx.schema
      BY <1>6 DEF On
    <3>3. On("unique", table, "all") \in tx'.schema => Duplicates(tx', table) = {}
      <4>1. On("unique", table, "all") \in tx.schema => Duplicates(tx, table) = {}
        BY <1>3 DEF Consistent, Rows
      <4>2. \A row \in tx'[table] : \E old \in tx[table] : SameRow(table, row, old)
        BY <1>13
      <4>3. Duplicates(tx', table) # {} => Duplicates(tx, table) # {}
        BY <4>2, DuplicatesFollow
      <4> QED
        BY <3>2, <4>1, <4>3
    <3>4. ASSUME NEW column \in People, On("foreign_key", table, column) \in tx'.schema
          PROVE  Orphans(tx', table, column) = {}
      <4>1. On("foreign_key", table, column) \in tx.schema
        BY <1>6, <3>4 DEF On
      <4>2. Orphans(tx, table, column) = {}
        BY <1>3, <4>1 DEF Consistent, Rows, People
      <4> QED
        BY <1>14, <4>2
    <3> QED
      BY <3>1, <3>3, <3>4
  <2>2. On("checks", "links", "all") \in tx'.schema =>
            /\ step \in tx'.schema
            /\ \A row \in tx'.links : row.teacher # row.student
    <3>1. On("checks", "links", "all") \in tx'.schema =>
                On("checks", "links", "all") \in tx.schema
      BY <1>6 DEF On
    <3>2. On("checks", "links", "all") \in tx.schema =>
                \A row \in tx.links : row.teacher # row.student
      BY <1>3 DEF Consistent
    <3> QED
      BY <1>6, <1>10, <3>1, <3>2 DEF SameRow
  <2>3. \A i \in 1..Len(Plan) :
            (i < FirstOf(tx'.revision) /\ Plan[i] \in SchemaSteps) => Plan[i] \in tx'.schema
    BY <1>3, <1>6 DEF Consistent
  <2> QED
    BY <1>6, <1>11, <2>1, <2>2, <2>3 DEF Consistent, Rows, People
<1>16. Follows'
  <2>1. \A row \in tx'.links : \E old \in db.links : SameRow("links", row, old)
    BY <1>3, <1>10 DEF Follows, SameRow
  <2>2. \A row \in tx.links : \E next \in tx'.links : SameRow("links", next, row)
    BY <1>6, <1>7 DEF SameRow
  <2>3. \A old \in db.links : old.teacher # old.student =>
            \E row \in tx'.links : SameRow("links", row, old)
    BY <1>3, <2>2 DEF Follows, SameRow
  <2> QED
    BY <1>1, <1>3, <1>6, <2>1, <2>3 DEF Follows
<1>17. \A s \in tx'.schema \ db.schema : <<s.table, "write">> \in barred'
  <2>1. step.table = "links"
    BY DEF On
  <2> QED
    BY <1>1, <1>2, <1>5, <1>6, <2>1 DEF DeploymentInv, Locked
<1>18. barred' \subseteq Tables \X {"read", "write"}
  BY <1>1, <1>2, <1>3 DEF Tables
<1> QED
  BY <1>1, <1>2, <1>6, <1>9, <1>14, <1>15, <1>16, <1>17, <1>18, ProceedInv

\* The whole plan is done when it commits.
LEMMA CommitUpgradeInv ==
  DeploymentInv /\ CommitUpgrade /\ UNCHANGED deployVars => DeploymentInv'
<1> SUFFICES ASSUME DeploymentInv, CommitUpgrade, UNCHANGED deployVars
             PROVE  DeploymentInv'
  OBVIOUS
<1>1. /\ at = Len(Plan) + 1 /\ at' = 0 /\ barred' = {} /\ outcome' = "done"
      /\ db' = [tx EXCEPT !.revision = LastRevision] /\ tx' = db'
      /\ disturbed' = disturbed /\ held' = held /\ wants' = wants
      /\ script' = script /\ code' = code /\ server' = server
  BY DEF CommitUpgrade, clientVars, deployVars
<1>2. Len(Plan) = 34
  BY PlanLength
<1>3. tx \in Database /\ Consistent(tx)
  BY DEF DeploymentInv, DeploymentTypeOK
<1>4. /\ db'.users = tx.users /\ db'.links = tx.links /\ db'.lessons = tx.lessons
      /\ db'.schema = tx.schema /\ db'.revision = LastRevision
  BY <1>1, <1>3 DEF Database
<1>5. db' \in Database
  BY <1>1, <1>3 DEF Database, LastRevision
<1>6. Consistent(db')
  <2>1. \A table \in Rows : db'[table] = tx[table]
    BY <1>3, <1>4, <1>5, DatabaseFields DEF Rows
  <2>2. \A table \in Rows :
            /\ Duplicates(db', table) = Duplicates(tx, table)
            /\ \A column \in People : Orphans(db', table, column) = Orphans(tx, table, column)
    BY <1>4, <2>1 DEF Duplicates, Orphans
  <2>3. \A i \in 1..Len(Plan) : Plan[i] \in SchemaSteps => Plan[i] \in tx.schema
    BY <1>1, <1>2 DEF DeploymentInv, Prepared
  <2>4. ASSUME NEW table \in Rows
        PROVE  /\ \A row, other \in db'[table] : row.id = other.id => row = other
               /\ On("unique", table, "all") \in db'.schema => Duplicates(db', table) = {}
               /\ \A column \in People :
                    On("foreign_key", table, column) \in db'.schema
                        => Orphans(db', table, column) = {}
    BY <1>3, <1>4, <2>1, <2>2, <2>4 DEF Consistent, Rows, People
  <2>5. /\ \A row \in db'.links :
            row.status # Null <=> On("columns", "links", "all") \in db'.schema
        /\ On("checks", "links", "all") \in db'.schema =>
            /\ On("columns", "links", "all") \in db'.schema
            /\ \A row \in db'.links : row.teacher # row.student
    BY <1>3, <1>4 DEF Consistent
  <2> QED
    BY <1>4, <2>3, <2>4, <2>5 DEF Consistent, Rows, People
<1>7. DeploymentTypeOK'
  <2>1. at' \in 0..Len(Plan) + 1
    BY <1>1, <1>2
  <2> QED
    BY <1>1, <1>5, <2>1 DEF DeploymentInv, DeploymentTypeOK
<1>8. Follows'
  BY <1>1 DEF Follows, SameRow
<1>9. Locked'
  BY <1>1 DEF Locked
<1>10. Prepared'
  BY <1>1, <1>2 DEF Prepared, Doing, Running
<1>11. Scripted'
  BY <1>1, <1>2, <1>4 DEF Scripted, DeploymentInv
<1>12. FailureExplained' /\ DownOnlyWhenMigrated'
  BY <1>1, <1>4 DEF FailureExplained, DownOnlyWhenMigrated
<1> QED
  BY <1>1, <1>6, <1>7, <1>8, <1>9, <1>10, <1>11, <1>12 DEF DeploymentInv

\* Together, the steps of the upgrade.
LEMMA UpgradeStepInv ==
  DeploymentInv /\ UpgradeStep /\ UNCHANGED deployVars => DeploymentInv'
BY FindOrphansInv, InsertLegacyUsersInv, ValidateUserRefsInv, FindDuplicatesInv,
   DeleteDuplicatesInv, ValidateUniqueInv, AlterTableInv, CreateForeignKeyInv,
   CreateUniqueInv, AddColumnsInv, NormaliseRelationsInv, AddChecksInv,
   CommitUpgradeInv
   DEF UpgradeStep, ConvertTimestamps, ConvertId, RenewHomeworkKey

-----------------------------------------------------------------------------
(* Everybody else.                                                         *)

\* A step that touches neither the database nor the upgrade.
LEMMA ElsewhereInv ==
  ASSUME DeploymentInv, UNCHANGED <<db, upgradeVars>>,
         disturbed' \in BOOLEAN, disturbed => disturbed',
         held' \subseteq Tables, wants' \in Tables \union {Null},
         script' \in Steps \union {"finished", "exited"},
         code' \in {"previous", "new"}, server' \in {"previous", "new", "down"},
         Scripted', DownOnlyWhenMigrated'
  PROVE  DeploymentInv'
<1>1. /\ db' = db /\ tx' = tx /\ at' = at /\ found' = found /\ barred' = barred
      /\ outcome' = outcome
  BY DEF upgradeVars
<1>2. DeploymentTypeOK'
  BY <1>1 DEF DeploymentInv, DeploymentTypeOK
<1>3. Consistent(db') /\ Consistent(tx')
  BY <1>1 DEF DeploymentInv
<1>4. Follows' /\ Locked'
  BY <1>1 DEF DeploymentInv, Follows, Locked
<1>5. Prepared'
  BY <1>1 DEF DeploymentInv, Prepared, Doing, Running, Table
<1>6. FailureExplained'
  BY <1>1 DEF DeploymentInv, FailureExplained
<1> QED
  BY <1>2, <1>3, <1>4, <1>5, <1>6 DEF DeploymentInv

\* The upgrade begins where the committed revision says.
LEMMA MigrateInv == DeploymentInv /\ Migrate => DeploymentInv'
<1> SUFFICES ASSUME DeploymentInv, Migrate PROVE DeploymentInv'
  OBVIOUS
<1>1. /\ at = 0 /\ tx' = db /\ at' = FirstOf(db.revision) /\ outcome' = "none"
      /\ disturbed' = FALSE /\ db' = db /\ barred' = barred /\ held' = held
      /\ wants' = wants /\ script' = "migrating" /\ code' = code /\ server' = server
      /\ script = "migrate"
  BY DEF Migrate, StartUpgrade, clientVars
<1>2. db \in Database /\ Consistent(db) /\ Len(Plan) = 34 /\ barred = {}
  BY <1>1, PlanLength DEF DeploymentInv, DeploymentTypeOK, Locked
<1>3. db.revision \in {0, 1, 2, 3} /\ at' \in {1, 3, 32, 35}
  BY <1>1, <1>2, DatabaseFields, FirstOfIs
<1>4. DeploymentTypeOK'
  <2>1. at' \in 0..Len(Plan) + 1
    BY <1>2, <1>3
  <2>2. disturbed' \in BOOLEAN
    BY <1>1
  <2>3. script' \in Steps \union {"finished", "exited"}
    BY <1>1 DEF Steps
  <2>4. outcome' \in {"none", "failed", "done"}
    BY <1>1
  <2>5. /\ held' \subseteq Tables /\ wants' \in Tables \union {Null}
        /\ barred' \subseteq Tables \X {"read", "write"}
        /\ code' \in {"previous", "new"} /\ server' \in {"previous", "new", "down"}
    BY <1>1 DEF DeploymentInv, DeploymentTypeOK
  <2> QED
    BY <1>1, <1>2, <2>1, <2>2, <2>3, <2>4, <2>5 DEF DeploymentTypeOK
<1>5. Consistent(db') /\ Consistent(tx')
  BY <1>1, <1>2
<1>6. Follows'
  BY <1>1 DEF Follows, SameRow
<1>7. Locked'
  BY <1>1, <1>2, <1>3 DEF Locked
<1>8. Prepared'
  <2>1. ASSUME NEW i \in 1..Len(Plan), i < at'
        PROVE  Plan[i] \in SchemaSteps => Plan[i] \in tx'.schema
    BY <1>1, <1>2, <2>1 DEF Consistent
  <2>2. ASSUME NEW i \in 1..Len(Plan), i < at', Plan[i].do = "insert_legacy"
        PROVE  Orphans(tx', Plan[i].table, Plan[i].column) = {}
    <3>1. Plan[i].table \in Rows /\ Plan[i].column \in People /\ i > 3
      BY <2>2, PlanOrder
    <3>2. at' \in {32, 35}
      BY <1>3, <2>2, <3>1
    <3>3. PICK j \in 1..31 : Plan[j] = On("foreign_key", Plan[i].table, Plan[i].column)
      BY <3>1, PlanHasKeys
    <3>4. Plan[j].do = "foreign_key" /\ j \in 1..Len(Plan) /\ j < at'
      BY <1>2, <3>2, <3>3 DEF On
    <3>5. Plan[j] \in SchemaSteps
      BY <3>4, SchemaStepsAre
    <3>6. Plan[j] \in db.schema
      BY <1>1, <1>2, <3>4, <3>5 DEF Consistent
    <3> QED
      BY <1>1, <1>2, <3>1, <3>3, <3>6 DEF Consistent, Rows, People
  <2>3. ~Doing("insert_legacy")' /\ ~Doing("delete_duplicates")' /\ ~Doing("checks")'
    <3>1. at' \in 1..Len(Plan) => Plan[at'].do \notin {"insert_legacy", "delete_duplicates", "checks"}
      BY <1>2, <1>3, KindsAt
    <3> QED
      BY <3>1 DEF Doing, Running
  <2> QED
    BY <2>1, <2>2, <2>3 DEF Prepared
<1>9. Scripted'
  BY <1>1, <1>3 DEF Scripted
<1>10. FailureExplained' /\ DownOnlyWhenMigrated'
  BY <1>1 DEF FailureExplained, DownOnlyWhenMigrated, DeploymentInv
<1> QED
  BY <1>4, <1>5, <1>6, <1>7, <1>8, <1>9, <1>10 DEF DeploymentInv

\* The steps of the script and of docker leave the database alone.
LEMMA ScriptStepInv ==
  ASSUME DeploymentInv,
         Pull \/ Build \/ MigrateReturns \/ RemovePrevious \/ StartBackend
            \/ BackendRestarts \/ Redeploy
  PROVE  DeploymentInv'
<1>1. /\ DeploymentTypeOK /\ Scripted /\ DownOnlyWhenMigrated
  BY DEF DeploymentInv
<1>2. CASE Pull
  <2>1. UNCHANGED <<db, upgradeVars, disturbed, held, wants, server>>
        /\ script = "pull" /\ script' = "build" /\ code' = "new"
    BY <1>2 DEF Pull, migrationVars, clientVars
  <2>2. at' = at /\ db' = db /\ outcome' = outcome
    BY <2>1 DEF upgradeVars
  <2>3. Scripted' /\ DownOnlyWhenMigrated'
    BY <1>1, <2>1, <2>2 DEF Scripted, DownOnlyWhenMigrated
  <2>4. script' \in Steps \union {"finished", "exited"}
    BY <2>1 DEF Steps
  <2> QED
    BY <1>1, <2>1, <2>3, <2>4, ElsewhereInv DEF DeploymentTypeOK
<1>3. CASE Build
  <2>1. UNCHANGED <<db, upgradeVars, disturbed, held, wants, code, server>>
        /\ script = "build" /\ script' \in {"migrate", "exited"}
    BY <1>3 DEF Build, migrationVars, clientVars
  <2>2. at' = at /\ db' = db /\ outcome' = outcome
    BY <2>1 DEF upgradeVars
  <2>3. Scripted' /\ DownOnlyWhenMigrated'
    BY <1>1, <2>1, <2>2 DEF Scripted, DownOnlyWhenMigrated
  <2>4. script' \in Steps \union {"finished", "exited"}
    BY <2>1 DEF Steps
  <2> QED
    BY <1>1, <2>1, <2>3, <2>4, ElsewhereInv DEF DeploymentTypeOK
<1>4. CASE MigrateReturns
  <2>1. UNCHANGED <<db, upgradeVars, disturbed, held, wants, code, server>>
        /\ script = "migrating" /\ at = 0
        /\ script' = IF outcome = "done" THEN "remove" ELSE "exited"
    BY <1>4 DEF MigrateReturns, migrationVars, clientVars
  <2>2. at' = at /\ db' = db /\ outcome' = outcome
    BY <2>1 DEF upgradeVars
  <2>3. Scripted' /\ DownOnlyWhenMigrated'
    BY <1>1, <2>1, <2>2 DEF Scripted, DownOnlyWhenMigrated
  <2>4. script' \in Steps \union {"finished", "exited"}
    BY <2>1 DEF Steps
  <2> QED
    BY <1>1, <2>1, <2>3, <2>4, ElsewhereInv DEF DeploymentTypeOK
<1>5. CASE RemovePrevious
  <2>1. /\ UNCHANGED <<db, upgradeVars, disturbed, code>>
        /\ script = "remove" /\ script' = "start" /\ server' \in {server, "down"}
        /\ held' \in {held, {}} /\ wants' \in {wants, Null}
    BY <1>5 DEF RemovePrevious, Stop, migrationVars, clientVars
  <2>2. at' = at /\ db' = db /\ outcome' = outcome
    BY <2>1 DEF upgradeVars
  <2>3. Scripted' /\ DownOnlyWhenMigrated'
    BY <1>1, <2>1, <2>2 DEF Scripted, DownOnlyWhenMigrated
  <2>4. script' \in Steps \union {"finished", "exited"}
    BY <2>1 DEF Steps
  <2> QED
    BY <1>1, <2>1, <2>3, <2>4, ElsewhereInv DEF DeploymentTypeOK
<1>6. CASE StartBackend
  <2>1. /\ UNCHANGED <<db, upgradeVars, disturbed, code>>
        /\ script = "start"
        /\ \/ script' = "finished" /\ server' = code
           \/ script' = "exited" /\ server' = server
        /\ held' \in {held, {}} /\ wants' \in {wants, Null}
    BY <1>6 DEF StartBackend, Stop, migrationVars, clientVars
  <2>2. at' = at /\ db' = db /\ outcome' = outcome
    BY <2>1 DEF upgradeVars
  <2>3. code \in {"previous", "new"}
    BY <1>1 DEF DeploymentTypeOK
  <2>4. Scripted' /\ DownOnlyWhenMigrated'
    BY <1>1, <2>1, <2>2, <2>3 DEF Scripted, DownOnlyWhenMigrated
  <2>5. script' \in Steps \union {"finished", "exited"}
    BY <2>1
  <2> QED
    BY <1>1, <2>1, <2>4, <2>5, ElsewhereInv DEF DeploymentTypeOK
<1>7. CASE BackendRestarts
  <2>1. /\ UNCHANGED <<db, upgradeVars, disturbed, script, code>>
        /\ server # "down" /\ server' = code /\ held' = {} /\ wants' = Null
    BY <1>7 DEF BackendRestarts, Stop
  <2>2. at' = at /\ db' = db /\ outcome' = outcome
    BY <2>1 DEF upgradeVars
  <2>3. code \in {"previous", "new"}
    BY <1>1 DEF DeploymentTypeOK
  <2>4. Scripted' /\ DownOnlyWhenMigrated'
    BY <1>1, <2>1, <2>2, <2>3 DEF Scripted, DownOnlyWhenMigrated
  <2> QED
    BY <1>1, <2>1, <2>4, ElsewhereInv DEF DeploymentTypeOK
<1>8. CASE Redeploy
  <2>1. UNCHANGED <<db, upgradeVars, disturbed, held, wants, code, server>>
        /\ script \in {"finished", "exited"} /\ script' = "pull"
    BY <1>8 DEF Redeploy, migrationVars, clientVars
  <2>2. at' = at /\ db' = db /\ outcome' = outcome
    BY <2>1 DEF upgradeVars
  <2>3. Scripted' /\ DownOnlyWhenMigrated'
    BY <1>1, <2>1, <2>2 DEF Scripted, DownOnlyWhenMigrated
  <2>4. script' \in Steps \union {"finished", "exited"}
    BY <2>1 DEF Steps
  <2> QED
    BY <1>1, <2>1, <2>3, <2>4, ElsewhereInv DEF DeploymentTypeOK
<1> QED
  BY <1>2, <1>3, <1>4, <1>5, <1>6, <1>7, <1>8

\* PostgreSQL ends either the upgrade or the transaction of the backend.
LEMMA ResolveDeadlockInv ==
  DeploymentInv /\ ResolveDeadlock /\ UNCHANGED deployVars => DeploymentInv'
<1> SUFFICES ASSUME DeploymentInv, ResolveDeadlock, UNCHANGED deployVars
             PROVE  DeploymentInv'
  OBVIOUS
<1>1. disturbed' = TRUE /\ at # 0
  BY PlanLength DEF ResolveDeadlock, Deadlocked, Asks, Running
<1>2. CASE Fail
  <2>1. disturbed' \in BOOLEAN /\ disturbed'
    BY <1>1
  <2> QED
    BY <1>1, <1>2, <2>1, FailInv
<1>3. CASE held' = {} /\ wants' = Null /\ UNCHANGED <<db, upgradeVars, writes>>
  <2>1. /\ DeploymentTypeOK /\ Scripted /\ DownOnlyWhenMigrated
        /\ script' = script /\ code' = code /\ server' = server
    BY DEF DeploymentInv, deployVars
  <2>2. disturbed' \in BOOLEAN /\ (disturbed => disturbed')
    BY <1>1
  <2>3. at' = at /\ db' = db /\ outcome' = outcome
    BY <1>3 DEF upgradeVars
  <2>4. Scripted' /\ DownOnlyWhenMigrated'
    BY <2>1, <2>3 DEF Scripted, DownOnlyWhenMigrated
  <2> QED
    BY <1>3, <2>1, <2>2, <2>4, ElsewhereInv DEF DeploymentTypeOK
<1> QED
  BY <1>2, <1>3 DEF ResolveDeadlock

\* A reader gets its table, waits for it, or leaves.
LEMMA ReadInv ==
  ASSUME DeploymentInv, (\E table \in Tables : ReadTable(table)) \/ EndTransaction,
         UNCHANGED deployVars
  PROVE  DeploymentInv'
<1>1. /\ DeploymentTypeOK /\ Scripted /\ DownOnlyWhenMigrated
      /\ script' = script /\ code' = code /\ server' = server
  BY DEF DeploymentInv, deployVars
<1>2. UNCHANGED <<db, upgradeVars, disturbed>>
  BY DEF ReadTable, EndTransaction
<1>3. held' \subseteq Tables /\ wants' \in Tables \union {Null}
  BY <1>1 DEF ReadTable, EndTransaction, DeploymentTypeOK
<1>4. at' = at /\ db' = db /\ outcome' = outcome
  BY <1>2 DEF upgradeVars
<1>5. Scripted' /\ DownOnlyWhenMigrated'
  BY <1>1, <1>4 DEF Scripted, DownOnlyWhenMigrated
<1> QED
  BY <1>1, <1>2, <1>3, <1>5, ElsewhereInv DEF DeploymentTypeOK

-----------------------------------------------------------------------------
(* Rows that others commit.                                                *)

\* Once somebody has written, the rows may be anything that is consistent.
LEMMA DisturbedInv ==
  ASSUME DeploymentInv, disturbed' = TRUE,
         UNCHANGED <<at, found, barred, outcome, clientVars>>, UNCHANGED deployVars,
         db' \in Database, tx' \in Database, Consistent(db'), Consistent(tx'),
         Follows', at = 0 => tx' = db',
         db'.schema = db.schema, tx'.schema = tx.schema, db'.revision = db.revision
  PROVE  DeploymentInv'
<1>1. /\ held' = held /\ wants' = wants /\ script' = script /\ code' = code
      /\ server' = server
  BY DEF clientVars, deployVars
<1>2. DeploymentTypeOK'
  <2>1. disturbed' \in BOOLEAN
    OBVIOUS
  <2> QED
    BY <1>1, <2>1 DEF DeploymentInv, DeploymentTypeOK
<1>3. Locked'
  BY DEF DeploymentInv, Locked
<1>4. Prepared'
  <2>1. \A i \in 1..Len(Plan) : (i < at' /\ Plan[i] \in SchemaSteps) => Plan[i] \in tx'.schema
    BY DEF DeploymentInv, Prepared
  <2>2. Doing("insert_legacy")' => found' \subseteq Persons
    BY DEF DeploymentInv, Prepared, Doing, Running
  <2> QED
    BY <2>1, <2>2 DEF Prepared
<1>5. Scripted' /\ FailureExplained' /\ DownOnlyWhenMigrated'
  BY <1>1 DEF DeploymentInv, Scripted, FailureExplained, DownOnlyWhenMigrated
<1> QED
  BY <1>2, <1>3, <1>4, <1>5 DEF DeploymentInv

\* A row that meets the constraints there are.
RowsOf(table) == IF table = "links" THEN LinkRow ELSE LessonRow
Meets(view, table, row) ==
    /\ \A other \in view[table] : other.id # row.id
    /\ On("unique", table, "all") \in view.schema =>
        \A other \in view[table] : ~SameKey(table, row, other)
    /\ \A column \in People :
        On("foreign_key", table, column) \in view.schema => row[column] \in view.users
    /\ table = "links" =>
        (row.status # Null <=> On("columns", "links", "all") \in view.schema)
    /\ (table = "links" /\ On("checks", "links", "all") \in view.schema) =>
        row.teacher # row.student

\* Such a row can be added.
LEMMA ConsistentGrow ==
  ASSUME NEW view \in Database, Consistent(view), NEW table \in Rows,
         NEW row \in RowsOf(table), Meets(view, table, row),
         NEW next, next = [view EXCEPT ![table] = @ \union {row}]
  PROVE  next \in Database /\ Consistent(next)
<1>1. /\ next.users = view.users /\ next.schema = view.schema
      /\ next.revision = view.revision
      /\ next[table] = view[table] \union {row}
      /\ \A t \in Rows : t # table => next[t] = view[t]
  BY DEF Database, Rows
<1>2. next \in Database
  BY DEF Database, Rows, RowsOf
<1>3. row.id \in Nat
  BY RowFields DEF RowsOf
<1>4. Duplicates(view, table) = {} /\ On("unique", table, "all") \in view.schema
        => Duplicates(next, table) = {}
  <2> SUFFICES ASSUME Duplicates(view, table) = {},
                      On("unique", table, "all") \in view.schema,
                      NEW one \in next[table], NEW two \in next[table],
                      SameKey(table, one, two), two.id < one.id
               PROVE  FALSE
    BY DEF Duplicates
  <2>1. \A other \in view[table] : ~SameKey(table, row, other) /\ ~SameKey(table, other, row)
    BY DEF Meets, SameKey
  <2>2. one = row /\ two = row
    BY <1>1, <2>1 DEF Duplicates
  <2> QED
    BY <1>3, <2>2
<1>5. ASSUME NEW t \in Rows
      PROVE  /\ \A one, two \in next[t] : one.id = two.id => one = two
             /\ On("unique", t, "all") \in next.schema => Duplicates(next, t) = {}
             /\ \A column \in People :
                    On("foreign_key", t, column) \in next.schema
                        => Orphans(next, t, column) = {}
  <2>1. /\ \A one, two \in view[t] : one.id = two.id => one = two
        /\ On("unique", t, "all") \in view.schema => Duplicates(view, t) = {}
        /\ \A column \in People :
                On("foreign_key", t, column) \in view.schema
                    => Orphans(view, t, column) = {}
    BY DEF Consistent, Rows, People
  <2>2. CASE t # table
    BY <1>1, <2>1, <2>2 DEF Duplicates, Orphans
  <2>3. CASE t = table
    <3>1. \A one, two \in next[t] : one.id = two.id => one = two
      BY <1>1, <2>1, <2>3 DEF Meets
    <3>2. On("unique", t, "all") \in next.schema => Duplicates(next, t) = {}
      BY <1>1, <1>4, <2>1, <2>3
    <3>3. \A column \in People :
                On("foreign_key", t, column) \in next.schema
                    => Orphans(next, t, column) = {}
      BY <1>1, <2>1, <2>3 DEF Meets, Orphans
    <3> QED
      BY <3>1, <3>2, <3>3
  <2> QED
    BY <2>2, <2>3
<1>6. next.links = IF table = "links" THEN view.links \union {row} ELSE view.links
  BY <1>1, <1>2, DatabaseFields DEF Rows
<1>7. \A one \in next.links :
            one.status # Null <=> On("columns", "links", "all") \in next.schema
  BY <1>1, <1>6 DEF Consistent, Meets
<1>8. On("checks", "links", "all") \in next.schema =>
            /\ On("columns", "links", "all") \in next.schema
            /\ \A one \in next.links : one.teacher # one.student
  BY <1>1, <1>6 DEF Consistent, Meets
<1>9. \A i \in 1..Len(Plan) :
            (i < FirstOf(next.revision) /\ Plan[i] \in SchemaSteps) => Plan[i] \in next.schema
  BY <1>1 DEF Consistent
<1> QED
  BY <1>2, <1>5, <1>7, <1>8, <1>9 DEF Consistent, Rows, People

\* An account more.
LEMMA LogInInv ==
  DeploymentInv /\ LogIn /\ UNCHANGED deployVars => DeploymentInv'
<1> SUFFICES ASSUME DeploymentInv, UNCHANGED deployVars,
                    NEW p \in Persons \ (db.users \union tx.users),
                    Insert("users", {p})
             PROVE  DeploymentInv'
  BY DEF LogIn
<1>1. /\ db' = [db EXCEPT !["users"] = @ \union {p}]
      /\ tx' = [tx EXCEPT !["users"] = @ \union {p}]
      /\ disturbed' = TRUE
      /\ UNCHANGED <<at, found, barred, outcome, clientVars>>
  BY DEF Insert
<1>2. db \in Database /\ tx \in Database /\ Consistent(db) /\ Consistent(tx) /\ Follows
  BY DEF DeploymentInv, DeploymentTypeOK
<1>3. ASSUME NEW view \in Database, Consistent(view), NEW next,
             next = [view EXCEPT !["users"] = @ \union {p}]
      PROVE  /\ next \in Database /\ Consistent(next)
             /\ next.users = view.users \union {p} /\ next.links = view.links
             /\ next.lessons = view.lessons /\ next.schema = view.schema
             /\ next.revision = view.revision
  <2>1. /\ next.users = view.users \union {p} /\ next.links = view.links
        /\ next.lessons = view.lessons /\ next.schema = view.schema
        /\ next.revision = view.revision
    BY <1>3 DEF Database
  <2>2. next \in Database
    BY <1>3 DEF Database
  <2> QED
    BY <1>3, <2>1, <2>2, ConsistentShrink
<1>4. /\ db' \in Database /\ Consistent(db')
      /\ db'.users = db.users \union {p} /\ db'.links = db.links
      /\ db'.lessons = db.lessons /\ db'.schema = db.schema
      /\ db'.revision = db.revision
  BY <1>1, <1>2, <1>3
<1>5. /\ tx' \in Database /\ Consistent(tx')
      /\ tx'.users = tx.users \union {p} /\ tx'.links = tx.links
      /\ tx'.lessons = tx.lessons /\ tx'.schema = tx.schema
      /\ tx'.revision = tx.revision
  BY <1>1, <1>2, <1>3
<1>6. Follows'
  BY <1>2, <1>4, <1>5 DEF Follows
<1>7. at = 0 => tx' = db'
  BY <1>1 DEF DeploymentInv, Locked
<1> QED
  BY <1>1, <1>4, <1>5, <1>6, <1>7, DisturbedInv

\* The locks of the upgrade keep a writer from a table whose constraints only
\* the upgrade sees, so a row that fits what is committed fits both.
LEMMA FitsBoth ==
  ASSUME DeploymentInv, NEW table \in Rows, NEW row \in RowsOf(table),
         Writable(table), Fits(table, row),
         \A other \in db[table] : other.id # row.id,
         table = "links" => row.status = Status
  PROVE  Meets(db, table, row) /\ Meets(tx, table, row)
<1>1. db \in Database /\ tx \in Database /\ Consistent(db) /\ Follows /\ Locked
  BY DEF DeploymentInv, DeploymentTypeOK
<1>2. /\ On("unique", table, "all") \in db.schema =>
            \A other \in db[table] : ~SameKey(table, row, other)
      /\ \A column \in People :
            On("foreign_key", table, column) \in db.schema => row[column] \in db.users
      /\ (table = "links" /\ On("checks", "links", "all") \in db.schema) =>
            row.teacher # row.student
  BY DEF Fits, People
<1>3. table = "links" =>
            (row.status # Null <=> On("columns", "links", "all") \in db.schema)
  BY NullIsNoStatus DEF Status
<1>4. Meets(db, table, row)
  BY <1>2, <1>3 DEF Meets
<1>5. ASSUME NEW do, NEW column, On(do, table, column) \in tx.schema
      PROVE  On(do, table, column) \in db.schema
  <2>1. On(do, table, column).table = table
    BY DEF On
  <2> QED
    BY <1>1, <1>5, <2>1 DEF Locked, Writable
<1>6. \A other \in tx[table] : \E old \in db[table] : SameRow(table, other, old)
  <2>1. CASE table = "links"
    BY <1>1, <2>1, DatabaseFields DEF Follows
  <2>2. CASE table = "lessons"
    BY <1>1, <2>2, DatabaseFields DEF Follows, SameRow
  <2> QED
    BY <2>1, <2>2 DEF Rows
<1>7. \A other \in tx[table] : other.id # row.id
  BY <1>6 DEF SameRow
<1>8. On("unique", table, "all") \in tx.schema =>
            \A other \in tx[table] : ~SameKey(table, row, other)
  <2> SUFFICES ASSUME On("unique", table, "all") \in tx.schema,
                      NEW other \in tx[table], SameKey(table, row, other)
               PROVE  FALSE
    OBVIOUS
  <2>1. PICK old \in db[table] : SameRow(table, other, old)
    BY <1>6
  <2>2. SameKey(table, row, old)
    BY <2>1 DEF SameKey, SameRow, Keyed, Rows
  <2> QED
    BY <1>2, <1>5, <2>2
<1>9. \A column \in People :
            On("foreign_key", table, column) \in tx.schema => row[column] \in tx.users
  BY <1>1, <1>2, <1>5 DEF Follows
<1>10. Meets(tx, table, row)
  BY <1>1, <1>2, <1>3, <1>5, <1>7, <1>8, <1>9 DEF Meets, Follows
<1> QED
  BY <1>4, <1>10

\* A row more, in the committed database and in the view of the upgrade.
LEMMA InsertRowInv ==
  ASSUME DeploymentInv, UNCHANGED deployVars,
         NEW table \in Rows, NEW row \in RowsOf(table),
         Fits(table, row), Insert(table, {row}),
         \A other \in db[table] : other.id # row.id,
         table = "links" => row.status = Status
  PROVE  DeploymentInv'
<1>1. /\ db' = [db EXCEPT ![table] = @ \union {row}]
      /\ tx' = [tx EXCEPT ![table] = @ \union {row}]
      /\ disturbed' = TRUE /\ Writable(table)
      /\ UNCHANGED <<at, found, barred, outcome, clientVars>>
  BY DEF Insert
<1>2. db \in Database /\ tx \in Database /\ Consistent(db) /\ Consistent(tx) /\ Follows
  BY DEF DeploymentInv, DeploymentTypeOK
<1>3. Meets(db, table, row) /\ Meets(tx, table, row)
  BY <1>1, FitsBoth
<1>4. db' \in Database /\ Consistent(db') /\ tx' \in Database /\ Consistent(tx')
  BY <1>1, <1>2, <1>3, ConsistentGrow
<1>5. /\ db'.users = db.users /\ db'.schema = db.schema /\ db'.revision = db.revision
      /\ tx'.users = tx.users /\ tx'.schema = tx.schema /\ tx'.revision = tx.revision
  BY <1>1, <1>2 DEF Database, Rows
<1>6. Follows'
  <2>1. CASE table = "links"
    <3>1. /\ db'.links = db.links \union {row} /\ tx'.links = tx.links \union {row}
          /\ db'.lessons = db.lessons /\ tx'.lessons = tx.lessons
      BY <1>1, <1>2, <2>1 DEF Database
    <3>2. SameRow("links", row, row)
      BY DEF SameRow
    <3>3. /\ \A one \in tx'.links : \E old \in db'.links : SameRow("links", one, old)
          /\ \A old \in db'.links :
                old.teacher # old.student =>
                    \E one \in tx'.links : SameRow("links", one, old)
      BY <1>2, <3>1, <3>2 DEF Follows
    <3> QED
      BY <1>2, <1>5, <3>1, <3>3 DEF Follows
  <2>2. CASE table = "lessons"
    <3>1. /\ db'.lessons = db.lessons \union {row} /\ tx'.lessons = tx.lessons \union {row}
          /\ db'.links = db.links /\ tx'.links = tx.links
      BY <1>1, <1>2, <2>2 DEF Database
    <3> QED
      BY <1>2, <1>5, <3>1 DEF Follows
  <2> QED
    BY <2>1, <2>2 DEF Rows
<1>7. at = 0 => tx' = db'
  BY <1>1 DEF DeploymentInv, Locked
<1> QED
  BY <1>1, <1>4, <1>5, <1>6, <1>7, DisturbedInv

\* A new relation.
LEMMA AddLinkInv ==
  DeploymentInv /\ AddLink /\ UNCHANGED deployVars => DeploymentInv'
<1> SUFFICES ASSUME DeploymentInv, UNCHANGED deployVars, AddLink PROVE DeploymentInv'
  OBVIOUS
<1>1. PICK i \in Unused("links"), t, s \in Persons :
        LET row == [id |-> i, teacher |-> t, student |-> s, status |-> Status]
        IN Fits("links", row) /\ Insert("links", {row})
  BY DEF AddLink
<1> DEFINE row == [id |-> i, teacher |-> t, student |-> s, status |-> Status]
<1>2. row \in RowsOf("links") /\ row.status = Status /\ row.id = i
  BY DEF RowsOf, LinkRow, Status, Unused
<1>3. \A other \in db["links"] : other.id # row.id
  BY DEF Unused
<1>4. Fits("links", row) /\ Insert("links", {row}) /\ "links" \in Rows
  BY <1>1 DEF Rows
<1> HIDE DEF row
<1> QED
  BY <1>2, <1>3, <1>4, InsertRowInv

\* A new lesson.
LEMMA AddLessonInv ==
  DeploymentInv /\ AddLesson /\ UNCHANGED deployVars => DeploymentInv'
<1> SUFFICES ASSUME DeploymentInv, UNCHANGED deployVars, AddLesson PROVE DeploymentInv'
  OBVIOUS
<1>1. PICK i \in Unused("lessons"), t, s \in Persons :
        LET row == [id |-> i, teacher |-> t, student |-> s, homework |-> Null]
        IN Fits("lessons", row) /\ Insert("lessons", {row})
  BY DEF AddLesson
<1> DEFINE row == [id |-> i, teacher |-> t, student |-> s, homework |-> Null]
<1>2. row \in RowsOf("lessons") /\ row.id = i
  BY DEF RowsOf, LessonRow, Unused
<1>3. \A other \in db["lessons"] : other.id # row.id
  BY DEF Unused
<1>4. Fits("lessons", row) /\ Insert("lessons", {row}) /\ "lessons" \in Rows
  BY <1>1 DEF Rows
<1> HIDE DEF row
<1> QED
  BY <1>2, <1>3, <1>4, InsertRowInv

\* Taking the last revision back leaves the rows, without their statuses, and
\* the constraints of the revision before it.
LEMMA DowngradeIs ==
  ASSUME DeploymentInv, Downgrade
  PROVE  /\ db'.users = db.users /\ db'.lessons = db.lessons
         /\ db'.links = {[row EXCEPT !.status = Null] : row \in db.links}
         /\ db'.schema = {s \in db.schema : s.do \notin {"columns", "checks"}}
         /\ db'.revision = 2 /\ db' \in Database
         /\ \A row \in db.links :
                SameRow("links", row, [row EXCEPT !.status = Null])
<1>1. db' = [db EXCEPT
                !.revision = LastRevision - 1,
                !.schema = {s \in @ : s.do \notin {"columns", "checks"}},
                !.links = {[row EXCEPT !.status = Null] : row \in @}]
  BY DEF Downgrade
<1>2. db \in Database
  BY DEF DeploymentInv, DeploymentTypeOK
<1>3. /\ db'.users = db.users /\ db'.lessons = db.lessons
      /\ db'.links = {[row EXCEPT !.status = Null] : row \in db.links}
      /\ db'.schema = {s \in db.schema : s.do \notin {"columns", "checks"}}
      /\ db'.revision = 2
  BY <1>1, <1>2 DEF Database, LastRevision
<1>4. \A row \in LinkRow : [row EXCEPT !.status = Null] \in LinkRow
  BY DEF LinkRow
<1>5. db'.links \subseteq LinkRow /\ db'.schema \subseteq SchemaSteps
  BY <1>2, <1>3, <1>4, DatabaseFields
<1>6. db' \in Database
  <2>1. db' = [db EXCEPT !.revision = db'.revision, !.schema = db'.schema,
                         !.links = db'.links]
    BY <1>1, <1>3
  <2>2. db'.revision \in 0..LastRevision
    BY <1>3 DEF LastRevision
  <2> QED
    BY <1>2, <1>5, <2>1, <2>2 DEF Database
<1>7. \A row \in db.links : SameRow("links", row, [row EXCEPT !.status = Null])
  BY <1>2, DatabaseFields DEF SameRow, LinkRow
<1> QED
  BY <1>3, <1>6, <1>7

\* It happens beside a backend that serves, and between upgrades.
LEMMA DowngradeByHandInv == DeploymentInv /\ DowngradeByHand => DeploymentInv'
<1> SUFFICES ASSUME DeploymentInv, DowngradeByHand PROVE DeploymentInv'
  OBVIOUS
<1>1. /\ Downgrade /\ at = 0 /\ at' = 0 /\ tx' = db' /\ barred' = barred
      /\ outcome' = outcome /\ disturbed' = disturbed /\ held' = held
      /\ wants' = wants /\ script' = script /\ code' = code /\ server' = server
      /\ script = "finished"
  BY DEF DowngradeByHand, Downgrade, clientVars, deployVars
<1>2. /\ DeploymentTypeOK /\ db \in Database /\ Consistent(db) /\ barred = {}
      /\ outcome = "done" /\ server # "down" /\ db.revision = LastRevision
  BY <1>1 DEF DeploymentInv, DeploymentTypeOK, Locked, Scripted, Downgrade
<1>3. Len(Plan) = 34
  BY PlanLength
<1>4. /\ db'.users = db.users /\ db'.lessons = db.lessons
      /\ db'.links = {[row EXCEPT !.status = Null] : row \in db.links}
      /\ db'.schema = {s \in db.schema : s.do \notin {"columns", "checks"}}
      /\ db'.revision = 2 /\ db' \in Database
      /\ \A row \in db.links : SameRow("links", row, [row EXCEPT !.status = Null])
  BY <1>1, DowngradeIs
<1>5. \A table \in Rows : \A row \in db'[table] : \E old \in db[table] :
        SameRow(table, row, old)
  <2>1. \A row \in db'.links : \E old \in db.links : SameRow("links", row, old)
    BY <1>4 DEF SameRow
  <2>2. \A row \in db'.lessons : SameRow("lessons", row, row)
    BY DEF SameRow
  <2> QED
    BY <1>2, <1>4, <2>1, <2>2, DatabaseFields DEF Rows
<1>6. \A table \in Rows, column \in People :
        Orphans(db', table, column) \subseteq Orphans(db, table, column)
  <2>1. \A table \in Rows : \A row \in db'[table] : row \in LinkRow \/ row \in LessonRow
    BY <1>4, DatabaseFields DEF Rows
  <2>2. \A table \in Rows : \A row \in db[table] : row \in LinkRow \/ row \in LessonRow
    BY <1>2, DatabaseFields DEF Rows
  <2>3. \A table \in Rows, column \in People : \A row \in db'[table] :
            \E old \in db[table] : row[column] = old[column]
    BY <1>5, <2>1, <2>2, RowFields DEF SameRow, People
  <2> QED
    BY <1>4, <2>3, OrphansShrink
<1>7. ASSUME NEW table \in Rows
      PROVE  /\ \A row, other \in db'[table] : row.id = other.id => row = other
             /\ On("unique", table, "all") \in db'.schema => Duplicates(db', table) = {}
             /\ \A column \in People :
                    On("foreign_key", table, column) \in db'.schema
                        => Orphans(db', table, column) = {}
  <2>1. /\ \A row, other \in db[table] : row.id = other.id => row = other
        /\ On("unique", table, "all") \in db.schema => Duplicates(db, table) = {}
        /\ \A column \in People :
                On("foreign_key", table, column) \in db.schema
                    => Orphans(db, table, column) = {}
    BY <1>2 DEF Consistent, Rows, People
  <2>2. \A row, other \in db'[table] : row.id = other.id => row = other
    <3>1. CASE table = "links"
      <4>1. \A row, other \in db.links : row.id = other.id => row = other
        BY <1>2, <2>1, <3>1, DatabaseFields
      <4> DEFINE bare(row) == [row EXCEPT !.status = Null]
      <4>2. /\ db'.links = {bare(row) : row \in db.links}
            /\ \A row \in db.links : bare(row).id = row.id
        BY <1>4 DEF SameRow
      <4> HIDE DEF bare
      <4>3. \A row, other \in db'.links : row.id = other.id => row = other
        BY <4>1, <4>2
      <4> QED
        BY <1>4, <3>1, <4>3, DatabaseFields
    <3>2. CASE table = "lessons"
      BY <1>2, <1>4, <2>1, <3>2, DatabaseFields
    <3> QED
      BY <3>1, <3>2 DEF Rows
  <2>3. On("unique", table, "all") \in db'.schema => Duplicates(db', table) = {}
    <3>1. \A row \in db'[table] : \E old \in db[table] : SameRow(table, row, old)
      BY <1>5
    <3>2. Duplicates(db', table) # {} => Duplicates(db, table) # {}
      BY <3>1, DuplicatesFollow
    <3> QED
      BY <1>4, <2>1, <3>2
  <2> QED
    BY <1>4, <1>6, <2>1, <2>2, <2>3
<1>8. /\ On("columns", "links", "all") \notin db'.schema
      /\ On("checks", "links", "all") \notin db'.schema
      /\ \A row \in db'.links : row.status = Null
  <2>1. \A row \in db.links : [row EXCEPT !.status = Null].status = Null
    BY <1>2, DatabaseFields DEF LinkRow
  <2> QED
    BY <1>4, <2>1 DEF On
<1>9. \A i \in 1..Len(Plan) :
        (i < FirstOf(db'.revision) /\ Plan[i] \in SchemaSteps) => Plan[i] \in db'.schema
  <2> SUFFICES ASSUME NEW i \in 1..Len(Plan), i < FirstOf(db'.revision),
                      Plan[i] \in SchemaSteps
               PROVE  Plan[i] \in db'.schema
    OBVIOUS
  <2>1. i < 32 /\ i < FirstOf(db.revision)
    BY <1>2, <1>4, FirstOfIs DEF LastRevision
  <2>2. Plan[i] \in db.schema
    BY <1>2, <2>1 DEF Consistent
  <2>3. Plan[i].do # "columns" /\ Plan[i].do # "checks"
    BY <2>1, KindsAt
  <2> QED
    BY <1>4, <2>2, <2>3
<1>10. Consistent(db') /\ Consistent(tx')
  BY <1>1, <1>7, <1>8, <1>9 DEF Consistent, Rows, People
<1>11. DeploymentTypeOK'
  <2>1. at' \in 0..Len(Plan) + 1
    BY <1>1, <1>3
  <2> QED
    BY <1>1, <1>2, <1>4, <2>1 DEF DeploymentTypeOK
<1>12. Follows'
  BY <1>1 DEF Follows, SameRow
<1>13. Locked'
  BY <1>1, <1>2 DEF Locked
<1>14. Prepared'
  BY <1>1, <1>3 DEF Prepared, Doing, Running
<1>15. Scripted' /\ FailureExplained' /\ DownOnlyWhenMigrated'
  BY <1>1, <1>2 DEF Scripted, FailureExplained, DownOnlyWhenMigrated
<1> QED
  BY <1>4, <1>10, <1>11, <1>12, <1>13, <1>14, <1>15 DEF DeploymentInv

-----------------------------------------------------------------------------
(* What is committed stays.                                                *)

\* What a step that changes the committed rows owes them.
KeepsRows ==
    /\ db.users \subseteq db'.users
    /\ db.lessons \subseteq db'.lessons
    /\ \A row \in db.links :
        row.teacher # row.student =>
            \E kept \in db'.links :
                kept.teacher = row.teacher /\ kept.student = row.student

\* The view of the upgrade follows what is committed.
LEMMA CommitKeepsRows ==
  ASSUME DeploymentInv, CommitUpgrade PROVE KeepsRows
<1>1. Follows /\ tx \in Database
  BY DEF DeploymentInv, DeploymentTypeOK
<1>2. /\ db'.users = tx.users /\ db'.links = tx.links /\ db'.lessons = tx.lessons
  BY <1>1 DEF CommitUpgrade, Database
<1> QED
  BY <1>1, <1>2 DEF Follows, SameRow, KeepsRows

\* A downgrade takes statuses, not rows.
LEMMA DowngradeKeepsRows ==
  ASSUME DeploymentInv, Downgrade PROVE KeepsRows
<1> DEFINE bare(row) == [row EXCEPT !.status = Null]
<1>1. /\ db'.users = db.users /\ db'.lessons = db.lessons
      /\ db'.links = {bare(row) : row \in db.links}
      /\ \A row \in db.links : SameRow("links", row, bare(row))
  BY DowngradeIs
<1> HIDE DEF bare
<1> QED
  BY <1>1 DEF SameRow, KeepsRows

\* An insert only adds.
LEMMA InsertKeepsRows ==
  ASSUME DeploymentInv, NEW table \in Tables, NEW rows, Insert(table, rows)
  PROVE  KeepsRows
<1>1. db' = [db EXCEPT ![table] = @ \union rows] /\ db \in Database
  BY DEF Insert, DeploymentInv, DeploymentTypeOK
<1>2. /\ db.users \subseteq db'.users /\ db.lessons \subseteq db'.lessons
      /\ db.links \subseteq db'.links
  BY <1>1 DEF Database, Tables
<1> QED
  BY <1>2 DEF KeepsRows

\* Who commits.
LEMMA WhoCommits ==
  ASSUME [DeploymentNext]_vars, db' # db
  PROVE  CommitUpgrade \/ DowngradeByHand \/ LogIn \/ AddLink \/ AddLesson
<1>1. ~DeploymentStep /\ ~BackendRestarts /\ ~Redeploy
  <2>1. ~Pull /\ ~Build /\ ~MigrateReturns /\ ~Redeploy
    BY DEF Pull, Build, MigrateReturns, Redeploy, migrationVars
  <2>2. ~Migrate
    BY DEF Migrate, StartUpgrade
  <2>3. ~RemovePrevious /\ ~StartBackend /\ ~BackendRestarts
    BY DEF RemovePrevious, StartBackend, BackendRestarts, Stop, migrationVars
  <2> QED
    BY <2>1, <2>2, <2>3 DEF DeploymentStep
<1>2. CASE UpgradeStep
  <2>1. \A wrong, view : ~Unless(wrong, view)
    BY DEF Unless, Fail, Proceed
  <2>2. \A view : ~Proceed(view)
    BY DEF Proceed
  <2>3. ~Fail
    BY DEF Fail
  <2>4. ~FindOrphans /\ ~FindDuplicates /\ ~InsertLegacyUsers /\ ~ValidateUserRefs
        /\ ~DeleteDuplicates /\ ~ValidateUnique
    BY <2>1, <2>2 DEF FindOrphans, FindDuplicates, InsertLegacyUsers,
       ValidateUserRefs, DeleteDuplicates, ValidateUnique
  <2>5. /\ ~ConvertTimestamps /\ ~ConvertId /\ ~RenewHomeworkKey
        /\ ~AddColumns /\ ~NormaliseRelations
    BY <2>2 DEF ConvertTimestamps, ConvertId, RenewHomeworkKey, AlterTable,
       AddColumns, NormaliseRelations
  <2>6. ~CreateForeignKey /\ ~CreateUnique /\ ~AddChecks
    BY <2>2, <2>3 DEF CreateForeignKey, CreateUnique, AddChecks
  <2> QED
    BY <1>2, <2>4, <2>5, <2>6 DEF UpgradeStep
<1>3. CASE ClientStep
  <2>1. ~(\E table \in Tables : ReadTable(table)) /\ ~EndTransaction
    BY DEF ReadTable, EndTransaction
  <2> QED
    BY <1>3, <2>1 DEF ClientStep
<1>4. ~ResolveDeadlock
  BY DEF ResolveDeadlock, Fail
<1>5. ~UNCHANGED vars
  BY DEF vars, migrationVars
<1> QED
  BY <1>1, <1>2, <1>3, <1>4, <1>5 DEF DeploymentNext

\* No other step changes what is committed.
LEMMA NextKeepsRows == DeploymentInv /\ [DeploymentNext]_vars => [KeepsRows]_db
<1> SUFFICES ASSUME DeploymentInv, [DeploymentNext]_vars, db' # db
             PROVE  KeepsRows
  OBVIOUS
<1>1. CASE DowngradeByHand
  BY <1>1, DowngradeKeepsRows DEF DowngradeByHand
<1>2. CASE CommitUpgrade
  BY <1>2, CommitKeepsRows
<1>3. CASE LogIn \/ AddLink \/ AddLesson
  <2>1. PICK table \in Tables : \E rows : Insert(table, rows)
    BY <1>3 DEF LogIn, AddLink, AddLesson, Tables
  <2> QED
    BY <2>1, InsertKeepsRows
<1> QED
  BY <1>1, <1>2, <1>3, WhoCommits

-----------------------------------------------------------------------------
(* Seen from outside, the tables are migrated in one step.                 *)

\* Whom the committed rows name.
Named ==
    {p \in Persons :
        \E row \in db.links \union db.lessons : p \in {row.teacher, row.student}}

\* What the upgrade sees, to the row: it has added only people the rows name,
\* taken away only what "normalise" takes, and set a status only with the
\* column.  A constraint it made holds of the rows that are committed, too.
StatusColumn == On("columns", "links", "all")
Exact ==
    /\ tx.users \subseteq db.users \union Named
    /\ Doing("insert_legacy") => found \subseteq Named
    /\ at \in 0..33 =>
        \A old \in db.links : \E row \in tx.links : SameRow("links", row, old)
    /\ \A column \in People :
        On("foreign_key", "links", column) \in tx.schema =>
            \A old \in db.links : old[column] \in tx.users
    /\ On("unique", "links", "all") \in tx.schema => Duplicates(db, "links") = {}
    /\ \A row \in tx.links, old \in db.links :
        SameRow("links", row, old) =>
            /\ StatusColumn \in db.schema => row.status = old.status
            /\ StatusColumn \in tx.schema \ db.schema => row.status = "active"

\* No statement but the one after a SELECT inserts accounts.
LEMMA InsertFollowsFind ==
  ASSUME Running, at' = at + 1, Plan[at].do # "find_orphans"
  PROVE  ~Doing("insert_legacy")'
<1> SUFFICES ASSUME at' \in 1..Len(Plan), Plan[at'].do = "insert_legacy" PROVE FALSE
  BY DEF Doing, Running
<1>1. Plan[at' - 1] = On("find_orphans", Plan[at'].table, Plan[at'].column)
  BY PlanOrder
<1>2. at' - 1 = at
  BY DEF Running
<1> QED
  BY <1>1, <1>2 DEF On

\* Nothing happens to the tables.
LEMMA SameTablesExact ==
  ASSUME Exact, db' = db, tx' = tx, at' \in 0..33 => at \in 0..33,
         Doing("insert_legacy")' => found' \subseteq Named
  PROVE  Exact'
<1>1. Named' = Named
  BY DEF Named
<1>2. Duplicates(db, "links")' = Duplicates(db, "links")
  BY DEF Duplicates
<1> QED
  BY <1>1, <1>2 DEF Exact

\* The upgrade sees what is committed: it has not begun, or it is over.
LEMMA SameViewExact ==
  ASSUME tx' = db', db' \in Database, Consistent(db'), ~Doing("insert_legacy")'
  PROVE  Exact'
<1>1. db'["links"] = db'.links
  BY DatabaseFields
<1>2. \A row, old \in db'.links : row.id = old.id => row = old
  BY <1>1 DEF Consistent
<1>3. On("unique", "links", "all") \in db'.schema => Duplicates(db', "links") = {}
  BY DEF Consistent
<1>4. \A column \in People : On("foreign_key", "links", column) \in db'.schema =>
            \A old \in db'.links : old[column] \in db'.users
  BY <1>1 DEF Consistent, People, Orphans
<1> QED
  BY <1>2, <1>3, <1>4 DEF Exact, SameRow

\* A statement that changes the schema and no row: a key or a constraint made
\* before "normalise" is made of every row that is committed.
LEMMA SchemaStepExact ==
  ASSUME DeploymentInv, DeploymentInv', Exact, Running, at' = at + 1, db' = db,
         Plan[at].do \notin {"find_orphans", "columns"},
         tx' = [tx EXCEPT !.schema = @ \union {Plan[at]}]
  PROVE  Exact'
<1>1. /\ tx \in Database /\ db \in Database /\ tx' \in Database /\ Consistent(tx')
      /\ Consistent(db) /\ at \in 1..Len(Plan) /\ at \in Nat
  BY PlanLength DEF DeploymentInv, DeploymentTypeOK, Running
<1>2. /\ tx'.users = tx.users /\ tx'.links = tx.links /\ tx'.lessons = tx.lessons
      /\ tx'.schema = tx.schema \union {Plan[at]}
  BY <1>1 DEF Database
<1>3. ~Doing("insert_legacy")'
  BY InsertFollowsFind
<1>4. Named' = Named /\ Duplicates(db', "links") = Duplicates(db, "links")
  BY DEF Named
<1>5. at' \in 0..33 => at \in 0..33
  <2> HIDE DEF Exact, DeploymentInv, Running
  <2>1. at \in Nat /\ at' = at + 1
    BY <1>1
  <2> QED
    BY ONLY <2>1
<1>6. Plan[at].do \in {"foreign_key", "unique"} => at \in 0..33
  <2>1. Plan[at].do = "foreign_key" => at \in {14, 15, 28, 29}
    BY <1>1, KindsAt
  <2>2. Plan[at].do = "unique" => at \in {16, 31}
    BY <1>1, KindsAt
  <2> QED
    BY ONLY <2>1, <2>2
<1>7. StatusColumn \in tx'.schema <=> StatusColumn \in tx.schema
  BY <1>2 DEF StatusColumn, On
<1>8. ASSUME NEW column \in People, On("foreign_key", "links", column) \in tx'.schema,
             NEW old \in db.links
      PROVE  old[column] \in tx'.users
  <2>1. CASE On("foreign_key", "links", column) \in tx.schema
    BY <1>2, <1>8, <2>1 DEF Exact
  <2>2. CASE On("foreign_key", "links", column) = Plan[at]
    <3>1. Plan[at].do = "foreign_key"
      BY <2>2 DEF On
    <3>2. PICK row \in tx.links : SameRow("links", row, old)
      BY <1>6, <3>1 DEF Exact
    <3>3. row[column] = old[column]
      BY <1>1, <3>2, DatabaseFields, RowFields DEF SameRow, People
    <3>4. Orphans(tx', "links", column) = {} /\ tx'["links"] = tx'.links
      BY <1>1, <1>8, DatabaseFields DEF Consistent, People
    <3> QED
      BY <1>2, <3>2, <3>3, <3>4 DEF Orphans
  <2> QED
    BY <1>2, <1>8, <2>1, <2>2
<1>9. On("unique", "links", "all") \in tx'.schema => Duplicates(db, "links") = {}
  <2>1. CASE On("unique", "links", "all") \in tx.schema
    BY <2>1 DEF Exact
  <2>2. CASE On("unique", "links", "all") = Plan[at]
    <3>1. Plan[at].do = "unique"
      BY <2>2 DEF On
    <3>2. \A old \in db.links : \E row \in tx'.links : SameRow("links", row, old)
      BY <1>2, <1>6, <3>1 DEF Exact
    <3>3. \A old \in db["links"] : \E row \in tx'["links"] : SameRow("links", old, row)
      BY <1>1, <3>2, DatabaseFields DEF SameRow
    <3>4. Duplicates(tx', "links") = {}
      BY <1>1, <1>2, <2>2 DEF Consistent
    <3>5. "links" \in Rows
      BY DEF Rows
    <3> QED
      BY <3>3, <3>4, <3>5, DuplicatesFollow
  <2> QED
    BY <1>2, <2>1, <2>2
<1> QED
  BY <1>2, <1>3, <1>4, <1>5, <1>7, <1>8, <1>9 DEF Exact

\* A step that is not about the tables.
LEMMA QuietExact ==
  ASSUME Exact, UNCHANGED <<db, tx, at, found>>
  PROVE  Exact'
<1>1. db' = db /\ tx' = tx /\ at' = at /\ found' = found
  OBVIOUS
<1>2. Doing("insert_legacy")' => found' \subseteq Named
  BY <1>1 DEF Exact, Doing, Running
<1> QED
  BY <1>1, <1>2, SameTablesExact

\* An upgrade that is over.
LEMMA OverExact ==
  ASSUME DeploymentInv', tx' = db', at' = 0
  PROVE  Exact'
<1>1. ~Doing("insert_legacy")'
  BY DEF Doing, Running
<1>2. db' \in Database /\ Consistent(db')
  BY DEF DeploymentInv, DeploymentTypeOK
<1> QED
  BY <1>1, <1>2, SameViewExact

\* An upgrade that begins begins with no insert.
LEMMA MigrateExact ==
  ASSUME DeploymentInv, Migrate PROVE Exact'
<1>1. db' = db /\ tx' = db /\ at' = FirstOf(db.revision)
  BY DEF Migrate, StartUpgrade
<1>2. db \in Database /\ Consistent(db) /\ db.revision \in {0, 1, 2, 3}
  BY DatabaseFields DEF DeploymentInv, DeploymentTypeOK
<1>3. at' \in {1, 3, 32, 35}
  BY <1>1, <1>2, FirstOfIs
<1>4. ~Doing("insert_legacy")'
  <2>1. at' \notin {4, 6, 18, 20}
    BY <1>3
  <2>2. at' \in 1..Len(Plan) => Plan[at'].do # "insert_legacy"
    BY <2>1, KindsAt
  <2> QED
    BY <2>2 DEF Doing, Running
<1> QED
  BY <1>1, <1>2, <1>4, SameViewExact

\* A number of the plan less than its last follows another.
LEMMA EarlierPlace ==
  ASSUME Running, at' = at + 1 PROVE at' \in 0..33 => at \in 0..33
<1>1. at \in Nat
  BY PlanLength DEF Running
<1> QED
  BY <1>1

\* A statement that only reads, or finds its work done.
LEMMA SameViewProceedExact ==
  ASSUME Exact, Running, Proceed(tx), Plan[at].do # "find_orphans"
  PROVE  Exact'
<1>1. db' = db /\ tx' = tx /\ at' = at + 1
  BY DEF Proceed
<1>2. at' \in 0..33 => at \in 0..33
  BY <1>1, EarlierPlace
<1>3. ~Doing("insert_legacy")'
  BY <1>1, InsertFollowsFind
<1> QED
  BY <1>1, <1>2, <1>3, SameTablesExact

\* Whom the upgrade finds without an account a committed row names.
LEMMA FindOrphansExact ==
  ASSUME DeploymentInv, Exact, FindOrphans PROVE Exact'
<1>1. /\ db' = db /\ tx' = tx /\ at' = at + 1 /\ Running
      /\ Plan[at].do = "find_orphans"
      /\ found' = Orphans(tx, Table, Plan[at].column)
  BY DEF FindOrphans, Proceed, Doing
<1>2. /\ tx \in Database /\ db \in Database /\ Follows
  BY DEF DeploymentInv, DeploymentTypeOK
<1>3. Table \in Rows /\ Plan[at].column \in People
  BY <1>1, PlanOrder DEF Running, Table
<1>4. ASSUME NEW row \in tx[Table] PROVE row[Plan[at].column] \in Named
  <2>1. CASE Table = "links"
    <3>1. row \in LinkRow /\ row \in tx.links
      BY <1>2, <1>4, <2>1, DatabaseFields
    <3>2. PICK old \in db.links : SameRow("links", row, old)
      BY <1>2, <3>1 DEF Follows
    <3>3. row.teacher \in Named /\ row.student \in Named
      BY <3>1, <3>2, RowFields DEF SameRow, Named
    <3> QED
      BY <1>3, <3>1, <3>3, RowFields DEF People
  <2>2. CASE Table = "lessons"
    <3>1. row \in LessonRow /\ row \in db.lessons
      BY <1>2, <1>4, <2>2, DatabaseFields DEF Follows
    <3>2. row.teacher \in Named /\ row.student \in Named
      BY <3>1, RowFields DEF Named
    <3> QED
      BY <1>3, <3>1, <3>2, RowFields DEF People
  <2> QED
    BY <1>3, <2>1, <2>2 DEF Rows
<1>5. found' \subseteq Named
  BY <1>1, <1>4 DEF Orphans
<1>6. at' \in 0..33 => at \in 0..33
  BY <1>1, EarlierPlace
<1> QED
  BY <1>1, <1>5, <1>6, SameTablesExact

\* They get their accounts.
LEMMA InsertLegacyUsersExact ==
  ASSUME DeploymentInv, DeploymentInv', Exact, InsertLegacyUsers PROVE Exact'
<1>1. CASE Fail
  BY <1>1, OverExact DEF Fail
<1>2. CASE Proceed([tx EXCEPT !.users = @ \union found])
  <2>1. /\ Running /\ Doing("insert_legacy") /\ Plan[at].do = "insert_legacy"
        /\ tx' = [tx EXCEPT !.users = @ \union found] /\ db' = db /\ at' = at + 1
    BY <1>2 DEF InsertLegacyUsers, Proceed, Doing
  <2>2. tx \in Database
    BY DEF DeploymentInv, DeploymentTypeOK
  <2>3. /\ tx'.users = tx.users \union found /\ tx'.links = tx.links
        /\ tx'.schema = tx.schema
    BY <2>1, <2>2 DEF Database
  <2>4. ~Doing("insert_legacy")'
    BY <2>1, InsertFollowsFind
  <2>5. at' \in 0..33 => at \in 0..33
    BY <2>1, EarlierPlace
  <2>6. Named' = Named /\ Duplicates(db', "links") = Duplicates(db, "links")
    BY <2>1 DEF Named
  <2>7. found \subseteq Named
    BY <2>1 DEF Exact
  <2> QED
    BY <2>1, <2>3, <2>4, <2>5, <2>6, <2>7 DEF Exact
<1> QED
  BY <1>1, <1>2 DEF InsertLegacyUsers, Unless

\* Changes of the schema alone.
LEMMA SchemaStatementsExact ==
  ASSUME DeploymentInv, DeploymentInv', Exact,
         \/ ConvertTimestamps \/ ConvertId \/ RenewHomeworkKey
         \/ CreateForeignKey \/ CreateUnique \/ AddChecks
  PROVE  Exact'
<1>1. /\ Running
      /\ Plan[at].do \in {"timestamps", "text_id", "homework_key", "foreign_key",
                          "unique", "checks"}
      /\ \/ Fail \/ Proceed(tx)
         \/ Proceed([tx EXCEPT !.schema = @ \union {Plan[at]}])
  BY DEF ConvertTimestamps, ConvertId, RenewHomeworkKey, AlterTable,
     CreateForeignKey, CreateUnique, AddChecks, Doing
<1>2. Plan[at].do \notin {"find_orphans", "columns"}
  BY <1>1
<1>3. CASE Fail
  BY <1>3, OverExact DEF Fail
<1>4. CASE Proceed(tx)
  BY <1>1, <1>2, <1>4, SameViewProceedExact
<1>5. CASE Proceed([tx EXCEPT !.schema = @ \union {Plan[at]}])
  <2>1. /\ db' = db /\ at' = at + 1
        /\ tx' = [tx EXCEPT !.schema = @ \union {Plan[at]}]
    BY <1>5 DEF Proceed
  <2> QED
    BY <1>1, <1>2, <2>1, SchemaStepExact
<1> QED
  BY <1>1, <1>3, <1>4, <1>5

\* Statements that look, and may give up.
LEMMA ReadingStatementsExact ==
  ASSUME DeploymentInv, DeploymentInv', Exact,
         ValidateUserRefs \/ FindDuplicates \/ DeleteDuplicates \/ ValidateUnique
  PROVE  Exact'
<1>1. /\ Running
      /\ Plan[at].do \in {"validate_users", "find_duplicates", "delete_duplicates",
                          "validate_unique"}
      /\ Fail \/ Proceed(tx)
  BY DEF ValidateUserRefs, FindDuplicates, DeleteDuplicates, ValidateUnique,
     Unless, Doing
<1>2. Plan[at].do # "find_orphans"
  BY <1>1
<1>3. CASE Fail
  BY <1>3, OverExact DEF Fail
<1>4. CASE Proceed(tx)
  BY <1>1, <1>2, <1>4, SameViewProceedExact
<1> QED
  BY <1>1, <1>3, <1>4

\* Every relation gets the default, unless the column is there.
LEMMA AddColumnsExact ==
  ASSUME DeploymentInv, Exact, AddColumns PROVE Exact'
<1> DEFINE active(row) == [row EXCEPT !.status = "active"]
<1>1. /\ Running /\ Plan[at].do = "columns" /\ db' = db /\ at' = at + 1
      /\ tx' = [tx EXCEPT
                    !.schema = @ \union {Plan[at]},
                    !.links = IF Asks(Table) THEN {active(row) : row \in @} ELSE @]
  BY DEF AddColumns, Doing, Proceed
<1>2. at = 32 /\ Plan[at] = StatusColumn /\ Table = "links"
  <2>1. at = 32
    BY <1>1, KindsAt DEF Running
  <2>2. Plan[32] = StatusColumn
    BY PlanListed DEF StatusColumn
  <2> QED
    BY <2>1, <2>2 DEF Table, StatusColumn, On
<1>3. tx \in Database /\ db \in Database /\ Follows
  BY DEF DeploymentInv, DeploymentTypeOK
<1>4. Asks(Table) <=> StatusColumn \notin tx.schema
  BY <1>1, <1>2 DEF Asks, Exclusive
<1>5. /\ tx'.links = IF Asks(Table) THEN {active(row) : row \in tx.links} ELSE tx.links
      /\ tx'.users = tx.users /\ tx'.schema = tx.schema \union {StatusColumn}
  BY <1>1, <1>2, <1>3 DEF Database
<1>6. \A row \in tx.links : active(row).status = "active" /\ SameRow("links", active(row), row)
  BY <1>3, DatabaseFields DEF LinkRow, SameRow
<1> HIDE DEF active
<1>7. ~Doing("insert_legacy")'
  BY <1>1, InsertFollowsFind
<1>8. Named' = Named /\ Duplicates(db', "links") = Duplicates(db, "links")
  BY <1>1 DEF Named
<1>9. \A old \in db.links : \E row \in tx'.links : SameRow("links", row, old)
  <2>1. \A old \in db.links : \E row \in tx.links : SameRow("links", row, old)
    BY <1>2 DEF Exact
  <2>2. \A row \in tx.links : \E next \in tx'.links : SameRow("links", next, row)
    BY <1>5, <1>6 DEF SameRow
  <2> QED
    BY <2>1, <2>2 DEF SameRow
<1>10. /\ \A column \in People :
            On("foreign_key", "links", column) \in tx'.schema =>
                On("foreign_key", "links", column) \in tx.schema
       /\ On("unique", "links", "all") \in tx'.schema =>
                On("unique", "links", "all") \in tx.schema
  BY <1>5 DEF StatusColumn, On
<1>11. ASSUME NEW row \in tx'.links, NEW old \in db.links, SameRow("links", row, old)
       PROVE  /\ StatusColumn \in db.schema => row.status = old.status
              /\ StatusColumn \in tx'.schema \ db.schema => row.status = "active"
  <2>1. CASE Asks(Table)
    <3>1. StatusColumn \notin db.schema
      BY <1>3, <1>4, <2>1 DEF Follows
    <3>2. row.status = "active"
      BY <1>5, <1>6, <1>11, <2>1
    <3> QED
      BY <3>1, <3>2
  <2>2. CASE ~Asks(Table)
    <3>1. row \in tx.links /\ StatusColumn \in tx.schema
      BY <1>4, <1>5, <1>11, <2>2
    <3> QED
      BY <1>11, <3>1 DEF Exact
  <2> QED
    BY <2>1, <2>2
<1> QED
  BY <1>1, <1>5, <1>7, <1>8, <1>9, <1>10, <1>11 DEF Exact

\* Relations of one person go, after the last statement that needs them.
LEMMA NormaliseRelationsExact ==
  ASSUME DeploymentInv, Exact, NormaliseRelations PROVE Exact'
<1>1. /\ Running /\ Plan[at].do = "normalise" /\ db' = db /\ at' = at + 1
      /\ tx' = [tx EXCEPT !.links = {row \in @ : row.teacher # row.student}]
  BY DEF NormaliseRelations, Doing, Proceed
<1>2. tx \in Database
  BY DEF DeploymentInv, DeploymentTypeOK
<1>3. /\ tx'.links \subseteq tx.links /\ tx'.users = tx.users
      /\ tx'.schema = tx.schema
  BY <1>1, <1>2 DEF Database
<1>4. at' \notin 0..33
  <2>1. at = 33
    BY <1>1, KindsAt DEF Running
  <2> QED
    BY <1>1, <2>1
<1>5. ~Doing("insert_legacy")'
  BY <1>1, InsertFollowsFind
<1>6. Named' = Named /\ Duplicates(db', "links") = Duplicates(db, "links")
  BY <1>1 DEF Named
<1> QED
  BY <1>1, <1>3, <1>4, <1>5, <1>6 DEF Exact

\* Together, the steps of the upgrade.
LEMMA UpgradeStepExact ==
  ASSUME DeploymentInv, DeploymentInv', Exact, UpgradeStep PROVE Exact'
<1>1. CASE CommitUpgrade
  BY <1>1, OverExact DEF CommitUpgrade
<1> QED
  BY <1>1, FindOrphansExact, InsertLegacyUsersExact, ReadingStatementsExact,
     SchemaStatementsExact, AddColumnsExact, NormaliseRelationsExact
     DEF UpgradeStep

\* An account more is nobody's loss.
LEMMA LogInExact ==
  ASSUME DeploymentInv, Exact, LogIn PROVE Exact'
<1>1. PICK p \in Persons \ (db.users \union tx.users) : Insert("users", {p})
  BY DEF LogIn
<1>2. /\ db' = [db EXCEPT !["users"] = @ \union {p}]
      /\ tx' = [tx EXCEPT !["users"] = @ \union {p}]
      /\ at' = at /\ found' = found
  BY <1>1 DEF Insert
<1>3. db \in Database /\ tx \in Database
  BY DEF DeploymentInv, DeploymentTypeOK
<1>4. /\ db'.users = db.users \union {p} /\ db'.links = db.links
      /\ db'.lessons = db.lessons /\ db'.schema = db.schema
      /\ tx'.users = tx.users \union {p} /\ tx'.links = tx.links
      /\ tx'.schema = tx.schema
  BY <1>2, <1>3 DEF Database
<1>5. Named' = Named
  BY <1>4 DEF Named
<1>6. Duplicates(db', "links") = Duplicates(db, "links")
  <2>1. db'["links"] = db["links"]
    BY <1>2, <1>3 DEF Database
  <2> QED
    BY <2>1 DEF Duplicates
<1>7. Doing("insert_legacy")' => found' \subseteq Named
  BY <1>2 DEF Exact, Doing, Running
<1> QED
  BY <1>2, <1>4, <1>5, <1>6, <1>7 DEF Exact

\* A relation more: what binds the upgrade's copy binds the committed one.
LEMMA AddLinkExact ==
  ASSUME DeploymentInv, DeploymentInv', Exact, AddLink PROVE Exact'
<1>1. PICK i \in Unused("links"), t, s \in Persons :
        LET row == [id |-> i, teacher |-> t, student |-> s, status |-> Status]
        IN Fits("links", row) /\ Insert("links", {row})
  BY DEF AddLink
<1> DEFINE new == [id |-> i, teacher |-> t, student |-> s, status |-> Status]
<1>2. /\ Fits("links", new) /\ Writable("links")
      /\ db' = [db EXCEPT !["links"] = @ \union {new}]
      /\ tx' = [tx EXCEPT !["links"] = @ \union {new}]
      /\ at' = at /\ found' = found
  BY <1>1 DEF Insert
<1>3. /\ db \in Database /\ tx \in Database /\ Consistent(db') /\ Follows /\ Locked
      /\ db' \in Database
  BY DEF DeploymentInv, DeploymentTypeOK
<1>4. /\ db'.links = db.links \union {new} /\ tx'.links = tx.links \union {new}
      /\ db'.users = db.users /\ tx'.users = tx.users
      /\ db'.schema = db.schema /\ tx'.schema = tx.schema
      /\ db'.lessons = db.lessons /\ db["links"] = db.links
  BY <1>2, <1>3 DEF Database
<1>5. \A old \in db.links : old.id # new.id
  BY <1>4 DEF Unused
<1>6. \A row \in tx.links : row.id # new.id
  BY <1>3, <1>5 DEF Follows, SameRow
<1>7. SameRow("links", new, new)
  BY DEF SameRow
<1>8. ASSUME NEW do, NEW column, On(do, "links", column) \in tx.schema
      PROVE  On(do, "links", column) \in db.schema
  <2>1. On(do, "links", column).table = "links"
    BY DEF On
  <2> QED
    BY <1>2, <1>3, <1>8, <2>1 DEF Locked, Writable
<1>9. \A column \in People :
        On("foreign_key", "links", column) \in db.schema => new[column] \in db.users
  BY <1>2 DEF Fits, People
<1> HIDE DEF new
<1>10. Named \subseteq Named'
  BY <1>4 DEF Named
<1>11. Doing("insert_legacy")' => found' \subseteq Named'
  BY <1>2, <1>10 DEF Exact, Doing, Running
<1>12. tx'.users \subseteq db'.users \union Named'
  BY <1>4, <1>10 DEF Exact
<1>13. at' \in 0..33 =>
        \A old \in db'.links : \E row \in tx'.links : SameRow("links", row, old)
  BY <1>2, <1>4, <1>7 DEF Exact
<1>14. ASSUME NEW column \in People, On("foreign_key", "links", column) \in tx'.schema,
              NEW old \in db'.links
       PROVE  old[column] \in tx'.users
  <2>1. CASE old = new
    BY <1>3, <1>4, <1>8, <1>9, <1>14, <2>1 DEF Follows
  <2>2. CASE old \in db.links
    BY <1>4, <1>14, <2>2 DEF Exact
  <2> QED
    BY <1>4, <2>1, <2>2
<1>15. On("unique", "links", "all") \in tx'.schema => Duplicates(db', "links") = {}
  BY <1>3, <1>4, <1>8 DEF Consistent
<1>16. ASSUME NEW row \in tx'.links, NEW old \in db'.links, SameRow("links", row, old)
       PROVE  /\ StatusColumn \in db'.schema => row.status = old.status
              /\ StatusColumn \in tx'.schema \ db'.schema => row.status = "active"
  <2>1. CASE row = new
    <3>1. old = new
      BY <1>4, <1>5, <1>16, <2>1 DEF SameRow
    <3>2. StatusColumn \notin tx'.schema \ db'.schema
      BY <1>4, <1>8 DEF StatusColumn
    <3> QED
      BY <2>1, <3>1, <3>2
  <2>2. CASE row \in tx.links
    <3>1. old \in db.links
      BY <1>4, <1>6, <1>16, <2>2 DEF SameRow
    <3> QED
      BY <1>4, <1>16, <2>2, <3>1 DEF Exact
  <2> QED
    BY <1>4, <2>1, <2>2
<1> QED
  BY <1>11, <1>12, <1>13, <1>14, <1>15, <1>16 DEF Exact

\* A lesson more.
LEMMA AddLessonExact ==
  ASSUME DeploymentInv, Exact, AddLesson PROVE Exact'
<1>1. PICK rows : Insert("lessons", rows)
  BY DEF AddLesson
<1>2. /\ db' = [db EXCEPT !["lessons"] = @ \union rows]
      /\ tx' = [tx EXCEPT !["lessons"] = @ \union rows]
      /\ at' = at /\ found' = found
  BY <1>1 DEF Insert
<1>3. db \in Database /\ tx \in Database
  BY DEF DeploymentInv, DeploymentTypeOK
<1>4. /\ db'.lessons = db.lessons \union rows /\ db'.links = db.links
      /\ db'.users = db.users /\ db'.schema = db.schema
      /\ tx'.users = tx.users /\ tx'.links = tx.links /\ tx'.schema = tx.schema
      /\ db'["links"] = db["links"]
  BY <1>2, <1>3 DEF Database
<1>5. Named \subseteq Named'
  BY <1>4 DEF Named
<1>6. Duplicates(db', "links") = Duplicates(db, "links")
  BY <1>4 DEF Duplicates
<1>7. Doing("insert_legacy")' => found' \subseteq Named'
  BY <1>2, <1>5 DEF Exact, Doing, Running
<1> QED
  BY <1>2, <1>4, <1>5, <1>6, <1>7 DEF Exact

\* Every step.
LEMMA NextExact ==
  ASSUME DeploymentInv, DeploymentInv', Exact, [DeploymentNext]_vars PROVE Exact'
<1>1. CASE Migrate
  BY <1>1, MigrateExact
<1>2. CASE Pull \/ Build \/ MigrateReturns \/ Redeploy
  <2>1. UNCHANGED <<db, tx, at, found>>
    BY <1>2 DEF Pull, Build, MigrateReturns, Redeploy, migrationVars, upgradeVars
  <2> QED
    BY <2>1, QuietExact
<1>3. CASE RemovePrevious \/ StartBackend \/ BackendRestarts
  <2>1. UNCHANGED <<db, tx, at, found>>
    BY <1>3 DEF RemovePrevious, StartBackend, BackendRestarts, Stop, migrationVars,
       upgradeVars
  <2> QED
    BY <2>1, QuietExact
<1>4. CASE DowngradeByHand
  <2>1. tx' = db' /\ at' = 0
    BY <1>4 DEF DowngradeByHand, Downgrade
  <2> QED
    BY <2>1, OverExact
<1>5. CASE UpgradeStep
  BY <1>5, UpgradeStepExact
<1>6. CASE ClientStep
  <2>1. CASE (\E table \in Tables : ReadTable(table)) \/ EndTransaction
    <3>1. UNCHANGED <<db, tx, at, found>>
      BY <2>1 DEF ReadTable, EndTransaction, upgradeVars
    <3> QED
      BY <3>1, QuietExact
  <2> QED
    BY <1>6, <2>1, LogInExact, AddLinkExact, AddLessonExact DEF ClientStep
<1>7. CASE ResolveDeadlock
  <2>1. CASE Fail
    BY <2>1, OverExact DEF Fail
  <2>2. CASE UNCHANGED <<db, upgradeVars>>
    BY <2>2, QuietExact DEF upgradeVars
  <2> QED
    BY <1>7, <2>1, <2>2 DEF ResolveDeadlock
<1>8. CASE UNCHANGED vars
  BY <1>8, QuietExact DEF vars, migrationVars, upgradeVars
<1> QED
  BY <1>1, <1>2, <1>3, <1>4, <1>5, <1>6, <1>7, <1>8 DEF DeploymentNext, DeploymentStep

\* An upgrade that has not begun sees what is committed.
LEMMA InitExact == DeploymentInit => Exact
<1> SUFFICES ASSUME DeploymentInit PROVE Exact
  OBVIOUS
<1>1. /\ tx = db /\ found = {}
  BY DEF DeploymentInit, MigrationsInit
<1>2. db \in Database /\ Consistent(db)
  BY DeploymentInitInv DEF DeploymentInv, DeploymentTypeOK
<1>3. db["links"] = db.links
  BY <1>2, DatabaseFields
<1>4. \A row, old \in db.links : row.id = old.id => row = old
  BY <1>2, <1>3 DEF Consistent
<1>5. \A column \in People : On("foreign_key", "links", column) \in db.schema =>
            \A old \in db.links : old[column] \in db.users
  BY <1>2, <1>3 DEF Consistent, People, Orphans
<1>6. On("unique", "links", "all") \in db.schema => Duplicates(db, "links") = {}
  BY <1>2 DEF Consistent
<1> QED
  BY <1>1, <1>4, <1>5, <1>6 DEF Exact, SameRow

\* The rows of the two modules are the same.
LEMMA SeenRows == Seen!Link = LinkRow /\ Seen!Lesson = LessonRow
BY DEF Seen!Link, Seen!Lesson, LinkRow, LessonRow

\* Seen from outside the tables start as any tables.
LEMMA InitSeen == DeploymentInit => Seen!Init
<1> SUFFICES ASSUME DeploymentInit PROVE Seen!Init
  OBVIOUS
<1>1. DeploymentInv
  BY DeploymentInitInv
<1>2. db \in Database
  BY <1>1 DEF DeploymentInv, DeploymentTypeOK
<1>3. db.revision = LastRevision => Seen!Legal
  BY <1>1, InvMigrated DEF MigratedIsLegal, Seen!Legal, Seen!Known, Seen!PairsOnce,
     Seen!SamePair, Seen!HomeworkOnce
<1> QED
  BY <1>2, <1>3, SeenRows, DatabaseFields DEF Seen!Init

\* A first login.
LEMMA LogInSeen ==
  ASSUME DeploymentInv, LogIn PROVE Seen!Next
<1>1. PICK p \in Persons \ (db.users \union tx.users) : Insert("users", {p})
  BY DEF LogIn
<1>2. db' = [db EXCEPT !["users"] = @ \union {p}] /\ db \in Database
  BY <1>1 DEF Insert, DeploymentInv, DeploymentTypeOK
<1>3. /\ db'.users = db.users \union {p} /\ db'.links = db.links
      /\ db'.lessons = db.lessons /\ db'.revision = db.revision
  BY <1>2 DEF Database
<1>4. Seen!Join(p)
  BY <1>1, <1>3 DEF Seen!Join
<1> QED
  BY <1>1, <1>4 DEF Seen!Next

\* The state after a step is legal, too.
LEMMA InvMigratedNext == DeploymentInv' => MigratedIsLegal'
BY InvMigrated, PTL

\* A relation a client adds is one that the tables may hold.
LEMMA AddLinkSeen ==
  ASSUME DeploymentInv, DeploymentInv', AddLink PROVE Seen!Next
<1>1. PICK i \in Unused("links"), t, s \in Persons :
        LET row == [id |-> i, teacher |-> t, student |-> s, status |-> Status]
        IN Fits("links", row) /\ Insert("links", {row})
  BY DEF AddLink
<1> DEFINE new == [id |-> i, teacher |-> t, student |-> s, status |-> Status]
<1>2. new \in LinkRow /\ \A other \in db["links"] : other.id # new.id
  BY DEF LinkRow, Status, Unused
<1>3. db' = [db EXCEPT !["links"] = @ \union {new}] /\ db \in Database
  BY <1>1 DEF Insert, DeploymentInv, DeploymentTypeOK
<1> HIDE DEF new
<1>4. /\ db'.links = db.links \union {new} /\ db'.users = db.users
      /\ db'.lessons = db.lessons /\ db'.revision = db.revision
      /\ db["links"] = db.links
  BY <1>3 DEF Database
<1>5. MigratedIsLegal'
  BY InvMigratedNext
<1>6. ASSUME db.revision = LastRevision
      PROVE  /\ Seen!Known(new) /\ new.teacher # new.student /\ new.status # Null
             /\ \A other \in db.links : ~Seen!SamePair(new, other)
  <2>1. LastRevision' = LastRevision
    BY DEF LastRevision
  <2>2. /\ {new.teacher, new.student} \subseteq db.users
        /\ new.teacher # new.student /\ new.status # Null
        /\ \A other \in db.links :
            (new.teacher = other.teacher /\ new.student = other.student) => new = other
    BY <1>4, <1>5, <1>6, <2>1 DEF MigratedIsLegal
  <2> QED
    BY <1>2, <1>4, <2>2 DEF Seen!Known, Seen!SamePair
<1>7. Seen!AddLink(new)
  BY <1>2, <1>4, <1>6 DEF Seen!AddLink
<1> QED
  BY <1>2, <1>7, SeenRows DEF Seen!Next

\* And a lesson.
LEMMA AddLessonSeen ==
  ASSUME DeploymentInv, DeploymentInv', AddLesson PROVE Seen!Next
<1>1. PICK i \in Unused("lessons"), t, s \in Persons :
        LET row == [id |-> i, teacher |-> t, student |-> s, homework |-> Null]
        IN Fits("lessons", row) /\ Insert("lessons", {row})
  BY DEF AddLesson
<1> DEFINE new == [id |-> i, teacher |-> t, student |-> s, homework |-> Null]
<1>2. /\ new \in LessonRow /\ new.homework = Null
      /\ \A other \in db["lessons"] : other.id # new.id
  BY DEF LessonRow, Unused
<1>3. db' = [db EXCEPT !["lessons"] = @ \union {new}] /\ db \in Database
  BY <1>1 DEF Insert, DeploymentInv, DeploymentTypeOK
<1> HIDE DEF new
<1>4. /\ db'.lessons = db.lessons \union {new} /\ db'.users = db.users
      /\ db'.links = db.links /\ db'.revision = db.revision
      /\ db["lessons"] = db.lessons
  BY <1>3 DEF Database
<1>5. MigratedIsLegal'
  BY InvMigratedNext
<1>6. db.revision = LastRevision => Seen!Known(new)
  <2>1. LastRevision' = LastRevision
    BY DEF LastRevision
  <2> QED
    BY <1>4, <1>5, <2>1 DEF MigratedIsLegal, Seen!Known
<1>7. Seen!AddLesson(new)
  BY <1>2, <1>4, <1>6 DEF Seen!AddLesson
<1> QED
  BY <1>2, <1>7, SeenRows DEF Seen!Next

\* Taking the last revision back takes the statuses.
LEMMA DowngradeSeen ==
  ASSUME DeploymentInv, DowngradeByHand PROVE Seen!Next
<1>1. Downgrade /\ db.revision = LastRevision
  BY DEF DowngradeByHand, Downgrade
<1> DEFINE bare(row) == [row EXCEPT !.status = Null]
<1>2. /\ db'.users = db.users /\ db'.lessons = db.lessons /\ db'.revision = 2
      /\ db'.links = {bare(row) : row \in db.links}
  BY <1>1, DowngradeIs
<1>3. LastRevision = 3 /\ LastRevision' = 3
  BY DEF LastRevision
<1>4. (db.revision = LastRevision)' = FALSE
  BY <1>2, <1>3
<1> QED
  BY <1>1, <1>2, <1>4 DEF Seen!Next, Seen!Downgrade

\* At the end of the plan every constraint is made.
LEMMA PlanDone ==
  ASSUME DeploymentInv, CommitUpgrade
  PROVE  /\ StatusColumn \in tx.schema
         /\ On("checks", "links", "all") \in tx.schema
         /\ \A table \in Rows :
                /\ On("unique", table, "all") \in tx.schema
                /\ \A column \in People : On("foreign_key", table, column) \in tx.schema
<1>1. \A i \in 1..Len(Plan) : Plan[i].do \in Exclusive \union {"foreign_key"} =>
            Plan[i] \in tx.schema
  <2>1. at = Len(Plan) + 1 /\ Len(Plan) = 34
    BY PlanLength DEF CommitUpgrade
  <2>2. \A i \in 1..Len(Plan) : i < at
    BY <2>1
  <2> QED
    BY <2>2, SchemaStepsAre DEF DeploymentInv, Prepared
<1>2. {14, 15, 16, 28, 29, 31, 32, 34} \subseteq 1..Len(Plan)
  BY PlanLength
<1>3. \A i \in {14, 15, 16, 28, 29, 31, 32, 34} : Plan[i] \in tx.schema
  <2>1. ASSUME NEW i \in {14, 15, 16, 28, 29, 31, 32, 34}
        PROVE  Plan[i].do \in Exclusive \union {"foreign_key"}
    BY PlanKinds DEF Exclusive
  <2> QED
    BY <1>1, <1>2, <2>1
<1>4. /\ Plan[14] \in tx.schema /\ Plan[15] \in tx.schema /\ Plan[16] \in tx.schema
      /\ Plan[28] \in tx.schema /\ Plan[29] \in tx.schema /\ Plan[31] \in tx.schema
      /\ Plan[32] \in tx.schema /\ Plan[34] \in tx.schema
  BY <1>3
<1> QED
  BY <1>4, PlanListed DEF StatusColumn, Rows, People

\* The commit shows everything the upgrade did, and nothing else.
LEMMA CommitSeen ==
  ASSUME DeploymentInv, Exact, CommitUpgrade PROVE Seen!Next
<1>1. /\ tx \in Database /\ db \in Database /\ Consistent(tx) /\ Consistent(db)
      /\ Follows
  BY DEF DeploymentInv, DeploymentTypeOK
<1>2. /\ db'.users = tx.users /\ db'.links = tx.links /\ db'.lessons = tx.lessons
      /\ db'.revision = LastRevision
  BY <1>1 DEF CommitUpgrade, Database
<1>3. /\ tx["links"] = tx.links /\ tx["lessons"] = tx.lessons
      /\ db["links"] = db.links /\ db["lessons"] = db.lessons
      /\ db.links \subseteq LinkRow /\ db.lessons \subseteq LessonRow
      /\ tx.links \subseteq LinkRow /\ tx.lessons = db.lessons
  BY <1>1, DatabaseFields DEF Follows
<1>4. Seen!PairsOnce
  <2>1. Duplicates(db, "links") = {}
    BY PlanDone DEF Exact, Rows
  <2>2. \A row, other \in db.links : row.id = other.id => row = other
    BY <1>1, <1>3 DEF Consistent
  <2>3. \A row, other \in db.links : SameKey("links", row, other) => row = other
    BY <1>1, <1>3, <2>1, <2>2, OneRowPerKey DEF Rows
  <2> QED
    BY <2>3 DEF Seen!PairsOnce, Seen!SamePair, SameKey, Keyed
<1>5. Seen!HomeworkOnce
  <2>1. Duplicates(tx, "lessons") = {}
    BY <1>1, PlanDone DEF Consistent, Rows
  <2>2. \A row, other \in tx["lessons"] : row.id = other.id => row = other
    BY <1>1 DEF Consistent
  <2>3. \A row, other \in tx["lessons"] : SameKey("lessons", row, other) => row = other
    BY <1>1, <2>1, <2>2, OneRowPerKey DEF Rows
  <2>4. \A row, other \in db.lessons : SameKey("lessons", row, other) => row = other
    BY <1>3, <2>3
  <2> QED
    BY <2>4 DEF Seen!HomeworkOnce, SameKey, Keyed
<1>6. Named = Seen!People
  BY <1>3, RowFields DEF Named, Seen!People
<1>7. Named \subseteq tx.users
  <2>1. ASSUME NEW row \in db.links PROVE {row.teacher, row.student} \subseteq tx.users
    <3>1. \A column \in People : row[column] \in tx.users
      BY <2>1, PlanDone DEF Exact, Rows
    <3> QED
      BY <1>3, <2>1, <3>1, RowFields DEF People
  <2>2. ASSUME NEW row \in db.lessons PROVE {row.teacher, row.student} \subseteq tx.users
    <3>1. \A column \in People : Orphans(tx, "lessons", column) = {}
      BY <1>1, PlanDone DEF Consistent, Rows, People
    <3>2. \A column \in People : row[column] \in tx.users
      BY <1>3, <2>2, <3>1 DEF Orphans
    <3> QED
      BY <1>3, <2>2, <3>2, RowFields DEF People
  <2> QED
    BY <2>1, <2>2 DEF Named
<1>8. db'.users = db.users \union Seen!People
  BY <1>1, <1>2, <1>6, <1>7 DEF Follows, Exact
<1>9. ASSUME NEW row \in tx.links, NEW old \in db.links, SameRow("links", row, old)
      PROVE  row = Seen!WithStatus(old)
  <2>1. row \in LinkRow /\ old \in LinkRow
    BY <1>3, <1>9
  <2>2. /\ old.status # Null <=> StatusColumn \in db.schema
        /\ StatusColumn \in db.schema => row.status = old.status
        /\ StatusColumn \notin db.schema => row.status = "active"
    BY <1>1, <1>9, PlanDone DEF Consistent, StatusColumn, Exact
  <2>3. CASE old.status = Null
    <3>1. row = [old EXCEPT !.status = "active"]
      BY <1>9, <2>1, <2>2, <2>3 DEF LinkRow, SameRow
    <3> QED
      BY <2>3, <3>1 DEF Seen!WithStatus
  <2>4. CASE old.status # Null
    <3>1. row = old
      BY <1>9, <2>1, <2>2, <2>4 DEF LinkRow, SameRow
    <3> QED
      BY <2>4, <3>1 DEF Seen!WithStatus
  <2> QED
    BY <2>3, <2>4
<1>10. db'.links = {Seen!WithStatus(old) : old \in {r \in db.links : r.teacher # r.student}}
  <2>1. ASSUME NEW row \in tx.links
        PROVE  \E old \in db.links :
                    old.teacher # old.student /\ row = Seen!WithStatus(old)
    <3>1. PICK old \in db.links : SameRow("links", row, old)
      BY <1>1, <2>1 DEF Follows
    <3>2. row.teacher # row.student
      BY <1>1, <2>1, PlanDone DEF Consistent
    <3> QED
      BY <1>9, <2>1, <3>1, <3>2 DEF SameRow
  <2>2. ASSUME NEW old \in db.links, old.teacher # old.student
        PROVE  Seen!WithStatus(old) \in tx.links
    <3>1. PICK row \in tx.links : SameRow("links", row, old)
      BY <1>1, <2>2 DEF Follows
    <3> QED
      BY <1>9, <2>2, <3>1
  <2> QED
    BY <1>2, <2>1, <2>2
<1>11. (db.revision = LastRevision)' = TRUE
  BY <1>2 DEF LastRevision
<1>12. Seen!Migrate
  BY <1>2, <1>3, <1>4, <1>5, <1>8, <1>10, <1>11 DEF Seen!Migrate
<1> QED
  BY <1>12 DEF Seen!Next

\* Every step is one of the abstract tables or none.
LEMMA NextSeen ==
  ASSUME DeploymentInv, DeploymentInv', Exact, [DeploymentNext]_vars
  PROVE  [Seen!Next]_(Seen!tables)
<1>1. CASE db' = db
  BY <1>1 DEF Seen!tables, LastRevision
<1>2. CASE db' # db
  BY <1>2, WhoCommits, CommitSeen, DowngradeSeen, LogInSeen, AddLinkSeen, AddLessonSeen
<1> QED
  BY <1>1, <1>2

-----------------------------------------------------------------------------
(* The theorems.                                                           *)

\* The invariant is about these variables.
LEMMA DeploymentStuttersInv == DeploymentInv /\ UNCHANGED vars => DeploymentInv'
<1> SUFFICES ASSUME DeploymentInv, UNCHANGED vars PROVE DeploymentInv'
  OBVIOUS
<1>1. /\ UNCHANGED <<db, upgradeVars, disturbed, held, wants, script, code, server>>
  BY DEF vars, migrationVars, clientVars, deployVars
<1>2. DeploymentTypeOK /\ Scripted /\ DownOnlyWhenMigrated
  BY DEF DeploymentInv
<1>3. at' = at /\ outcome' = outcome
  BY <1>1 DEF upgradeVars
<1>4. Scripted' /\ DownOnlyWhenMigrated'
  BY <1>1, <1>2, <1>3 DEF Scripted, DownOnlyWhenMigrated
<1> QED
  BY <1>1, <1>2, <1>4, ElsewhereInv DEF DeploymentTypeOK

\* Every step keeps the invariant.
LEMMA DeploymentNextInv == DeploymentInv /\ [DeploymentNext]_vars => DeploymentInv'
<1> SUFFICES ASSUME DeploymentInv, [DeploymentNext]_vars PROVE DeploymentInv'
  OBVIOUS
<1>1. CASE DeploymentStep
  BY <1>1, MigrateInv, ScriptStepInv DEF DeploymentStep
<1>2. CASE BackendRestarts \/ Redeploy
  BY <1>2, ScriptStepInv
<1>3. CASE DowngradeByHand
  BY <1>3, DowngradeByHandInv
<1>4. CASE UpgradeStep /\ UNCHANGED deployVars
  BY <1>4, UpgradeStepInv
<1>5. CASE ClientStep /\ UNCHANGED deployVars
  BY <1>5, ReadInv, LogInInv, AddLinkInv, AddLessonInv DEF ClientStep
<1>6. CASE ResolveDeadlock /\ UNCHANGED deployVars
  BY <1>6, ResolveDeadlockInv
<1>7. CASE UNCHANGED vars
  BY <1>7, DeploymentStuttersInv
<1> QED
  BY <1>1, <1>2, <1>3, <1>4, <1>5, <1>6, <1>7 DEF DeploymentNext

\* Everything the deploy establishes, whatever the database held and whoever
\* wrote beside it.
THEOREM DeploymentInvariant == DeploymentSpec => []DeploymentInv
BY DeploymentInitInv, DeploymentNextInv, PTL DEF DeploymentSpec

\* The databases, the locks and the script keep their types.
THEOREM DeploymentTyped == DeploymentSpec => []DeploymentTypeOK
<1>1. DeploymentInv => DeploymentTypeOK
  BY DEF DeploymentInv
<1> QED
  BY <1>1, DeploymentInvariant, PTL

\* Once the last revision is committed the rows are what the models take for
\* granted, whatever the tables held before and whoever wrote beside the upgrade.
THEOREM DeploymentMigratedIsLegal == DeploymentSpec => []MigratedIsLegal
BY InvMigrated, DeploymentInvariant, PTL

\* An upgrade nobody disturbed fails only because of rows that share a key.
THEOREM DeploymentFailureExplained == DeploymentSpec => []FailureExplained
<1>1. DeploymentInv => FailureExplained
  BY DEF DeploymentInv
<1> QED
  BY <1>1, DeploymentInvariant, PTL

\* A deploy that fails to migrate leaves the previous backend serving.
THEOREM DeploymentDownOnlyWhenMigrated == DeploymentSpec => []DownOnlyWhenMigrated
<1>1. DeploymentInv => DownOnlyWhenMigrated
  BY DEF DeploymentInv
<1> QED
  BY <1>1, DeploymentInvariant, PTL

\* No commit loses an account, a lesson, its people or its homework, or the
\* relation of two different people.
THEOREM DeploymentNothingLost == DeploymentSpec => NothingLost
<1>1. DeploymentSpec => [][KeepsRows]_db
  BY DeploymentInvariant, NextKeepsRows, PTL DEF DeploymentSpec
<1> QED
  BY <1>1 DEF NothingLost, KeepsRows

\* To whoever reads or writes beside it, an upgrade of thirty-four statements
\* happens in one step or not at all (env.py's single transaction): accounts,
\* rows and statuses appear together, and what they become is a function of what
\* was committed, whatever was inserted while it ran.
THEOREM DeploymentImplementsRollout == DeploymentSpec => ImplementsRollout
<1>1. DeploymentInv /\ Exact /\ [DeploymentNext]_vars => (DeploymentInv /\ Exact)'
  BY DeploymentNextInv, NextExact
<1>2. DeploymentInv /\ DeploymentInv' /\ Exact /\ [DeploymentNext]_vars
        => [Seen!Next]_(Seen!tables)
  BY NextSeen
<1> QED
  BY <1>1, <1>2, DeploymentInitInv, InitExact, InitSeen, PTL
     DEF DeploymentSpec, ImplementsRollout, Seen!Spec
=============================================================================
