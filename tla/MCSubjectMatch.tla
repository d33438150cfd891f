--------------------------- MODULE MCSubjectMatch ---------------------------
(* Two literals, both wildcards, a literal that contains '*' and one that    *)
(* contains '>', in patterns and subjects of up to three segments.           *)
EXTENDS SubjectMatch

MCSegment == {"a", "b", "*", ">", "a*", "a>"}
MCStarred == {"*", "a*"}
MCArrowed == {">", "a>"}
=============================================================================
