----------------------------- MODULE MCCodeEdit -----------------------------
(* Instances of CodeEdit for TLC: a template and one more text for the     *)
(* Playground, one text for a chapter.                                     *)
EXTENDS CodeEdit

EditorTexts == {<<s, n>> \in Slots \X (0 .. 1) : s = User \/ n = 1}
NoNumber == -1
=============================================================================
