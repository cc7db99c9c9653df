----------------------------- MODULE MCExplode ------------------------------
(***************************************************************************)
(* All strings up to MaxLength over a letter and the two characters of the *)
(* delimiter ", ".                                                         *)
(***************************************************************************)
EXTENDS Explode, SequencesExt

CONSTANTS
  MaxLength           \* bound: length of a subject

Characters == {"a", ",", " "}
Blanks == {" "}
AllStrings == SeqOf(Characters, MaxLength)
CommaSpace == <<",", " ">>
LetterAndComma == SeqOf({"a", ","}, MaxLength)
Comma == {<<",">>}
Separators == {CommaSpace, <<" ">>, <<",">>}
=============================================================================
