----------------------------- MODULE MCModelQuery -----------------------------
(***************************************************************************)
(* ModelQuery on prompts of up to five lines for a limit of three, and     *)
(* answers of up to five pieces.  Shrink is compared with what it is for.  *)
(***************************************************************************)
EXTENDS ModelQuery, SequencesExt

Prompts == BoundedSeq(LineKinds, 4)

GeneratedSets == { {} } \cup { {p} : p \in Prompts }
                 \cup { {<<"text", "decl">>, <<"text", "usage", "text", "decl", "text">>} }

AnswersToFive == BoundedSeq(PieceKinds, 5)

ASSUME ShrinksToFive == \A p \in BoundedSeq(LineKinds, 5) : ShrinkIsLeast(p)
===============================================================================
