--------------------------- MODULE MCDerivedState ---------------------------
(* Instance of DerivedState for TLC. *)
EXTENDS DerivedState

\* The URL a source offers each text at: the revised text, of a trade that is
\* never covered, moves to a new one.
MCUrlOf == [text \in Texts |-> IF text = 1 THEN 1 ELSE MaxUrl]
MCLinks == {<<text, MCUrlOf[text]>> : text \in Texts}
=============================================================================
