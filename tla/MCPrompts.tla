----------------------------- MODULE MCPrompts -----------------------------
(* An instance of Prompts for TLC: every input of up to seven characters,   *)
(* and up to three questions.                                               *)
EXTENDS Prompts

MCTexts == UNION {[1..n -> {"a", "nl"}] : n \in 0..7}

MCQuestions == UNION {[1..n -> BOOLEAN] : n \in 0..3}
=============================================================================
