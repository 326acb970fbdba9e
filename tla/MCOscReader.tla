---------------------------- MODULE MCOscReader ----------------------------
(* In 16 words there is room for three bundles inside each other, or for one
   around a message with four arguments, whose tags take two words.  In 11 words
   the third bundle, and most messages inside one, overflow half way. *)
EXTENDS OscReader

CONSTANTS text, now

MCTexts   == {text}
MCWordsOf == [t \in MCTexts |-> 2]
MCTimes   == {now}
=============================================================================
