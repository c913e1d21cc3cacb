------------------------------ MODULE MCQueueGet ------------------------------
(* QueueGet for TLC: two consumers and three messages. *)
EXTENDS QueueGet, TLC

\* Conversion doubles the first two, of which the second does not fit in what is
\* asked for the first, and makes the third outgrow the doubled length.
MCRaw == <<3, 4, 3>>
MCConverted == <<6, 8, 9>>
\* Two that outgrow the doubled length: the first fits unconverted.
OutgrowingRaw == <<1, 3>>
OutgrowingConverted == <<3, 7>>

ConsumerSymmetry == Permutations(Consumer)
=============================================================================
