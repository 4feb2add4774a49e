---------------------------- MODULE MCAutoshrink ----------------------------
(* Autoshrink with small words and two alloc callbacks.                    *)
EXTENDS Autoshrink

CONSTANT Callback     \* which of the callbacks below

(* One bit says whether two pairs follow, or one bulk request of five bits.*)
Either(g) ==
  CASE Len(g) = 0                    -> 1
    [] Len(g) \in {1, 3} /\ g[1] = 1 -> 2
    [] Len(g) = 1 /\ g[1] = 0        -> 5
    [] OTHER                         -> 0

(* A single word.                                                          *)
OneWord(g) == IF g = <<>> THEN WordBits ELSE 0

(* A bulk request of two words.                                            *)
TwoWords(g) == IF g = <<>> THEN 2 * WordBits ELSE 0

MCWants(g) ==
  CASE Callback = "either" -> Either(g)
    [] Callback = "word"   -> OneWord(g)
    [] Callback = "words"  -> TwoWords(g)

MCBulk(g) == Wide(MCWants(g))

MCWords == {<<1, 1, 0, 1>>, <<0, 1, 1, 0>>}
OnesWords == {<<1, 1>>}

(* From their first value, weights reach either end of their range.        *)
MCLeast == [a \in Actions |-> 2]
MCMost == [a \in Actions |-> IF a \in {"DROP", "MASK"} THEN 4 ELSE 3]
MCFirst == [a \in Actions |-> 3]
=============================================================================
