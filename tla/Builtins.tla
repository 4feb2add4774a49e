------------------------------ MODULE Builtins ------------------------------
(***************************************************************************)
(* The alloc callbacks of the built-in types that are not floating point   *)
(* (src/src/theft_aux_builtin.c), on the bits of Random, and callbacks of  *)
(* the user that make a choice or a bulk request.  A request begins in one *)
(* action and what it got is used in a later one, when Random is idle.     *)
(***************************************************************************)
EXTENDS Random, Sequences

CONSTANTS
  SpecialBits, IndexBits,  \* 3 and 8: bits of the draw for a special value
  CharBits, ArrayCeil,     \* 8 and DEF_BYTE_ARRAY_CEIL
  MemoryCeil,              \* the largest array for which there is memory
  Types,                   \* the types: a kind, a width and special values
  Garbage                  \* the bits a bulk buffer may be full of beforehand

NoEnv == 0     \* env is NULL; a limit is not 0
Kinds == {"bool", "unsigned", "signed", "int", "chars", "choice",
          "bulk"}

ASSUME BuiltinsAssumption ==
  /\ {SpecialBits, IndexBits, CharBits} \subseteq 1 .. WordBits
  /\ ArrayCeil \in Nat \ {0}
  /\ MemoryCeil \in Nat
  /\ Garbage \subseteq {0, 1}
  /\ \A t \in Types :
       /\ t.kind \in Kinds /\ t.bits \in 1 .. WordBits
       /\ t.special \in Seq(Int)
       /\ t.kind \in {"unsigned", "signed", "int"} => t.special # <<>>

VARIABLES
  type, env,     \* ti and its env: a limit, a length, or the choice's ceil
  doing,         \* what the alloc callback is waiting for
  value,         \* *res, for a scalar
  chars, ceil,   \* what was written to the array, and its allocated size
  ares           \* what the alloc callback returned

allocVars == <<type, env, doing, value, chars, ceil, ares>>

(* The first n bits of w as a number.                                      *)
Number(w, n) ==
  LET low[k \in 0 .. n] == IF k = 0 THEN 0 ELSE low[k - 1] + w[k - 1] * 2^(k - 1)
  IN  low[n]

(* Bits, or a special value, in a type of t.bits bits, with or without sign.*)
Unsigned(t, n) == n % 2^t.bits
Signed(t, n) ==
  LET u == Unsigned(t, n) IN IF u >= 2^(t.bits - 1) THEN u - 2^t.bits ELSE u

(* The % of C, for a positive b: the sign is that of a.                    *)
Remainder(a, b) == IF a < 0 THEN 0 - ((0 - a) % b) ELSE a % b

(* A bug: from the limit up only.                                          *)
LimitAbove(t, n, limit) ==
  CASE t.kind = "signed" -> (LET s == Signed(t, n) IN
                              IF s >= limit THEN Remainder(s, limit) ELSE s)
    [] t.kind = "int"      -> Signed(t, n)
    [] OTHER               -> Unsigned(t, n) % limit

(***************************************************************************)
(* The limits of the allocators.  That of int does its arithmetic in an    *)
(* unsigned type, in which -limit is 2^bits - limit: what is below is left *)
(* as it is by % -limit, and what is not is cut by % limit.                *)
(* A signed limit of 1 computes the least value % -1.  For types narrower  *)
(* than int, which are promoted, that is 0; for the others it is undefined:*)
(* a build gives 0, or a trap ends the process and the behaviour with it,  *)
(* as a behaviour may end anywhere without fairness.                       *)
(***************************************************************************)
Limit(t, n, limit) ==
  CASE t.kind = "signed" ->
         (LET s == Signed(t, n) IN
          IF s < 0 - limit \/ s >= limit THEN Remainder(s, limit) ELSE s)
    [] t.kind = "int" ->
         (LET u == Unsigned(t, n) IN
          IF u < 2^t.bits - limit THEN Signed(t, u)
          ELSE Signed(t, IF u >= limit THEN u % limit ELSE u))
    [] OTHER -> Unsigned(t, n) % limit

(* The value stored: without a limit, the bits as the type reads them.     *)
Stored(t, n, e) ==
  CASE t.kind = "bool"   -> n
    [] t.kind = "bulk"   -> 0
    [] t.kind = "choice" -> Choice(e, n)
    [] OTHER             ->
         IF e # NoEnv THEN Limit(t, n, e)
         ELSE IF t.kind = "unsigned" THEN Unsigned(t, n) ELSE Signed(t, n)

Scalar(t) == t.kind \in {"unsigned", "signed", "int"}

(* All of the first draw's bits set: a special value follows.              *)
UseSpecial(n) == n = 2^SpecialBits - 1

SpecialValue(t, n) == t.special[(n % Len(t.special)) + 1]

NoType == [kind |-> "none", bits |-> 1, special |-> <<>>]

AllocInit ==
  /\ type = NoType /\ env = NoEnv
  /\ doing = "none" /\ value = 0 /\ chars = <<>> /\ ceil = 0 /\ ares = "none"

Returns(r) == doing' = "done" /\ ares' = r

(* theft_random_bits: at most a word, into one that is zero.               *)
RequestBits(n) == Ask(n, ZeroWord)

(* theft_random_bits_bulk: a buffer large enough, with anything in it.     *)
RequestBulk(n) ==
  \E g \in Garbage : Ask(n, [j \in BitsOfWords(WordsFor(n)) |-> g])

(* The caller takes what the callback has returned.                        *)
AllocTaken ==
  /\ doing = "done"
  /\ doing' = "none"
  /\ UNCHANGED <<type, env, value, chars, ceil, ares>>

(* The callback is called, and allocates.                                  *)
AllocBegins(t, e) ==
  /\ doing = "none"
  /\ type' = t /\ env' = e
  /\ value' = 0 /\ chars' = <<>> /\ ares' = "none"
  /\ ceil' = IF t.kind = "chars" THEN ArrayCeil ELSE 0
  /\ doing' = "begun"

Custom(t) == t.kind \in {"choice", "bulk"}

MallocFails ==
  /\ doing = "begun" /\ ~ Custom(type)
  /\ Returns("ERROR")
  /\ UNCHANGED <<type, env, value, chars, ceil, randomVars>>

(* A callback of the user's may give up.                                   *)
CustomSkips ==
  /\ doing = "begun" /\ Custom(type)
  /\ Returns("SKIP")
  /\ UNCHANGED <<type, env, value, chars, ceil, randomVars>>

(* The first request for bits; an array's are asked for in its loop.       *)
FirstRequest ==
  /\ doing = "begun"
  /\ CASE type.kind = "chars"  -> doing' = "chars" /\ UNCHANGED randomVars
       [] type.kind = "bool"   -> doing' = "value" /\ RequestBits(1)
       [] type.kind = "choice" -> doing' = "value" /\ RequestBits(ChoiceBits(env))
       [] type.kind = "bulk"   -> doing' = "value" /\ RequestBulk(env)
       [] OTHER                -> doing' = "special" /\ RequestBits(SpecialBits)
  /\ UNCHANGED <<type, env, value, chars, ceil, ares>>

SecondRequest ==
  /\ doing = "special" /\ at = "idle"
  /\ IF UseSpecial(Number(out, SpecialBits))
     THEN doing' = "index" /\ RequestBits(IndexBits)
     ELSE doing' = "value" /\ RequestBits(type.bits)
  /\ UNCHANGED <<type, env, value, chars, ceil, ares>>

StoreValue ==
  /\ doing \in {"index", "value"} /\ at = "idle"
  /\ LET n == Number(out, want) IN
     value' = Stored(type, IF doing = "index" THEN SpecialValue(type, n) ELSE n, env)
  /\ Returns("OK")
  /\ UNCHANGED <<type, env, chars, ceil, randomVars>>

(* A bug: the length is one more.                                          *)
AtMaxLengthLate == env # NoEnv /\ Len(chars) = env

AtMaxLength == env # NoEnv /\ Len(chars) + 1 = env

(***************************************************************************)
(* The top of char_ARRAY_alloc's loop.  Len(chars) is size.  The test for  *)
(* the maximal length comes first, and does not look at ceil.              *)
(***************************************************************************)
ArrayEnds ==
  /\ doing = "chars" /\ AtMaxLength
  /\ chars' = Append(chars, 0)
  /\ Returns("OK")
  /\ UNCHANGED <<type, env, value, ceil, randomVars>>

ArrayGrows(ok) ==
  /\ doing = "chars" /\ ~ AtMaxLength
  /\ Len(chars) = ceil
  /\ IF ok THEN /\ 2 * ceil <= MemoryCeil
                /\ ceil' = 2 * ceil /\ doing' = "byte"
                /\ RequestBits(CharBits)
                /\ UNCHANGED ares
           ELSE Returns("ERROR") /\ UNCHANGED <<ceil, randomVars>>
  /\ UNCHANGED <<type, env, value, chars>>

ArrayGoesOn ==
  /\ doing = "chars" /\ ~ AtMaxLength
  /\ Len(chars) # ceil
  /\ doing' = "byte"
  /\ RequestBits(CharBits)
  /\ UNCHANGED <<type, env, value, chars, ceil, ares>>

StoreByte ==
  /\ doing = "byte" /\ at = "idle"
  /\ LET byte == Number(out, CharBits) IN
     /\ chars' = Append(chars, byte)
     /\ IF byte = 0 THEN Returns("OK") ELSE doing' = "chars" /\ UNCHANGED ares
  /\ UNCHANGED <<type, env, value, ceil, randomVars>>

AllocStep ==
  \/ MallocFails \/ CustomSkips \/ FirstRequest \/ SecondRequest \/ StoreValue
  \/ ArrayEnds \/ (\E ok \in BOOLEAN : ArrayGrows(ok)) \/ ArrayGoesOn \/ StoreByte
  \/ ServeStep /\ UNCHANGED allocVars

-----------------------------------------------------------------------------
(* Properties.                                                             *)

Allocated == doing = "done" /\ ares = "OK"

InRange(t, v, e) ==
  CASE t.kind = "unsigned"           -> v \in 0 .. e - 1
    [] t.kind \in {"signed", "int"} -> v \in 0 - e .. e - 1
    [] OTHER                         -> TRUE

(***************************************************************************)
(* "the generator will produce values -limit <= x < limit", for a special  *)
(* value as for any other; of an array, no more than max_length elements.  *)
(* The type int is left out: LimitOfInt says what becomes of its limit.    *)
(***************************************************************************)
LimitsKept ==
  Allocated /\ env # NoEnv =>
    /\ type.kind # "int" => InRange(type, value, env)
    /\ type.kind = "chars" => Len(chars) <= env

(* The same of the type int.                                               *)
LimitOfInt ==
  Allocated /\ env # NoEnv /\ type.kind = "int" => InRange(type, value, env)

(***************************************************************************)
(* A choice below ceil is below ceil, although it is made in floating      *)
(* point.  The one exception is a draw of a whole word so close to 2^64    *)
(* that it is rounded up to it.                                            *)
(***************************************************************************)
ChoiceBelowCeil ==
  Allocated /\ type.kind = "choice" /\ env > 1 =>
    \/ value < env
    \/ want = WordBits /\ ~ PowerOfTwo(env) /\ Rounded(Number(out, want)) = 2^WordBits

(***************************************************************************)
(* The bytes of an array are written inside its allocation, at every       *)
(* length.  The one exception is the terminator of an array whose maximal  *)
(* length is one more than a size it was allocated with.                   *)
(***************************************************************************)
InsideArray ==
  Len(chars) <= ceil \/ (env = ceil + 1 /\ Len(chars) = env)
=============================================================================
