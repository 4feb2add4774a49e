------------------------------ MODULE MCEntry ------------------------------
(* Entry with words of eight bits and types of four.                       *)
EXTENDS Entry

CONSTANTS Period,    \* the streams repeat after so many bits
          Cases      \* which of the configurations below

(* Every sequence of Period bits, again and again.                         *)
MCSeeds == 0 .. 2^Period - 1
MCStream(s, n) == (s \div 2^(n % Period)) % 2

T(kind, bits, special) == [kind |-> kind, bits |-> bits, special |-> special]
Uint == T("unsigned", 4, <<0, 7, 14, 15>>)
Sint == T("signed", 4, <<0, -1, -8, 7, 3>>)
Int4 == T("int", 4, <<0, -1, -8, 7, 3>>)
Bool == T("bool", 1, <<>>)
Chars == T("chars", 2, <<>>)
Choose1 == T("choice", 1, <<>>)
Bulk == T("bulk", 1, <<>>)
MCTypes == {Uint, Sint, Int4, Bool, Chars, Choose1, Bulk}

(* The types and what their env may be.                                    *)
Typed ==
  ({Uint, Sint} \X {0, 1, 3, 7}) \union ({Int4} \X {0}) \union ({Bool} \X {0})
    \union ({Chars} \X {0, 1, 2, 3, 5})
    \union ({Choose1} \X {0, 1, 3, 4, 6, 9, 13, 129, 255}) \union ({Bulk} \X {0, 11})

Arg(te, auto) ==
  [type |-> te[1], env |-> te[2], alloc |-> TRUE, shrink |-> FALSE,
   hash |-> FALSE, auto |-> auto]

Conf(entry, as, props, seeded, stock) ==
  [entry |-> entry, args |-> as, props |-> props, seeded |-> seeded,
   stock |-> stock]

(* An instance of each type, directly and as the arguments of a trial.     *)
Generates == {Conf("generate", <<Arg(te, TRUE)>>, {1}, TRUE, TRUE) : te \in Typed}
Trials ==
  {Conf("run", <<Arg(te, a)>>, {1}, TRUE, a) : te \in Typed, a \in BOOLEAN}
    \union {Conf("run", <<Arg(<<Bool, 0>>, a), Arg(<<Bulk, 11>>, b)>>, {1, 2}, TRUE, FALSE) :
              a \in BOOLEAN, b \in BOOLEAN}

(* Callbacks missing or too many, no type, a property of another arity.    *)
Odd(alloc, shrink, hash, auto) ==
  [type |-> Bool, env |-> 0, alloc |-> alloc, shrink |-> shrink,
   hash |-> hash, auto |-> auto]
Checks ==
  {Conf("run", as, props, FALSE, stock) :
     as \in {<<>>} \union {<<Arg(<<Bool, 0>>, TRUE), Odd(a, s, h, o)>> :
               a \in BOOLEAN, s \in BOOLEAN, h \in BOOLEAN, o \in BOOLEAN},
     props \in {{1}, {2}}, stock \in BOOLEAN}
    \union {Conf("generate", <<>>, {1}, FALSE, TRUE)}

IntLimits == {Conf("generate", <<Arg(<<Int4, 3>>, TRUE)>>, {1}, TRUE, TRUE)}

MCConfigs ==
  CASE Cases = "all" -> Generates \union Trials \union Checks
    [] Cases = "int" -> IntLimits
=============================================================================
