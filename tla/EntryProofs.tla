---------------------------- MODULE EntryProofs ----------------------------
(***************************************************************************)
(* What theft_run_init allocates is freed, requests for bits get the       *)
(* seed's stream, arrays are written inside their allocation, limits are   *)
(* kept, and a seed stands for one instance: for every configuration,      *)
(* every generator and every callback.                                     *)
(***************************************************************************)
EXTENDS Entry, RandomProofs

(* Where theft_run_init is done and theft_run_free not yet called.         *)
Running == {"trials", "arg", "alloc", "generating", "halted"}

(***************************************************************************)
(* What is allocated at each point: the struct and its generator, then     *)
(* perhaps the filter, then the stock hook's environment.  "free" may be   *)
(* reached with that environment, from theft_generate, or without it.      *)
(***************************************************************************)
HeapAtPoint ==
  /\ pc \in {"init", "check", "hooks", "free", "over"} \union Running
  /\ pc = "init" => heap = {}
  /\ pc = "check" => heap = {"t", "rng"}
  /\ pc = "hooks" => heap \subseteq {"t", "rng", "bloom"}
  /\ pc \in {"hooks", "free"} \union Running => {"t", "rng"} \subseteq heap
  /\ heap \subseteq {"t", "rng", "bloom", "env"}
  /\ pc \in Running /\ cfg.stock => "env" \in heap

Inv == AllFreed /\ HeapAtPoint

LEMMA Initially == Init => Inv
  BY DEF Init, Inv, AllFreed, HeapAtPoint, Running

LEMMA InitKeeps ==
  ASSUME Inv,
         \/ \E ok \in BOOLEAN : InitMemory(ok) \/ InitHooks(ok)
         \/ InitRefuses
         \/ \E s \in Seeds, ok \in BOOLEAN : InitSeeds(s, ok)
  PROVE  Inv'
<1>1. ASSUME NEW ok \in BOOLEAN, InitMemory(ok) PROVE Inv'
  BY <1>1 DEF Inv, AllFreed, HeapAtPoint, Running, InitMemory, Return
<1>2. ASSUME NEW ok \in BOOLEAN, InitHooks(ok) PROVE Inv'
  BY <1>2 DEF Inv, AllFreed, HeapAtPoint, Running, InitHooks, Return
<1>3. CASE InitRefuses
  BY <1>3 DEF Inv, AllFreed, HeapAtPoint, Running, InitRefuses, Return, Free
<1>4. ASSUME NEW s \in Seeds, NEW ok \in BOOLEAN, InitSeeds(s, ok) PROVE Inv'
  BY <1>4 DEF Inv, AllFreed, HeapAtPoint, Running, InitSeeds
<1> QED BY <1>1, <1>2, <1>3, <1>4

LEMMA TrialsKeep ==
  ASSUME Inv,
         \/ GenerateAlloc \/ GenerateDone
         \/ \E s \in Seeds : TrialBegins(s)
         \/ ArgPool \/ ArgBegins \/ ArgDone \/ TrialEnds
  PROVE  Inv'
<1>1. UNCHANGED <<heap, misuse, cfg>>
  BY DEF GenerateAlloc, GenerateDone, TrialBegins, ArgPool, ArgBegins, ArgDone,
         TrialEnds, entryVars
<1>2. pc \in Running /\ pc' \in Running \union {"free"}
  BY DEF GenerateAlloc, GenerateDone, TrialBegins, ArgPool, ArgBegins, ArgDone,
         TrialEnds, entryVars, Running
<1> QED BY <1>1, <1>2 DEF Inv, AllFreed, HeapAtPoint, Running

LEMMA FreeKeeps ==
  ASSUME Inv,
         RunFree \/ \E r \in {"PASS", "FAIL", "SKIP", "ERROR"} : RunTrialsReturns(r)
  PROVE  Inv'
<1>1. CASE RunFree
  BY <1>1 DEF Inv, AllFreed, HeapAtPoint, Running, RunFree, Free, RunFreeObjects
<1>2. ASSUME NEW r, RunTrialsReturns(r) PROVE Inv'
  BY <1>2 DEF Inv, AllFreed, HeapAtPoint, Running, RunTrialsReturns, TrialsFree,
              Free
<1> QED BY <1>1, <1>2

LEMMA InvKeeps == Inv /\ [Next]_vars => Inv'
<1> SUFFICES ASSUME Inv, [Next]_vars PROVE Inv'
  OBVIOUS
<1>1. CASE EntryStep
  BY <1>1, InitKeeps, TrialsKeep, FreeKeeps DEF EntryStep
<1>2. CASE UNCHANGED entryVars
  BY <1>2 DEF Inv, AllFreed, HeapAtPoint, Running, entryVars
<1> QED BY <1>1, <1>2 DEF Next, Over, vars

(***************************************************************************)
(* theft_run and theft_generate free all that theft_run_init allocated,    *)
(* once, on every path but its return for lack of memory for the stock     *)
(* hook's environment (src/src/theft_run.c:113).                           *)
(***************************************************************************)
THEOREM EverythingIsFreed == Spec => []AllFreed
<1>1. Inv => AllFreed
  BY DEF Inv
<1> QED BY Initially, InvKeeps, <1>1, PTL DEF Spec

-----------------------------------------------------------------------------
(* The bits of requests.                                                   *)

Results == {"none", "OK", "PASS", "FAIL", "SKIP", "ERROR", "ERROR_ALLOC",
            "ERROR_MEMORY", "ERROR_BAD_ARGS"}

ArgInfos == [type : Types, env : 0 .. 2^WordBits - 1, alloc : BOOLEAN,
             shrink : BOOLEAN, hash : BOOLEAN, auto : BOOLEAN]

(* Arguments are generated only of configurations that have some.          *)
ArgTypes ==
  /\ cfg \in Configs
  /\ trial \in 0 .. MaxTrials /\ argi \in 1 .. Arity + 1
  /\ type \in Types \union {NoType}
  /\ env \in Nat /\ env < 2^WordBits
  /\ misuse \in BOOLEAN /\ result \in Results
  /\ pc \in {"hooks"} \union Running => Arity > 0
  /\ pc \in {"init", "check", "hooks", "alloc"} => argi = 1
  /\ pc = "generating" => argi <= Arity
  /\ pc = "alloc" => cfg.entry # "run"
  /\ pc = "arg" \/ (pc = "generating" /\ cfg.entry = "run") => trial < MaxTrials

LEMMA ConfigArgs ==
  ASSUME cfg \in Configs
  PROVE  cfg.args \in Seq(ArgInfos) /\ Arity \in Nat
<1>1. cfg.args \in Seq(ArgInfos)
  BY EntryAssumption DEF ConfigOK, ArgInfos
<1> HIDE DEF ArgInfos
<1> QED
  BY <1>1 DEF Arity

LEMMA ArgInfo ==
  ASSUME ArgTypes, argi <= Arity
  PROVE  Info.type \in Types /\ Info.env \in Nat /\ Info.env < 2^WordBits
<1>1. cfg.args \in Seq(ArgInfos) /\ argi \in 1 .. Len(cfg.args)
  BY ConfigArgs DEF ArgTypes, Arity
<1>2. cfg.args[argi] \in ArgInfos
  BY <1>1
<1>3. 2^WordBits \in Nat
  BY TopIs, Powers
<1> QED
  BY <1>2, <1>3 DEF Info, ArgInfos

LEMMA BitsRequested ==
  ASSUME StreamInv, NEW n \in 0 .. WordBits, RequestBits(n)
  PROVE  StreamInv'
<1>1. ZeroWord \in [0 .. WordBits - 1 -> {0, 1}]
  BY DEF ZeroWord
<1> QED
  BY <1>1, AskKeeps, Width DEF RequestBits

LEMMA BulkRequested ==
  ASSUME StreamInv, NEW n \in Nat, RequestBulk(n)
  PROVE  StreamInv'
<1>1. PICK g \in Garbage : Ask(n, [j \in BitsOfWords(WordsFor(n)) |-> g])
  BY DEF RequestBulk
<1> DEFINE m == WordsFor(n) * WordBits
<1>2. m \in Nat /\ n <= m
  BY WordsEnough, Width
<1>3. [j \in BitsOfWords(WordsFor(n)) |-> g] \in [0 .. m - 1 -> {0, 1}]
  BY BuiltinsAssumption DEF BitsOfWords
<1> HIDE DEF m
<1> QED
  BY <1>1, <1>2, <1>3, AskKeeps

LEMMA RandomUnchanged ==
  ASSUME StreamInv, UNCHANGED randomVars
  PROVE  StreamInv'
BY DEF randomVars, prngVars, requestVars, StreamInv, NumberTypes, BufferFollows,
       PoolFollows, Buffers, RequestPoint, Taking, Copying, Served, Done, Position,
       Pooled

(* The alloc callbacks ask for no more than a word, or have room for it.   *)
LEMMA CallbackKeeps ==
  ASSUME StreamInv, ArgTypes, AllocStep
  PROVE  StreamInv'
<1>1. {1, SpecialBits, IndexBits, CharBits} \subseteq 0 .. WordBits
  BY Width, BuiltinsAssumption
<1>2. type.bits \in 0 .. WordBits
  BY Width, BuiltinsAssumption DEF ArgTypes, NoType
<1>3. CASE MallocFails \/ CustomSkips \/ StoreValue \/ ArrayEnds \/ StoreByte
  BY <1>3, RandomUnchanged
     DEF MallocFails, CustomSkips, StoreValue, ArrayEnds, StoreByte
<1>4. CASE FirstRequest
  <2>1. \/ UNCHANGED randomVars
        \/ \E n \in {1, SpecialBits, ChoiceBits(env)} : RequestBits(n)
        \/ RequestBulk(env)
    BY <1>4 DEF FirstRequest
  <2>2. env \in Nat /\ ChoiceBits(env) \in 0 .. WordBits
    BY ChoiceBitsAre DEF ArgTypes
  <2> QED
    BY <1>1, <2>1, <2>2, RandomUnchanged, BitsRequested, BulkRequested
<1>5. CASE SecondRequest
  <2>1. RequestBits(IndexBits) \/ RequestBits(type.bits)
    BY <1>5 DEF SecondRequest
  <2> QED
    BY <1>1, <1>2, <2>1, BitsRequested
<1>6. ASSUME NEW ok \in BOOLEAN, ArrayGrows(ok) PROVE StreamInv'
  <2>1. RequestBits(CharBits) \/ UNCHANGED randomVars
    BY <1>6 DEF ArrayGrows
  <2> QED
    BY <1>1, <2>1, RandomUnchanged, BitsRequested
<1>7. CASE ArrayGoesOn
  BY <1>1, <1>7, BitsRequested DEF ArrayGoesOn
<1>8. CASE ServeStep
  BY <1>8, ServeKeeps
<1> QED
  BY <1>3, <1>4, <1>5, <1>6, <1>7, <1>8 DEF AllocStep

LEMMA CallerKeeps ==
  ASSUME StreamInv, EntryStep
  PROVE  StreamInv'
<1>1. ASSUME NEW ok \in BOOLEAN, InitMemory(ok) \/ InitHooks(ok) PROVE StreamInv'
  BY <1>1, RandomUnchanged DEF InitMemory, InitHooks, Quiet
<1>2. CASE InitRefuses \/ GenerateAlloc \/ GenerateDone \/ ArgBegins \/ RunFree
  BY <1>2, RandomUnchanged
     DEF InitRefuses, GenerateAlloc, GenerateDone, ArgBegins, RunFree, Quiet
<1>3. ASSUME NEW s \in Seeds, NEW ok \in BOOLEAN, InitSeeds(s, ok) \/ TrialBegins(s)
      PROVE  StreamInv'
  BY <1>3, SetSeedKeeps DEF InitSeeds, TrialBegins
<1>4. CASE ArgPool
  BY <1>4, PoolKeeps DEF ArgPool
<1>5. CASE ArgDone
  BY <1>5, RandomUnchanged, PoolKeeps DEF ArgDone
<1>6. CASE TrialEnds
  BY <1>6, BitsRequested, Width DEF TrialEnds
<1>7. ASSUME NEW r, RunTrialsReturns(r) PROVE StreamInv'
  BY <1>7, RandomUnchanged DEF RunTrialsReturns, Quiet
<1> QED
  BY <1>1, <1>2, <1>3, <1>4, <1>5, <1>6, <1>7 DEF EntryStep

LEMMA ArgsBegin == Init => ArgTypes
<1> SUFFICES ASSUME Init PROVE ArgTypes
  OBVIOUS
<1>1. cfg \in Configs /\ Arity \in Nat
  BY ConfigArgs DEF Init
<1>2. trial = 0 /\ argi = 1 /\ pc = "init" /\ misuse = FALSE /\ result = "none"
  BY DEF Init
<1>3. type = NoType /\ env = 0
  BY DEF Init, AllocInit, NoEnv
<1>4. 0 \in 0 .. MaxTrials /\ 1 \in 1 .. Arity + 1
  BY <1>1, EntryAssumption
<1>5. 0 < 2^WordBits
  BY TopIs, Powers
<1> QED
  BY <1>1, <1>2, <1>3, <1>4, <1>5 DEF ArgTypes, Results, Running

(* Nothing before the trials, or after them, changes what is generated.    *)
LEMMA InitArgs ==
  ASSUME ArgTypes,
         \/ \E ok \in BOOLEAN : InitMemory(ok) \/ InitHooks(ok)
         \/ InitRefuses
         \/ \E s \in Seeds, ok \in BOOLEAN : InitSeeds(s, ok)
         \/ \E r \in {"PASS", "FAIL", "SKIP", "ERROR"} : RunTrialsReturns(r)
         \/ RunFree
  PROVE  ArgTypes'
<1>1. /\ UNCHANGED <<cfg, trial, argi, type, env>>
      /\ misuse' \in BOOLEAN /\ result' \in Results
  BY DEF ArgTypes, InitMemory, InitHooks, InitRefuses, InitSeeds, RunTrialsReturns,
         TrialsFree, RunFree, Free, Return, Quiet, allocVars, Results
<1>2. \/ pc' \in {"free", "over"}
      \/ pc' = "check" /\ argi = 1
      \/ pc' = "hooks" /\ argi = 1 /\ Arity > 0
      \/ pc' = "trials" /\ Arity > 0
      \/ pc' = "alloc" /\ argi = 1 /\ Arity > 0 /\ cfg.entry # "run"
  BY DEF ArgTypes, InitMemory, InitHooks, InitRefuses, InitSeeds, RunTrialsReturns,
         RunFree, Return, ArgsChecked
<1> QED
  BY <1>1, <1>2 DEF ArgTypes, Arity, Running

LEMMA TrialArgs ==
  ASSUME ArgTypes,
         \/ GenerateAlloc \/ GenerateDone
         \/ \E s \in Seeds : TrialBegins(s)
         \/ ArgPool \/ ArgBegins \/ ArgDone \/ TrialEnds
  PROVE  ArgTypes'
<1> USE DEF ArgTypes, Running
<1>1. Arity \in Nat /\ MaxTrials \in Nat
  BY ConfigArgs, EntryAssumption
<1>2. cfg' = cfg => Arity' = Arity
  BY DEF Arity
<1>3. CASE GenerateAlloc
  <2>1. Info.type \in Types /\ Info.env \in Nat /\ Info.env < 2^WordBits
    BY <1>1, <1>3, ArgInfo DEF GenerateAlloc
  <2> QED
    BY <1>1, <1>3, <1>2, <2>1 DEF GenerateAlloc, AllocBegins
<1>4. CASE GenerateDone
  BY <1>1, <1>4, <1>2 DEF GenerateDone, AllocTaken, Results
<1>5. ASSUME NEW s \in Seeds, TrialBegins(s) PROVE ArgTypes'
  BY <1>1, <1>5, <1>2 DEF TrialBegins, allocVars
<1>6. CASE ArgPool
  BY <1>1, <1>6, <1>2 DEF ArgPool, entryVars, allocVars
<1>7. CASE ArgBegins
  <2>1. Info.type \in Types /\ Info.env \in Nat /\ Info.env < 2^WordBits
    BY <1>7, ArgInfo DEF ArgBegins
  <2> QED
    BY <1>1, <1>7, <1>2, <2>1 DEF ArgBegins, AllocBegins
<1>8. CASE ArgDone
  BY <1>1, <1>8, <1>2 DEF ArgDone, AllocTaken
<1>9. CASE TrialEnds
  BY <1>1, <1>9, <1>2 DEF TrialEnds, allocVars
<1> QED
  BY <1>3, <1>4, <1>5, <1>6, <1>7, <1>8, <1>9

LEMMA ArgsKeep ==
  ASSUME ArgTypes, [Next]_vars
  PROVE  ArgTypes'
<1>1. CASE EntryStep
  BY <1>1, InitArgs, TrialArgs DEF EntryStep
<1>2. CASE AllocStep /\ UNCHANGED entryVars
  <2>1. UNCHANGED <<type, env>>
    BY <1>2 DEF AllocStep, MallocFails, CustomSkips, FirstRequest, SecondRequest,
           StoreValue, ArrayEnds, ArrayGrows, ArrayGoesOn, StoreByte, allocVars
  <2> QED
    BY <1>2, <2>1 DEF ArgTypes, entryVars, Arity
<1>3. CASE UNCHANGED vars
  BY <1>3 DEF vars, entryVars, allocVars, ArgTypes, Arity
<1> QED
  BY <1>1, <1>2, <1>3 DEF Next, Over

(* The inductive invariant: nothing of it but HeapAtPoint is about memory. *)
BitsInv == Inv /\ ArgTypes /\ StreamInv

LEMMA BitsKeep == BitsInv /\ [Next]_vars => BitsInv'
<1> SUFFICES ASSUME BitsInv, [Next]_vars PROVE BitsInv'
  OBVIOUS
<1>1. Inv'
  BY InvKeeps DEF BitsInv
<1>2. ArgTypes'
  BY ArgsKeep DEF BitsInv
<1>3. StreamInv'
  BY CallbackKeeps, CallerKeeps, RandomUnchanged DEF BitsInv, Next, Over, vars
<1> QED
  BY <1>1, <1>2, <1>3 DEF BitsInv

LEMMA BitsBegin == Init => BitsInv
  BY Initially, ArgsBegin, StreamBegins, EntryAssumption DEF Init, BitsInv

(***************************************************************************)
(* A request for bits gets the next bits of the seed's stream, each once   *)
(* (theft_random_bits_bulk and, from a pool, fill_buf), for every width of *)
(* a word, every generator and every sequence of requests; but where a bulk*)
(* request without a pool finds a bit set in its buffer, which it keeps.   *)
(***************************************************************************)
THEOREM BitsInOrder == Spec => []BitsAreStream
<1>1. BitsInv => BitsAreStream
  BY ServedIsStream DEF BitsInv
<1> QED
  BY BitsBegin, BitsKeep, <1>1, PTL DEF Spec

(***************************************************************************)
(* The variables of theft_run, theft_generate and of theft_random.c's      *)
(* loops keep their types; the offset stays inside the caller's buffer.    *)
(***************************************************************************)
THEOREM EntryTypeCorrect == Spec => []EntryTypeOK
<1>1. BitsInv => EntryTypeOK
  BY StreamTypes DEF BitsInv, EntryTypeOK, Inv, HeapAtPoint, ArgTypes, Results
<1> QED
  BY BitsBegin, BitsKeep, <1>1, PTL DEF Spec

-----------------------------------------------------------------------------
(* The arrays of char_ARRAY_alloc.                                         *)

(* There is room for a byte when one is asked for.                         *)
RoomInArray ==
  /\ \E S : chars \in Seq(S)
  /\ ceil \in Nat /\ env \in Nat
  /\ doing = "begun" => chars = <<>> /\ (type.kind = "chars" => ceil > 0)
  /\ doing \in {"chars", "byte"} => ceil > 0
  /\ doing = "chars" => Len(chars) <= ceil
  /\ doing = "byte" => Len(chars) < ceil
  /\ InsideArray

LEMMA Appended ==
  ASSUME NEW c, \E S : c \in Seq(S), NEW v
  PROVE  /\ \E S : Append(c, v) \in Seq(S)
         /\ Len(c) \in Nat /\ Len(Append(c, v)) = Len(c) + 1
<1>1. PICK S : c \in Seq(S)
  OBVIOUS
<1>2. c \in Seq(S \union {v})
  BY <1>1
<1>3. Append(c, v) \in Seq(S \union {v})
  BY <1>2
<1> QED
  BY <1>1, <1>2, <1>3

LEMMA RoomAtFirst == Init => RoomInArray
<1>1. <<>> \in Seq({}) /\ Len(<<>>) = 0
  OBVIOUS
<1> QED
  BY <1>1 DEF Init, AllocInit, NoEnv, RoomInArray, InsideArray

LEMMA RoomKept ==
  ASSUME RoomInArray, AllocStep
  PROVE  RoomInArray'
<1> USE DEF RoomInArray, InsideArray, Returns
<1>0. Len(chars) \in Nat
  BY Appended
<1>1. CASE MallocFails \/ CustomSkips
  BY <1>0, <1>1 DEF MallocFails, CustomSkips
<1>2. CASE FirstRequest
  <2>1. UNCHANGED <<type, env, chars, ceil>> /\ doing' \in {"chars", "value", "special"}
    BY <1>2 DEF FirstRequest
  <2>2. doing' = "chars" => type.kind = "chars" /\ Len(chars) = 0
    BY <1>2 DEF FirstRequest
  <2> QED
    BY <1>0, <1>2, <2>1, <2>2 DEF FirstRequest
<1>3. CASE SecondRequest \/ StoreValue
  BY <1>0, <1>3 DEF SecondRequest, StoreValue
<1>4. CASE ArrayEnds
  <2>1. Len(chars') = Len(chars) + 1 /\ \E S : chars' \in Seq(S)
    BY <1>4, Appended DEF ArrayEnds
  <2> QED
    BY <1>0, <1>4, <2>1 DEF ArrayEnds, AtMaxLength
<1>5. ASSUME NEW ok \in BOOLEAN, ArrayGrows(ok) PROVE RoomInArray'
  BY <1>0, <1>5 DEF ArrayGrows
<1>6. CASE ArrayGoesOn
  BY <1>0, <1>6 DEF ArrayGoesOn
<1>7. CASE StoreByte
  <2>1. Len(chars') = Len(chars) + 1 /\ \E S : chars' \in Seq(S)
    BY <1>7, Appended DEF StoreByte
  <2> QED
    BY <1>0, <1>7, <2>1 DEF StoreByte
<1>8. CASE ServeStep /\ UNCHANGED allocVars
  BY <1>8 DEF allocVars
<1> QED
  BY <1>1, <1>2, <1>3, <1>4, <1>5, <1>6, <1>7, <1>8 DEF AllocStep

(* What theft_run and theft_generate do to the callback's variables.       *)
LEMMA CalledOrNot ==
  ASSUME ArgTypes, EntryStep
  PROVE  \/ UNCHANGED allocVars
         \/ AllocTaken
         \/ \E t \in Types, e \in Nat : AllocBegins(t, e)
<1>1. \/ UNCHANGED allocVars
      \/ AllocTaken
      \/ /\ pc = "alloc" \/ (pc = "arg" /\ argi <= Arity)
         /\ AllocBegins(Info.type, Info.env)
  BY DEF EntryStep, InitMemory, InitHooks, InitRefuses, InitSeeds, GenerateAlloc,
         GenerateDone, TrialBegins, ArgPool, ArgBegins, ArgDone, TrialEnds,
         RunTrialsReturns, RunFree, Quiet
<1>2. ASSUME pc = "alloc" \/ (pc = "arg" /\ argi <= Arity)
      PROVE  Info.type \in Types /\ Info.env \in Nat
  <2>1. argi <= Arity
    BY <1>2, ConfigArgs DEF ArgTypes, Running
  <2> QED
    BY <2>1, ArgInfo
<1> QED
  BY <1>1, <1>2

LEMMA RoomForNext ==
  ASSUME RoomInArray, ArgTypes, EntryStep
  PROVE  RoomInArray'
<1>1. CASE UNCHANGED allocVars
  BY <1>1 DEF allocVars, RoomInArray, InsideArray
<1>2. CASE AllocTaken
  BY <1>2 DEF AllocTaken, RoomInArray, InsideArray
<1>3. ASSUME NEW t \in Types, NEW e \in Nat, AllocBegins(t, e) PROVE RoomInArray'
  <2>1. <<>> \in Seq({}) /\ Len(<<>>) = 0
    OBVIOUS
  <2> QED
    BY <1>3, <2>1, BuiltinsAssumption DEF AllocBegins, RoomInArray, InsideArray
<1> QED
  BY <1>1, <1>2, <1>3, CalledOrNot

(***************************************************************************)
(* char_ARRAY_alloc writes inside its allocation, for every limit, initial *)
(* size and amount of memory, but for the terminator of an array whose     *)
(* maximal length is one more than a size it was allocated with.           *)
(***************************************************************************)
THEOREM WritesStayInside == Spec => []InsideArray
<1>1. ArgTypes /\ RoomInArray /\ [Next]_vars => (ArgTypes /\ RoomInArray)'
  <2> SUFFICES ASSUME ArgTypes, RoomInArray, [Next]_vars
               PROVE  (ArgTypes /\ RoomInArray)'
    OBVIOUS
  <2>1. ASSUME UNCHANGED allocVars PROVE RoomInArray'
    BY <2>1 DEF allocVars, RoomInArray, InsideArray
  <2>2. RoomInArray'
    BY <2>1, RoomKept, RoomForNext DEF Next, Over, vars
  <2> QED
    BY <2>2, ArgsKeep
<1>2. RoomInArray => InsideArray
  BY DEF RoomInArray
<1> QED
  BY ArgsBegin, RoomAtFirst, <1>1, <1>2, PTL DEF Spec

-----------------------------------------------------------------------------
(* The bits of a word as a number.                                         *)

(* What bit number k - 1 of w adds.                                        *)
Worth(w, k) == w[k - 1] * 2^(k - 1)

(* h[k] is what the first k bits of w say.                                 *)
IsNumber(h, w, n) ==
  h = [k \in 0 .. n |-> IF k = 0 THEN 0 ELSE h[k - 1] + Worth(w, k)]

LEMMA NumberExists ==
  ASSUME NEW n \in Nat, NEW w, \A j \in 0 .. n - 1 : w[j] \in {0, 1}
  PROVE  \E h \in [0 .. n -> Int] : IsNumber(h, w, n)
<1> DEFINE G == [k \in 1 .. n |-> [v \in Int |-> v + Worth(w, k)]]
<1>1. ASSUME NEW k \in 1 .. n PROVE Worth(w, k) \in Int
  <2>1. k - 1 \in 0 .. n - 1 /\ k - 1 \in Int
    OBVIOUS
  <2>2. w[k - 1] \in Int /\ 2^(k - 1) \in Int
    BY <2>1
  <2> QED
    BY <2>2 DEF Worth
<1>2. G \in [1 .. n -> [Int -> Int]]
  BY <1>1
<1>3. \A k \in 1 .. n : \A v \in Int : G[k][v] = v + Worth(w, k)
  OBVIOUS
<1> HIDE DEF G
<1>4. PICK f \in [0 .. n -> Int] : Iterates(f, 0, G, n)
  <2>1. 0 \in Int
    OBVIOUS
  <2> QED
    BY <1>2, <2>1, IteratesExist
<1>5. ASSUME NEW k \in 0 .. n
      PROVE  f[k] = IF k = 0 THEN 0 ELSE f[k - 1] + Worth(w, k)
  <2>1. CASE k = 0
    BY <1>4, <2>1 DEF Iterates
  <2>2. CASE k # 0
    <3>1. k \in 1 .. n /\ k - 1 \in 0 .. n
      BY <2>2
    <3>2. f[k - 1] \in Int
      BY <3>1
    <3> QED
      BY <1>3, <1>4, <2>2, <3>1, <3>2 DEF Iterates
  <2> QED
    BY <2>1, <2>2
<1>6. IsNumber(f, w, n)
  BY <1>5 DEF IsNumber
<1> QED
  BY <1>6

LEMMA NumberIs ==
  ASSUME NEW n \in Nat, NEW w, \A j \in 0 .. n - 1 : w[j] \in {0, 1}
  PROVE  \E h \in [0 .. n -> Int] : IsNumber(h, w, n) /\ Number(w, n) = h[n]
<1> DEFINE h == CHOOSE f : IsNumber(f, w, n)
<1>1. PICK f \in [0 .. n -> Int] : IsNumber(f, w, n)
  BY NumberExists
<1>2. IsNumber(h, w, n)
  BY <1>1, Zenon
<1>3. Number(w, n) = h[n]
  BY DEF Number, IsNumber, Worth
<1> HIDE DEF h
<1> DEFINE T == {k \in Nat : h[k] = f[k]}
<1>4. \A k \in 0 .. n : /\ h[k] = IF k = 0 THEN 0 ELSE h[k - 1] + Worth(w, k)
                        /\ f[k] = IF k = 0 THEN 0 ELSE f[k - 1] + Worth(w, k)
  BY <1>1, <1>2 DEF IsNumber
<1>5. 0 \in T
  BY <1>4
<1>6. ASSUME NEW k \in 0 .. n - 1, k \in T PROVE k + 1 \in T
  <2>1. k + 1 \in 0 .. n /\ k + 1 # 0 /\ (k + 1) - 1 = k
    OBVIOUS
  <2> QED
    BY <1>4, <1>6, <2>1
<1>7. 0 .. n \subseteq T
  <2> HIDE DEF T
  <2> QED
    BY <1>5, <1>6, UpTo
<1>8. \A k \in 0 .. n : h[k] \in Int
  BY <1>7
<1>9. h \in [0 .. n -> Int]
  BY <1>2, <1>8 DEF IsNumber
<1> QED
  BY <1>2, <1>3, <1>9

LEMMA NumberIsInt ==
  ASSUME NEW n \in Nat, NEW w, \A j \in 0 .. n - 1 : w[j] \in {0, 1}
  PROVE  Number(w, n) \in Int
<1>1. n \in 0 .. n
  OBVIOUS
<1> QED
  BY <1>1, NumberIs

(* A number is what its bits are.                                          *)
LEMMA NumberOfBits ==
  ASSUME NEW n \in Nat, NEW w, \A j \in 0 .. n - 1 : w[j] \in {0, 1},
         NEW v, \A j \in 0 .. n - 1 : v[j] = w[j]
  PROVE  Number(w, n) = Number(v, n)
<1>1. PICK h \in [0 .. n -> Int] : IsNumber(h, w, n) /\ Number(w, n) = h[n]
  BY NumberIs
<1>2. PICK g \in [0 .. n -> Int] : IsNumber(g, v, n) /\ Number(v, n) = g[n]
  <2>1. \A j \in 0 .. n - 1 : v[j] \in {0, 1}
    OBVIOUS
  <2> QED
    BY <2>1, NumberIs
<1> DEFINE T == {k \in Nat : h[k] = g[k]}
<1>3. \A k \in 0 .. n : /\ h[k] = IF k = 0 THEN 0 ELSE h[k - 1] + Worth(w, k)
                        /\ g[k] = IF k = 0 THEN 0 ELSE g[k - 1] + Worth(v, k)
  BY <1>1, <1>2 DEF IsNumber
<1>4. 0 \in T
  BY <1>3
<1>5. ASSUME NEW k \in 0 .. n - 1, k \in T PROVE k + 1 \in T
  <2>1. k + 1 \in 0 .. n /\ k + 1 # 0 /\ (k + 1) - 1 = k
    OBVIOUS
  <2>2. Worth(w, k + 1) = Worth(v, k + 1)
    BY <2>1 DEF Worth
  <2> QED
    BY <1>3, <1>5, <2>1, <2>2
<1>6. 0 .. n \subseteq T
  <2> HIDE DEF T
  <2> QED
    BY <1>4, <1>5, UpTo
<1>7. n \in T
  BY <1>6
<1> QED
  BY <1>1, <1>2, <1>7

-----------------------------------------------------------------------------
(* The limits of the built-in types.                                       *)

LEMMA RemainderBelow ==
  ASSUME NEW a \in Int, NEW b \in Nat, b > 0
  PROVE  Remainder(a, b) \in 1 - b .. b - 1
<1>1. CASE a < 0
  <2>1. 0 - a \in Nat
    BY <1>1
  <2>2. (0 - a) % b \in 0 .. b - 1
    BY <2>1
  <2> QED
    BY <1>1, <2>2 DEF Remainder
<1>2. CASE ~ a < 0
  <2>1. a \in Nat
    BY <1>2
  <2>2. a % b \in 0 .. b - 1
    BY <2>1
  <2> QED
    BY <1>2, <2>2 DEF Remainder
<1> QED
  BY <1>1, <1>2

(* The value is below the limit, and not below its negative.               *)
LEMMA LimitIsKept ==
  ASSUME NEW t \in Types, t.kind \in {"unsigned", "signed"},
         NEW n \in Int, NEW e \in Nat, e # 0
  PROVE  InRange(t, Stored(t, n, e), e)
<1>1. t.bits \in 0 .. TopPower /\ t.bits - 1 \in 0 .. TopPower
  BY BuiltinsAssumption, TopIs
<1>2. 2^t.bits \in Nat /\ 2^t.bits > 0 /\ 2^(t.bits - 1) \in Nat
  BY <1>1, Powers
<1>3. Unsigned(t, n) \in Nat
  <2> DEFINE p == 2^t.bits
  <2>1. p \in Nat /\ p > 0
    BY <1>2
  <2> HIDE DEF p
  <2>2. n % p \in 0 .. p - 1
    BY <2>1
  <2>3. Unsigned(t, n) = n % p
    BY DEF Unsigned, p
  <2> QED
    BY <2>1, <2>2, <2>3
<1>4. Stored(t, n, e) = Limit(t, n, e)
  BY DEF Stored, NoEnv
<1>5. CASE t.kind = "unsigned"
  <2>1. Unsigned(t, n) % e \in 0 .. e - 1
    BY <1>3
  <2>2. Limit(t, n, e) = Unsigned(t, n) % e
    BY <1>5 DEF Limit
  <2> QED
    BY <1>4, <1>5, <2>1, <2>2 DEF InRange
<1>6. CASE t.kind = "signed"
  <2>1. Signed(t, n) \in Int
    BY <1>2, <1>3 DEF Signed
  <2> DEFINE s == Signed(t, n)
  <2>2. Limit(t, n, e) = IF s < 0 - e \/ s >= e THEN Remainder(s, e) ELSE s
    BY <1>6 DEF Limit
  <2> HIDE DEF s
  <2>3. s \in Int
    BY <2>1 DEF s
  <2>4. Remainder(s, e) \in 1 - e .. e - 1
    BY <2>3, RemainderBelow
  <2>5. Limit(t, n, e) \in 0 - e .. e - 1
    BY <2>2, <2>3, <2>4
  <2> QED
    BY <1>4, <1>6, <2>5 DEF InRange
<1> QED
  BY <1>5, <1>6

LEMMA SpecialIsInt ==
  ASSUME NEW t \in Types, Scalar(t), NEW n \in Int
  PROVE  SpecialValue(t, n) \in Int
<1> DEFINE l == Len(t.special)
<1>1. t.special \in Seq(Int) /\ t.special # <<>>
  BY BuiltinsAssumption DEF Scalar
<1>2. l \in Nat /\ l > 0
  BY <1>1
<1> HIDE DEF l
<1>3. (n % l) + 1 \in 1 .. l
  BY <1>2
<1>4. SpecialValue(t, n) = t.special[(n % l) + 1]
  BY DEF SpecialValue, l
<1> QED
  BY <1>1, <1>3, <1>4 DEF l

(* Which type the callback is allocating, at each of its points.           *)
KindAtPoint ==
  /\ doing = "begun" => type \in Types
  /\ doing \in {"special", "index"} => type \in Types /\ Scalar(type)
  /\ doing = "value" => type \in Types /\ type.kind # "chars"
  /\ doing \in {"chars", "byte"} => type.kind = "chars"

(* There is room for a terminator below the maximal length.                *)
LengthAtPoint ==
  /\ doing = "chars" /\ env # NoEnv => Len(chars) < env
  /\ doing = "byte" /\ env # NoEnv => Len(chars) + 1 < env

LimitsInv == KindAtPoint /\ LengthAtPoint /\ LimitsKept

LEMMA ServedNumber ==
  ASSUME StreamInv
  PROVE  Number(out, want) \in Int
<1>1. want \in Nat /\ \A j \in 0 .. want - 1 : out[j] \in {0, 1}
  BY DEF StreamInv, NumberTypes, Buffers
<1> QED
  BY <1>1, NumberIsInt

LEMMA LimitsForNext ==
  ASSUME LimitsInv, ArgTypes, EntryStep
  PROVE  LimitsInv'
<1> USE DEF LimitsInv, KindAtPoint, LengthAtPoint, LimitsKept, Allocated
<1>1. CASE UNCHANGED allocVars
  BY <1>1 DEF allocVars
<1>2. CASE AllocTaken
  BY <1>2 DEF AllocTaken
<1>3. CASE \E t \in Types, e \in Nat : AllocBegins(t, e)
  BY <1>3 DEF AllocBegins
<1> QED
  BY <1>1, <1>2, <1>3, CalledOrNot

LEMMA LimitsKeep ==
  ASSUME LimitsInv, StreamInv, ArgTypes, RoomInArray, AllocStep
  PROVE  LimitsInv'
<1> USE DEF LimitsInv, KindAtPoint, LengthAtPoint, LimitsKept, Allocated, Returns
<1>0. Len(chars) \in Nat /\ env \in Nat
  BY Appended DEF RoomInArray
<1>1. CASE MallocFails \/ CustomSkips
  BY <1>1 DEF MallocFails, CustomSkips
<1>2. CASE FirstRequest
  <2>1. UNCHANGED <<type, env, chars>> /\ doing = "begun" /\ type \in Types
    BY <1>2 DEF FirstRequest
  <2>2. \/ doing' = "chars" /\ type.kind = "chars"
        \/ doing' = "value" /\ type.kind # "chars"
        \/ doing' = "special" /\ type.kind \notin {"chars", "bool", "choice", "bulk"}
    BY <1>2 DEF FirstRequest
  <2>3. doing' = "special" => Scalar(type)
    BY <2>1, <2>2, BuiltinsAssumption DEF Scalar, Kinds
  <2>4. env # NoEnv => Len(chars) < env
    BY <1>0, <2>1 DEF RoomInArray, NoEnv
  <2> QED
    BY <2>1, <2>2, <2>3, <2>4 DEF Scalar
<1>3. CASE SecondRequest
  BY <1>3 DEF SecondRequest, Scalar
<1>4. CASE StoreValue
  <2> DEFINE n == Number(out, want)
  <2>1. n \in Int
    BY ServedNumber
  <2>2. /\ UNCHANGED <<type, env, chars>> /\ doing' = "done"
        /\ type \in Types /\ type.kind # "chars"
    BY <1>4 DEF StoreValue, Scalar
  <2>3. value' = Stored(type, IF doing = "index" THEN SpecialValue(type, n) ELSE n, env)
    BY <1>4 DEF StoreValue
  <2> HIDE DEF n
  <2>4. PICK m \in Int : value' = Stored(type, m, env)
    BY <1>4, <2>1, <2>2, <2>3, SpecialIsInt DEF StoreValue
  <2>5. env # NoEnv /\ type.kind # "int" => InRange(type, value', env)
    <3>1. CASE type.kind \in {"unsigned", "signed"}
      BY <1>0, <2>2, <2>4, <3>1, LimitIsKept DEF NoEnv
    <3>2. CASE type.kind \notin {"unsigned", "signed", "int"}
      BY <3>2 DEF InRange
    <3> QED
      BY <3>1, <3>2
  <2> QED
    BY <2>2, <2>5
<1>5. CASE ArrayEnds
  <2>1. Len(chars') = Len(chars) + 1
    BY <1>5, Appended DEF ArrayEnds, RoomInArray
  <2>2. InRange(type, value, env)
    BY <1>5 DEF ArrayEnds, InRange
  <2> QED
    BY <1>0, <1>5, <2>1, <2>2 DEF ArrayEnds, AtMaxLength
<1>6. ASSUME NEW ok \in BOOLEAN, ArrayGrows(ok) PROVE LimitsInv'
  <2>1. /\ UNCHANGED <<type, env, chars, value>> /\ doing = "chars"
        /\ doing' = "byte" \/ (doing' = "done" /\ ares' = "ERROR")
    BY <1>6 DEF ArrayGrows
  <2>2. env # NoEnv => Len(chars) + 1 # env
    BY <1>6 DEF ArrayGrows, AtMaxLength
  <2> QED
    BY <1>0, <2>1, <2>2
<1>7. CASE ArrayGoesOn
  BY <1>0, <1>7 DEF ArrayGoesOn, AtMaxLength
<1>8. CASE StoreByte
  <2>1. Len(chars') = Len(chars) + 1
    BY <1>8, Appended DEF StoreByte, RoomInArray
  <2>2. InRange(type, value, env)
    BY <1>8 DEF StoreByte, InRange
  <2>3. /\ UNCHANGED <<type, env, value>> /\ doing = "byte"
        /\ doing' \in {"done", "chars"}
    BY <1>8 DEF StoreByte
  <2> QED
    BY <1>0, <2>1, <2>2, <2>3
<1>9. CASE ServeStep /\ UNCHANGED allocVars
  BY <1>9 DEF allocVars
<1> QED
  BY <1>1, <1>2, <1>3, <1>4, <1>5, <1>6, <1>7, <1>8, <1>9 DEF AllocStep

LEMMA LimitsAtFirst == Init => LimitsInv
BY DEF Init, AllocInit, LimitsInv, KindAtPoint, LengthAtPoint, LimitsKept, Allocated

(* What holds of the callback and of the bits it gets.                     *)
CallbackInv == BitsInv /\ RoomInArray /\ LimitsInv

LEMMA CallbackBegins == Init => CallbackInv
  BY BitsBegin, RoomAtFirst, LimitsAtFirst DEF CallbackInv

LEMMA CallbacksKeep == CallbackInv /\ [Next]_vars => CallbackInv'
<1> SUFFICES ASSUME CallbackInv, [Next]_vars PROVE CallbackInv'
  OBVIOUS
<1>1. BitsInv'
  BY BitsKeep DEF CallbackInv
<1>2. RoomInArray' /\ LimitsInv'
  <2>1. ASSUME UNCHANGED allocVars PROVE RoomInArray' /\ LimitsInv'
    BY <2>1 DEF allocVars, CallbackInv, RoomInArray, InsideArray, LimitsInv, KindAtPoint,
                LengthAtPoint, LimitsKept, Allocated
  <2>2. ArgTypes /\ StreamInv /\ RoomInArray /\ LimitsInv
    BY DEF CallbackInv, BitsInv
  <2> QED
    BY <2>1, <2>2, RoomKept, RoomForNext, LimitsKeep, LimitsForNext DEF Next, Over, vars
<1> QED
  BY <1>1, <1>2 DEF CallbackInv

(***************************************************************************)
(* A limit given to a built-in type is kept: an unsigned value is below it,*)
(* a signed one is below it and not below its negative (the ALLOC_SCALAR   *)
(* macros of theft_aux_builtin.c), a special value as well as any other,   *)
(* and an array has no more than its maximal number of elements, for every *)
(* type, limit, word and generator.  Of an int's limit it is not so.       *)
(***************************************************************************)
THEOREM LimitsAreKept == Spec => []LimitsKept
<1>1. CallbackInv => LimitsKept
  BY DEF CallbackInv, LimitsInv
<1> QED
  BY CallbackBegins, CallbacksKeep, <1>1, PTL DEF Spec

-----------------------------------------------------------------------------
(* The first argument's bits are the first bits of the seed's stream.      *)

(* How many bits of the stream have been asked for.                        *)
Cursor == IF Pooled THEN bit_pool.base * WordBits + bit_pool.consumed
          ELSE drawn * WordBits - bits_available

(* What is left in the PRNG's buffer is of the last word drawn.            *)
LastWord == ~ Pooled /\ bits_available > 0 => word + 1 = drawn

(* No request is being served, and the next begins with bit p.             *)
AtBit(p) == at = "idle" /\ Cursor = p /\ LastWord

(* A request for n bits from bit p on, served or not, into zeros.          *)
Asked(p, n) ==
  /\ want = n /\ start.seed = seed
  /\ \A j \in 0 .. n - 1 : before[j] = 0 /\ Position(j) = p + j
  /\ LastWord
  /\ Cursor = p + (IF Pooled THEN IF at = "idle" THEN n ELSE 0 ELSE Done)

LEMMA CursorTypes ==
  ASSUME StreamInv
  PROVE  /\ Cursor \in Int /\ seed \in Seeds
         /\ drawn \in Nat /\ drawn * WordBits \in Nat /\ word \in Nat
         /\ (word + 1) * WordBits \in Nat
         /\ bits_available \in 0 .. WordBits - 1
         /\ bit_pool.base \in Nat /\ bit_pool.consumed \in Nat
         /\ bit_pool.base * WordBits \in Nat
<1>1. /\ drawn \in Nat /\ word \in Nat /\ bits_available \in 0 .. WordBits - 1
      /\ bit_pool.base \in Nat /\ bit_pool.consumed \in Nat /\ seed \in Seeds
  BY DEF StreamInv, NumberTypes, PoolFollows, Pools
<1>2. /\ drawn * WordBits \in Nat /\ (word + 1) * WordBits \in Nat
      /\ bit_pool.base * WordBits \in Nat
  BY <1>1, Width
<1> QED
  BY <1>1, <1>2, Width DEF Cursor

LEMMA AskedAt ==
  ASSUME StreamInv, NEW p \in Int, AtBit(p), NEW n \in 0 .. WordBits, RequestBits(n)
  PROVE  Asked(p, n)'
<1>1. /\ at = "idle" /\ want' = n /\ rem' = n
      /\ start' = NextBits(n)
      /\ before' = IF Pooled THEN [j \in DOMAIN ZeroWord |-> 0] ELSE ZeroWord
      /\ at' = CASE n = 0 -> "idle" [] n > 0 /\ Pooled -> "fill" [] OTHER -> "take"
      /\ UNCHANGED <<prngVars, bit_pool>>
  BY DEF RequestBits, Ask
<1>2. \A j \in 0 .. n - 1 : before'[j] = 0
  BY <1>1, Width DEF ZeroWord
<1>3. n \in Nat /\ Cursor = p /\ Cursor' = p /\ LastWord' /\ Pooled' = Pooled
  BY <1>1, Width DEF prngVars, Pooled, AtBit, LastWord, Cursor
<1>4. start'.seed = seed /\ seed' = seed
  BY <1>1 DEF NextBits, prngVars
<1>5. ASSUME NEW j \in 0 .. n - 1 PROVE Position(j)' = p + j
  <2>1. CASE Pooled
    <3>1. start'.left = n /\ start'.from = p
      BY <1>1, <1>3, <2>1 DEF NextBits, Cursor
    <3> QED
      BY <3>1 DEF Position
  <2>2. CASE ~ Pooled
    <3>1. /\ start'.left = bits_available /\ start'.next = drawn * WordBits
          /\ start'.from = (word + 1) * WordBits - bits_available
          /\ p = drawn * WordBits - bits_available
      BY <1>1, <1>3, <2>2 DEF NextBits, Cursor
    <3>2. CASE j < bits_available
      <4>1. word + 1 = drawn
        BY <2>2, <3>2, CursorTypes DEF AtBit, LastWord
      <4> QED
        BY <3>1, <3>2, <4>1 DEF Position
    <3>3. CASE ~ j < bits_available
      BY <3>1, <3>3, CursorTypes DEF Position
    <3> QED
      BY <3>2, <3>3
  <2> QED
    BY <2>1, <2>2
<1>6. Done' = 0
  BY <1>1, <1>3 DEF Done
<1>7. at' = "idle" => n = 0
  BY <1>1, <1>3
<1> QED
  BY <1>1, <1>2, <1>3, <1>4, <1>5, <1>6, <1>7 DEF Asked

LEMMA ServeAsked ==
  ASSUME StreamInv, NEW p \in Int, NEW n \in Nat, Asked(p, n), ServeStep
  PROVE  Asked(p, n)'
<1>1. /\ UNCHANGED <<seed, want, start, before>>
      /\ \A j \in 0 .. n - 1 : Position(j)' = Position(j)
  BY DEF ServeStep, Take, FillPool, Copy, prngVars, Position
<1>2. want \in Nat /\ rem \in 0 .. want /\ want = n
  BY DEF StreamInv, NumberTypes, Asked
<1>3. CASE Take
  <2> DEFINE available == IF bits_available = 0 THEN WordBits ELSE bits_available
             take == TakeSize(available)
  <2>1. /\ at = "take" /\ ~ Pooled /\ ~ Pooled'
    BY <1>3 DEF Take, StreamInv, Taking, Pooled
  <2>2. take \in Int
    BY <1>2, CursorTypes, Width DEF TakeSize, Least, StreamInv, NumberTypes
  <2>3. /\ drawn' = IF bits_available = 0 THEN drawn + 1 ELSE drawn
        /\ word' = IF bits_available = 0 THEN drawn ELSE word
        /\ bits_available' = available - take /\ rem' = rem - take
    BY <1>3 DEF Take, Copied
  <2> HIDE DEF take
  <2>4. LastWord' /\ drawn' * WordBits - bits_available' = drawn * WordBits - bits_available + take
    <3>1. CASE bits_available = 0
      <4>1. (drawn + 1) * WordBits = drawn * WordBits + WordBits
        BY CursorTypes, Width
      <4> QED
        BY <2>2, <2>3, <3>1, <4>1, CursorTypes, Width DEF LastWord
    <3>2. CASE bits_available # 0
      BY <2>1, <2>2, <2>3, <3>2, CursorTypes DEF LastWord, Asked
    <3> QED
      BY <3>1, <3>2
  <2>5. Done' = Done + take
    BY <1>1, <1>2, <2>2, <2>3 DEF Done
  <2>6. Cursor = p + Done
    BY <2>1 DEF Asked
  <2>7. Cursor' = Cursor + take
    BY <2>1, <2>4 DEF Cursor
  <2>8. Cursor' = p + Done'
    BY <1>2, <2>2, <2>5, <2>6, <2>7 DEF Done
  <2> QED
    BY <1>1, <2>1, <2>4, <2>8 DEF Asked
<1>4. CASE FillPool
  <2>1. at = "fill" /\ at' \in {"fill", "copy"} /\ Pooled
    BY <1>4 DEF FillPool, StreamInv, Copying
  <2>2. bit_pool \in Pools
    BY DEF StreamInv, PoolFollows
  <2>3. bit_pool'.used = bit_pool.used /\ bit_pool'.base = bit_pool.base
        /\ bit_pool'.consumed = bit_pool.consumed
    BY <1>4, <2>2 DEF FillPool, Pools
  <2>4. Pooled' /\ Cursor' = Cursor
    BY <2>1, <2>3 DEF Pooled, Cursor
  <2> QED
    BY <1>1, <2>1, <2>4 DEF Asked, LastWord
<1>5. CASE Copy
  <2>1. at = "copy" /\ Pooled
    BY <1>5 DEF Copy, StreamInv, Copying
  <2>2. bit_pool \in Pools
    BY DEF StreamInv, PoolFollows
  <2>3. PICK m : /\ Copied(m)
                 /\ bit_pool' = IF m = rem THEN [bit_pool EXCEPT !.consumed = @ + want]
                                ELSE bit_pool
    BY <1>5 DEF Copy
  <2>4. CASE m = rem
    <3>1. /\ at' = "idle" /\ bit_pool'.used = bit_pool.used
          /\ bit_pool'.base = bit_pool.base
          /\ bit_pool'.consumed = bit_pool.consumed + n
      BY <1>2, <2>2, <2>3, <2>4 DEF Copied, Pools
    <3>2. Pooled' /\ Cursor' = Cursor + n /\ Cursor = p
      BY <1>2, <2>1, <3>1, CursorTypes DEF Pooled, Cursor, Asked
    <3> QED
      BY <1>1, <3>1, <3>2 DEF Asked, LastWord
  <2>5. CASE m # rem
    <3>1. at' = at /\ bit_pool' = bit_pool
      BY <2>3, <2>5 DEF Copied
    <3>2. Pooled' /\ Cursor' = Cursor
      BY <2>1, <3>1 DEF Pooled, Cursor
    <3> QED
      BY <1>1, <2>1, <3>1, <3>2 DEF Asked, LastWord
  <2> QED
    BY <2>4, <2>5
<1> QED
  BY <1>3, <1>4, <1>5 DEF ServeStep

(* A served request got what the stream says.                              *)
LEMMA ServedFrom ==
  ASSUME StreamInv, NEW p \in Int, NEW n \in Nat, Asked(p, n), at = "idle"
  PROVE  Number(out, n) = Drawn(seed, p, n) /\ AtBit(p + n)
<1>1. want = n /\ Done = n
  BY DEF StreamInv, NumberTypes, RequestPoint, Done, Asked
<1> DEFINE v == [j \in 0 .. n - 1 |-> Bit(seed, p + j)]
<1>2. ASSUME NEW j \in 0 .. n - 1 PROVE out[j] \in {0, 1} /\ v[j] = out[j]
  <2>1. before[j] = 0 /\ Position(j) = p + j /\ start.seed = seed
    BY DEF Asked
  <2>2. out[j] = Bit(start.seed, Position(j))
    BY <1>1, <2>1, ServedIsStream DEF BitsAreStream
  <2> QED
    BY <2>1, <2>2, BitIsBit
<1>3. Drawn(seed, p, n) = Number(v, n)
  BY DEF Drawn
<1> HIDE DEF v
<1>4. Number(out, n) = Number(v, n)
  BY <1>2, NumberOfBits
<1>5. Cursor = p + n
  BY <1>1 DEF Asked
<1> QED
  BY <1>3, <1>4, <1>5 DEF AtBit, Asked

(* The bytes of an array so far.                                           *)
Bytes(c) == \A k \in 1 .. Len(c) :
              c[k] = Drawn(seed, (k - 1) * CharBits, CharBits) /\ c[k] # 0

(* Where the first argument's callback is in the stream.                   *)
InFirst ==
  /\ doing = "begun" => AtBit(0)
  /\ doing = "special" => Asked(0, SpecialBits)
  /\ doing = "index" =>
       UseSpecial(Drawn(seed, 0, SpecialBits)) /\ Asked(SpecialBits, IndexBits)
  /\ doing = "value" =>
       CASE type.kind = "bool"   -> Asked(0, 1)
         [] type.kind = "choice" -> Asked(0, ChoiceBits(env))
         [] type.kind = "bulk"   -> TRUE
         [] OTHER -> /\ ~ UseSpecial(Drawn(seed, 0, SpecialBits))
                     /\ Asked(SpecialBits, type.bits)
  /\ doing = "chars" => AtBit(Len(chars) * CharBits) /\ Bytes(chars)
  /\ doing = "byte" => Asked(Len(chars) * CharBits, CharBits) /\ Bytes(chars)

(* No bit was asked for since the seed was set.                            *)
FromStart ==
  /\ at = "idle" /\ drawn = 0 /\ bits_available = 0
  /\ Pooled => bit_pool.base = 0 /\ bit_pool.consumed = 0

SeedInv ==
  /\ doing # "none" <=> pc = "generating"
  /\ pc \in {"hooks", "alloc"} \/ (pc = "arg" /\ argi = 1) => FromStart
  /\ argi = 1 /\ pc = "generating" => InFirst
  /\ InstanceOfSeed

LEMMA AtStart ==
  ASSUME FromStart
  PROVE  AtBit(0)
BY Width DEF FromStart, AtBit, Cursor, LastWord

LEMMA SeedAtFirst == Init => SeedInv
BY DEF Init, AllocInit, SeedInv, InstanceOfSeed

LEMMA AppendedAt ==
  ASSUME NEW c, \E S : c \in Seq(S), NEW v
  PROVE  /\ Append(c, v)[Len(c) + 1] = v
         /\ \A k \in 1 .. Len(c) : Append(c, v)[k] = c[k]
<1>1. PICK S : c \in Seq(S)
  OBVIOUS
<1>2. c \in Seq(S \union {v})
  BY <1>1
<1> QED
  BY <1>2

LEMMA EntryKeepsSeed ==
  ASSUME SeedInv, ArgTypes, StreamInv, EntryStep
  PROVE  SeedInv'
<1>1. ASSUME NEW ok \in BOOLEAN, InitMemory(ok) PROVE SeedInv'
  BY <1>1 DEF InitMemory, Return, Quiet, allocVars, SeedInv, InstanceOfSeed
<1>2. ASSUME NEW ok \in BOOLEAN, InitHooks(ok) PROVE SeedInv'
  <2>1. UNCHANGED randomVars /\ UNCHANGED allocVars /\ pc = "hooks"
        /\ pc' \in {"over", "trials", "alloc"}
    BY <1>2 DEF InitHooks, Return, Quiet
  <2>2. FromStart'
    BY <2>1 DEF SeedInv, FromStart, randomVars, prngVars, requestVars, Pooled
  <2> QED
    BY <2>1, <2>2 DEF SeedInv, InstanceOfSeed, allocVars
<1>3. CASE InitRefuses
  BY <1>3 DEF InitRefuses, Return, Quiet, allocVars, SeedInv, InstanceOfSeed
<1>4. ASSUME NEW s \in Seeds, SetSeed(s) PROVE FromStart'
  BY <1>4 DEF SetSeed, FromStart, requestVars, Pooled, NoPool
<1>5. ASSUME NEW s \in Seeds, NEW ok \in BOOLEAN, InitSeeds(s, ok) PROVE SeedInv'
  BY <1>4, <1>5 DEF InitSeeds, allocVars, SeedInv, InstanceOfSeed
<1>6. ASSUME GenerateAlloc \/ ArgBegins PROVE SeedInv'
  <2>1. /\ UNCHANGED randomVars /\ UNCHANGED argi
        /\ doing' = "begun" /\ pc' = "generating"
    BY <1>6 DEF GenerateAlloc, ArgBegins, AllocBegins
  <2>2. argi = 1 => FromStart'
    BY <1>6, <2>1
       DEF GenerateAlloc, ArgBegins, SeedInv, FromStart, randomVars, prngVars, requestVars,
           Pooled
  <2>3. argi = 1 => AtBit(0)'
    BY <2>2, Width DEF FromStart, AtBit, Cursor, LastWord
  <2> QED
    BY <2>1, <2>3 DEF SeedInv, InFirst, InstanceOfSeed, Allocated
<1>7. CASE GenerateDone
  BY <1>7 DEF GenerateDone, AllocTaken, SeedInv, InstanceOfSeed, Allocated
<1>8. ASSUME NEW s \in Seeds, TrialBegins(s) PROVE SeedInv'
  BY <1>4, <1>8 DEF TrialBegins, allocVars, SeedInv, InstanceOfSeed
<1>9. CASE ArgPool
  <2>1. /\ pc = "arg" /\ UNCHANGED entryVars /\ UNCHANGED allocVars
        /\ bit_pool' = EmptyPool(drawn) /\ UNCHANGED <<prngVars, requestVars>>
    BY <1>9 DEF ArgPool, InjectPool
  <2>2. bit_pool'.base = drawn /\ bit_pool'.consumed = 0
    BY <2>1 DEF EmptyPool, NoPool
  <2>3. argi = 1 => FromStart'
    BY <2>1, <2>2 DEF SeedInv, FromStart, prngVars, requestVars
  <2> QED
    BY <2>1, <2>3 DEF SeedInv, InstanceOfSeed, Allocated, entryVars, allocVars
<1>10. CASE ArgDone
  <2>1. /\ doing' = "none" /\ pc' \in {"halted", "arg"}
        /\ argi' = IF ares = "OK" THEN argi + 1 ELSE Arity + 1
    BY <1>10 DEF ArgDone, AllocTaken
  <2>2. argi' # 1
    <3>1. argi \in 1 .. Arity + 1 /\ Arity \in Nat /\ Arity > 0
      BY <1>10, ConfigArgs DEF ArgTypes, ArgDone, Running
    <3> QED
      BY <2>1, <3>1
  <2> QED
    BY <2>1, <2>2 DEF SeedInv, InstanceOfSeed
<1>11. CASE TrialEnds
  BY <1>11 DEF TrialEnds, allocVars, SeedInv, InstanceOfSeed
<1>12. ASSUME NEW r, RunTrialsReturns(r) PROVE SeedInv'
  BY <1>12 DEF RunTrialsReturns, Quiet, allocVars, SeedInv, InstanceOfSeed
<1>13. CASE RunFree
  BY <1>13 DEF RunFree, Quiet, allocVars, SeedInv, InstanceOfSeed
<1> QED
  BY <1>1, <1>2, <1>3, <1>5, <1>6, <1>7, <1>8, <1>9, <1>10, <1>11, <1>12, <1>13
     DEF EntryStep

LEMMA BitCounts ==
  /\ {0, 1, SpecialBits, IndexBits, CharBits} \subseteq 0 .. WordBits
  /\ \A t \in Types : t.bits \in 0 .. WordBits
BY BuiltinsAssumption, Width

(* The value of the first argument, from the requests made for it.         *)
LEMMA FirstValue ==
  ASSUME StreamInv, ArgTypes, KindAtPoint, InFirst, StoreValue, type.kind # "bulk"
  PROVE  value' = ScalarOfSeed(seed, type, env)
<1>1. at = "idle" /\ env \in Nat /\ type.kind # "chars"
  BY DEF StoreValue, ArgTypes, KindAtPoint, Scalar
<1>2. value' = Stored(type, IF doing = "index" THEN SpecialValue(type, Number(out, want))
                            ELSE Number(out, want), env)
  BY DEF StoreValue
<1>3. \A p, n : Asked(p, n) => want = n
  BY DEF Asked
<1>4. 0 \in Int /\ SpecialBits \in Int /\ 1 \in Nat /\ SpecialBits \in Nat /\ IndexBits \in Nat
  BY BitCounts, Width
<1>5. CASE doing = "index"
  <2>1. /\ UseSpecial(Drawn(seed, 0, SpecialBits))
        /\ Asked(SpecialBits, IndexBits) /\ Scalar(type)
    BY <1>5 DEF InFirst, KindAtPoint
  <2>2. Number(out, want) = Drawn(seed, SpecialBits, IndexBits)
    BY <1>1, <1>3, <1>4, <2>1, ServedFrom
  <2> QED
    BY <1>2, <1>5, <2>1, <2>2 DEF ScalarOfSeed, Scalar
<1>6. CASE doing = "value" /\ type.kind = "bool"
  <2>1. Asked(0, 1)
    BY <1>6 DEF InFirst
  <2>2. Number(out, want) = Drawn(seed, 0, 1)
    BY <1>1, <1>3, <1>4, <2>1, ServedFrom
  <2> QED
    BY <1>2, <1>6, <2>2 DEF ScalarOfSeed, Stored
<1>7. CASE doing = "value" /\ type.kind = "choice"
  <2>1. Asked(0, ChoiceBits(env)) /\ ChoiceBits(env) \in Nat
    BY <1>1, <1>7, ChoiceBitsAre, Width DEF InFirst
  <2>2. Number(out, want) = Drawn(seed, 0, ChoiceBits(env))
    BY <1>1, <1>3, <1>4, <2>1, ServedFrom
  <2> QED
    BY <1>2, <1>7, <2>2 DEF ScalarOfSeed, Stored
<1>8. CASE doing = "value" /\ type.kind \notin {"bool", "choice"}
  <2>1. /\ ~ UseSpecial(Drawn(seed, 0, SpecialBits))
        /\ Asked(SpecialBits, type.bits) /\ type.bits \in Nat
    BY <1>8, BitCounts, Width DEF InFirst, KindAtPoint
  <2>2. Number(out, want) = Drawn(seed, SpecialBits, type.bits)
    BY <1>1, <1>3, <1>4, <2>1, ServedFrom
  <2> QED
    BY <1>2, <1>8, <2>1, <2>2 DEF ScalarOfSeed
<1> QED
  BY <1>5, <1>6, <1>7, <1>8 DEF StoreValue

LEMMA FirstKeeps ==
  ASSUME StreamInv, ArgTypes, KindAtPoint, RoomInArray, InFirst, InstanceOfSeed,
         argi = 1, pc = "generating", AllocStep, UNCHANGED entryVars
  PROVE  InFirst' /\ InstanceOfSeed'
<1> USE DEF Returns, Allocated
<1>0. Len(chars) \in Nat /\ env \in Nat /\ Len(chars) * CharBits \in Int
      /\ CharBits \in Nat /\ SpecialBits \in Nat /\ IndexBits \in Nat
  BY Appended, BitCounts, Width DEF RoomInArray
<1>a. UNCHANGED <<argi, pc, seed>>
  BY DEF AllocStep, entryVars, MallocFails, CustomSkips, FirstRequest, SecondRequest,
         StoreValue, ArrayEnds, ArrayGrows, ArrayGoesOn, StoreByte, randomVars, prngVars,
         RequestBits, RequestBulk, Ask, ServeStep, Take, FillPool, Copy
<1>1. CASE MallocFails \/ CustomSkips
  BY <1>1 DEF MallocFails, CustomSkips, InFirst, InstanceOfSeed
<1>2. CASE FirstRequest
  <2>1. /\ UNCHANGED <<type, env, chars>> /\ doing = "begun" /\ type \in Types
        /\ AtBit(0) /\ chars = <<>>
    BY <1>2 DEF FirstRequest, InFirst, KindAtPoint, RoomInArray
  <2>2. CASE type.kind = "chars"
    <3>1. doing' = "chars" /\ UNCHANGED randomVars
      BY <1>2, <2>2 DEF FirstRequest
    <3>2. AtBit(0)' /\ Len(chars) * CharBits = 0 /\ Bytes(chars)'
      BY <1>0, <2>1, <3>1
         DEF AtBit, Cursor, LastWord, Pooled, randomVars, prngVars, requestVars, Bytes
    <3> QED
      BY <2>1, <3>1, <3>2 DEF InFirst, InstanceOfSeed
  <2>3. CASE type.kind = "bool"
    <3>1. doing' = "value" /\ RequestBits(1)
      BY <1>2, <2>3 DEF FirstRequest
    <3>2. Asked(0, 1)'
      BY <2>1, <3>1, AskedAt, BitCounts
    <3> QED
      BY <2>1, <2>3, <3>1, <3>2 DEF InFirst, InstanceOfSeed
  <2>4. CASE type.kind = "choice"
    <3>1. doing' = "value" /\ RequestBits(ChoiceBits(env))
      BY <1>2, <2>4 DEF FirstRequest
    <3>2. Asked(0, ChoiceBits(env))'
      BY <1>0, <2>1, <3>1, AskedAt, ChoiceBitsAre
    <3> QED
      BY <2>1, <2>4, <3>1, <3>2 DEF InFirst, InstanceOfSeed
  <2>5. CASE type.kind = "bulk"
    <3>1. doing' = "value"
      BY <1>2, <2>5 DEF FirstRequest
    <3> QED
      BY <2>1, <2>5, <3>1 DEF InFirst, InstanceOfSeed
  <2>6. CASE type.kind \notin {"chars", "bool", "choice", "bulk"}
    <3>1. doing' = "special" /\ RequestBits(SpecialBits)
      BY <1>2, <2>6 DEF FirstRequest
    <3>2. Asked(0, SpecialBits)'
      BY <2>1, <3>1, AskedAt, BitCounts
    <3> QED
      BY <2>1, <3>1, <3>2 DEF InFirst, InstanceOfSeed
  <2> QED
    BY <2>2, <2>3, <2>4, <2>5, <2>6
<1>3. CASE SecondRequest
  <2>1. /\ UNCHANGED <<type, env, chars>> /\ doing = "special" /\ at = "idle"
        /\ type \in Types /\ Scalar(type) /\ Asked(0, SpecialBits)
    BY <1>3 DEF SecondRequest, InFirst, KindAtPoint
  <2>2. Number(out, SpecialBits) = Drawn(seed, 0, SpecialBits) /\ AtBit(0 + SpecialBits)
    BY <1>0, <2>1, ServedFrom
  <2>3. AtBit(SpecialBits) /\ SpecialBits \in Int
    BY <1>0, <2>2
  <2>4. CASE UseSpecial(Number(out, SpecialBits))
    <3>1. doing' = "index" /\ RequestBits(IndexBits)
      BY <1>3, <2>4 DEF SecondRequest
    <3>2. Asked(SpecialBits, IndexBits)'
      BY <2>3, <3>1, AskedAt, BitCounts
    <3>3. UseSpecial(Drawn(seed', 0, SpecialBits))
      BY <1>a, <2>2, <2>4
    <3> QED
      BY <3>1, <3>2, <3>3 DEF InFirst, InstanceOfSeed
  <2>5. CASE ~ UseSpecial(Number(out, SpecialBits))
    <3>1. doing' = "value" /\ RequestBits(type.bits)
      BY <1>3, <2>5 DEF SecondRequest
    <3>2. type'.bits = type.bits /\ Asked(SpecialBits, type.bits)'
      BY <2>1, <2>3, <3>1, AskedAt, BitCounts
    <3>3. ~ UseSpecial(Drawn(seed', 0, SpecialBits))
      BY <1>a, <2>2, <2>5
    <3> QED
      BY <2>1, <3>1, <3>2, <3>3 DEF InFirst, InstanceOfSeed, Scalar
  <2> QED
    BY <2>4, <2>5
<1>4. CASE StoreValue
  <2>1. UNCHANGED <<type, env>> /\ doing' = "done" /\ type.kind # "chars"
    BY <1>4 DEF StoreValue, KindAtPoint, Scalar
  <2>2. type.kind # "bulk" => value' = ScalarOfSeed(seed', type', env')
    BY <1>4, <1>a, <2>1, FirstValue
  <2> QED
    BY <2>1, <2>2 DEF InFirst, InstanceOfSeed
<1>5. ASSUME NEW ok \in BOOLEAN, ArrayGrows(ok) \/ ArrayGoesOn
      PROVE  InFirst' /\ InstanceOfSeed'
  <2>1. /\ UNCHANGED <<type, env, chars>> /\ doing = "chars"
        /\ AtBit(Len(chars) * CharBits) /\ Bytes(chars)
    BY <1>5 DEF ArrayGrows, ArrayGoesOn, InFirst
  <2>2. \/ doing' = "byte" /\ RequestBits(CharBits)
        \/ doing' = "done" /\ ares' = "ERROR"
    BY <1>5 DEF ArrayGrows, ArrayGoesOn
  <2>3. CASE doing' = "byte" /\ RequestBits(CharBits)
    <3>1. Asked(Len(chars) * CharBits, CharBits)'
      <4>1. \A p \in Int : AtBit(p) => Asked(p, CharBits)'
        BY <2>3, AskedAt, BitCounts
      <4> QED
        BY <1>0, <2>1, <4>1
    <3>2. Bytes(chars)'
      BY <1>a, <2>1 DEF Bytes
    <3> QED
      BY <2>3, <3>1, <3>2 DEF InFirst, InstanceOfSeed
  <2>4. CASE doing' = "done" /\ ares' = "ERROR"
    BY <2>4 DEF InFirst, InstanceOfSeed
  <2> QED
    BY <2>2, <2>3, <2>4
<1>6. CASE ArrayEnds
  <2>1. /\ UNCHANGED <<type, env>> /\ doing = "chars" /\ doing' = "done"
        /\ type.kind = "chars" /\ Bytes(chars)
        /\ chars' = Append(chars, 0) /\ Len(chars) + 1 = env
    BY <1>6 DEF ArrayEnds, AtMaxLength, KindAtPoint, InFirst
  <2>2. /\ Len(chars') = env /\ chars'[env] = 0
        /\ \A k \in 1 .. env - 1 : chars'[k] = chars[k] /\ k \in 1 .. Len(chars)
    <3>1. Len(chars') = Len(chars) + 1
      BY <2>1, Appended DEF RoomInArray
    <3>2. chars'[Len(chars) + 1] = 0 /\ \A k \in 1 .. Len(chars) : chars'[k] = chars[k]
      BY <2>1, AppendedAt DEF RoomInArray
    <3> QED
      BY <1>0, <2>1, <3>1, <3>2
  <2>3. ArrayOfSeed(seed, env, chars')
    BY <2>1, <2>2 DEF ArrayOfSeed, Bytes
  <2> QED
    BY <1>a, <2>1, <2>3 DEF InFirst, InstanceOfSeed
<1>7. CASE StoreByte
  <2> DEFINE byte == Number(out, CharBits)
             l == Len(chars)
  <2>1. /\ UNCHANGED <<type, env>> /\ doing = "byte" /\ at = "idle"
        /\ type.kind = "chars" /\ Bytes(chars)
        /\ Asked(l * CharBits, CharBits)
        /\ chars' = Append(chars, byte)
        /\ \/ byte = 0 /\ doing' = "done"
           \/ byte # 0 /\ doing' = "chars" /\ UNCHANGED randomVars
    BY <1>7 DEF StoreByte, KindAtPoint, InFirst
  <2>2. byte = Drawn(seed, l * CharBits, CharBits) /\ AtBit(l * CharBits + CharBits)
    BY <1>0, <2>1, ServedFrom
  <2>3. Len(chars') = l + 1
    BY <2>1, Appended DEF RoomInArray
  <2>4. chars'[l + 1] = byte /\ \A k \in 1 .. l : chars'[k] = chars[k]
    BY <2>1, AppendedAt DEF RoomInArray
  <2>5. \A k \in 1 .. l : chars[k] = Drawn(seed, (k - 1) * CharBits, CharBits)
                          /\ chars[k] # 0
    BY <2>1 DEF Bytes
  <2>6. (l + 1) * CharBits = l * CharBits + CharBits /\ (l + 1) - 1 = l /\ l \in Nat
    BY <1>0
  <2> HIDE DEF byte, l
  <2>7. CASE byte = 0
    <3>1. doing' = "done"
      BY <2>1, <2>7
    <3>2. ArrayOfSeed(seed, env, chars')
      BY <2>2, <2>3, <2>4, <2>5, <2>6, <2>7 DEF ArrayOfSeed
    <3> QED
      BY <1>a, <2>1, <3>1, <3>2 DEF InFirst, InstanceOfSeed
  <2>8. CASE byte # 0
    <3>1. doing' = "chars" /\ UNCHANGED randomVars
      BY <2>1, <2>8
    <3>2. AtBit(Len(chars) * CharBits)'
      BY <2>2, <2>3, <2>6, <3>1
         DEF AtBit, Cursor, LastWord, Pooled, randomVars, prngVars, requestVars
    <3>3. \A k \in 1 .. l + 1 : chars'[k] = Drawn(seed, (k - 1) * CharBits, CharBits)
                                /\ chars'[k] # 0
      <4>1. ASSUME NEW k \in 1 .. l + 1
            PROVE  chars'[k] = Drawn(seed, (k - 1) * CharBits, CharBits) /\ chars'[k] # 0
        <5>1. CASE k = l + 1
          BY <2>2, <2>4, <2>6, <2>8, <5>1
        <5>2. CASE k # l + 1
          <6>1. k \in 1 .. l
            BY <2>6, <5>2
          <6> QED
            BY <2>4, <2>5, <6>1
        <5> QED
          BY <5>1, <5>2
      <4> QED
        BY <4>1
    <3>4. Bytes(chars)'
      BY <1>a, <2>3, <3>3 DEF Bytes
    <3> QED
      BY <3>1, <3>2, <3>4 DEF InFirst, InstanceOfSeed
  <2> QED
    BY <2>7, <2>8
<1>8. CASE ServeStep /\ UNCHANGED allocVars
  <2>1. at # "idle" /\ UNCHANGED <<type, env, doing, value, chars, ares>>
    BY <1>8 DEF ServeStep, Take, FillPool, Copy, allocVars
  <2>2. \A p \in Int, n \in Nat : Asked(p, n) => Asked(p, n)'
    BY <1>8, ServeAsked
  <2>3. CASE doing \in {"begun", "chars"}
    BY <2>1, <2>3 DEF InFirst, AtBit
  <2>4. CASE doing \in {"special", "index"}
    <3>1. 0 \in Int /\ SpecialBits \in Int
      BY <1>0
    <3> QED
      BY <1>0, <1>a, <2>1, <2>2, <2>4, <3>1 DEF InFirst, InstanceOfSeed
  <2>5. CASE doing = "value"
    <3>1. 0 \in Int /\ SpecialBits \in Int /\ 1 \in Nat /\ ChoiceBits(env) \in Nat
          /\ type.bits \in Nat
      <4>1. type.bits \in Nat
        BY <2>5, BitCounts, Width DEF KindAtPoint
      <4>2. ChoiceBits(env) \in Nat
        BY <1>0, ChoiceBitsAre, Width
      <4> QED
        BY <1>0, <4>1, <4>2
    <3>2. /\ Asked(0, 1) => Asked(0, 1)'
          /\ Asked(0, ChoiceBits(env)) => Asked(0, ChoiceBits(env))'
          /\ Asked(SpecialBits, type.bits) => Asked(SpecialBits, type.bits)'
      BY <2>1, <2>2, <3>1
    <3> QED
      BY <1>a, <2>1, <2>5, <3>2 DEF InFirst, InstanceOfSeed
  <2>6. CASE doing = "byte"
    <3>1. Asked(Len(chars) * CharBits, CharBits)'
      BY <1>0, <2>1, <2>2, <2>6 DEF InFirst
    <3>2. Bytes(chars)'
      BY <1>a, <2>1, <2>6 DEF InFirst, Bytes
    <3> QED
      BY <2>1, <2>6, <3>1, <3>2 DEF InFirst, InstanceOfSeed
  <2>7. CASE doing \notin {"begun", "chars", "special", "index", "value", "byte"}
    BY <1>a, <2>1, <2>7 DEF InFirst, InstanceOfSeed
  <2> QED
    BY <2>3, <2>4, <2>5, <2>6, <2>7
<1> QED
  BY <1>1, <1>2, <1>3, <1>4, <1>5, <1>6, <1>7, <1>8 DEF AllocStep

LEMMA SeedKeeps ==
  ASSUME SeedInv, StreamInv, ArgTypes, LimitsInv, RoomInArray, [Next]_vars
  PROVE  SeedInv'
<1>1. CASE EntryStep
  BY <1>1, EntryKeepsSeed
<1>2. CASE AllocStep /\ UNCHANGED entryVars
  <2>1. CASE doing = "none"
    <3>1. ServeStep /\ UNCHANGED allocVars /\ at # "idle"
      BY <1>2, <2>1
         DEF AllocStep, MallocFails, CustomSkips, FirstRequest, SecondRequest, StoreValue,
             ArrayEnds, ArrayGrows, ArrayGoesOn, StoreByte, ServeStep, Take, FillPool, Copy
    <3> QED
      BY <1>2, <2>1, <3>1
         DEF SeedInv, InstanceOfSeed, FromStart, allocVars, entryVars
  <2>2. CASE doing # "none"
    <3>1. pc = "generating" /\ pc' = "generating" /\ argi' = argi
      BY <1>2, <2>2 DEF SeedInv, entryVars
    <3>2. doing' # "none"
      BY <1>2, <2>2
         DEF AllocStep, MallocFails, CustomSkips, FirstRequest, SecondRequest, StoreValue,
             ArrayEnds, ArrayGrows, ArrayGoesOn, StoreByte, Returns, allocVars
    <3>3. argi = 1 => InFirst' /\ InstanceOfSeed'
      BY <1>2, <3>1, FirstKeeps DEF SeedInv, LimitsInv
    <3>4. argi # 1 => InstanceOfSeed'
      BY <3>1 DEF InstanceOfSeed
    <3> QED
      BY <3>1, <3>2, <3>3, <3>4 DEF SeedInv
  <2> QED
    BY <2>1, <2>2
<1>3. CASE UNCHANGED vars
  BY <1>3 DEF vars, randomVars, prngVars, requestVars, allocVars, entryVars, SeedInv,
              InstanceOfSeed, Allocated, FromStart, InFirst, AtBit, Asked, Cursor, LastWord,
              Pooled, Done, Position, Bytes
<1> QED
  BY <1>1, <1>2, <1>3 DEF Next, Over

(***************************************************************************)
(* A seed stands for one instance: what theft_generate makes of it, and    *)
(* the first argument of a trial with that seed (run_step), is what the    *)
(* seed's stream says, whether its bits are drawn one request at a time or *)
(* from a pool, whatever was generated before: for every type, environment *)
(* and generator, and every number of trials.                              *)
(***************************************************************************)
THEOREM SeedIsInstance == Spec => []InstanceOfSeed
<1>1. CallbackInv /\ SeedInv /\ [Next]_vars => (CallbackInv /\ SeedInv)'
  BY CallbacksKeep, SeedKeeps DEF CallbackInv, BitsInv
<1>2. SeedInv => InstanceOfSeed
  BY DEF SeedInv
<1> QED
  BY CallbackBegins, SeedAtFirst, <1>1, <1>2, PTL DEF Spec

-----------------------------------------------------------------------------
(* Choices.                                                                *)

(* Few enough bits are a number below the power of two.                    *)
LEMMA NumberBelow ==
  ASSUME NEW n \in 0 .. WordBits, NEW w, \A j \in 0 .. n - 1 : w[j] \in {0, 1}
  PROVE  Number(w, n) \in Nat /\ Number(w, n) < 2^n
<1>0. n \in Nat /\ TopPower \in Nat /\ n <= TopPower
  BY TopIs
<1>1. PICK h \in [0 .. n -> Int] : IsNumber(h, w, n) /\ Number(w, n) = h[n]
  BY <1>0, NumberIs
<1> DEFINE T == {k \in Nat : h[k] \in Nat /\ h[k] < 2^k}
<1>2. \A k \in 0 .. n : h[k] = IF k = 0 THEN 0 ELSE h[k - 1] + Worth(w, k)
  BY <1>1 DEF IsNumber
<1>3. 0 \in T
  BY <1>0, <1>2, Powers
<1>4. ASSUME NEW k \in 0 .. n - 1, k \in T PROVE k + 1 \in T
  <2>1. k + 1 \in 0 .. n /\ k + 1 # 0 /\ (k + 1) - 1 = k /\ k \in 0 .. TopPower
    BY <1>0
  <2>2. 2^k \in Nat /\ 2^(k + 1) = 2 * 2^k
    BY <2>1, Powers
  <2>3. Worth(w, k + 1) \in {0, 2^k}
    <3>1. w[k] \in {0, 1} /\ Worth(w, k + 1) = w[k] * 2^k
      BY <2>1 DEF Worth
    <3> QED
      BY <2>2, <3>1
  <2>4. h[k + 1] = h[k] + Worth(w, k + 1)
    BY <1>2, <2>1
  <2> QED
    BY <1>4, <2>1, <2>2, <2>3, <2>4
<1>5. 0 .. n \subseteq T
  <2> HIDE DEF T
  <2> QED
    BY <1>0, <1>3, <1>4, UpTo
<1>6. n \in T
  BY <1>0, <1>5
<1> QED
  BY <1>1, <1>6

ChoiceInv ==
  /\ doing = "value" /\ type.kind = "choice" => want = ChoiceBits(env)
  /\ Allocated /\ type.kind = "choice" => at = "idle"
  /\ ChoiceBelowCeil

LEMMA ChoiceAtFirst == Init => ChoiceInv
BY DEF Init, AllocInit, ChoiceInv, ChoiceBelowCeil, Allocated

LEMMA ChoiceForNext ==
  ASSUME ChoiceInv, SeedInv, ArgTypes, EntryStep
  PROVE  ChoiceInv'
<1> USE DEF ChoiceInv, ChoiceBelowCeil, Allocated
<1>1. CASE doing = "none" /\ UNCHANGED allocVars
  BY <1>1 DEF allocVars
<1>2. CASE AllocTaken
  BY <1>2 DEF AllocTaken
<1>3. CASE \E t \in Types, e \in Nat : AllocBegins(t, e)
  BY <1>3 DEF AllocBegins
<1>4. pc = "generating" => AllocTaken
  BY DEF EntryStep, InitMemory, InitHooks, InitRefuses, InitSeeds, GenerateAlloc,
         GenerateDone, TrialBegins, ArgPool, ArgBegins, ArgDone, TrialEnds,
         RunTrialsReturns, RunFree, entryVars
<1> QED
  BY <1>1, <1>2, <1>3, <1>4, CalledOrNot DEF SeedInv

LEMMA ChoiceKeeps ==
  ASSUME ChoiceInv, StreamInv, KindAtPoint, ArgTypes, AllocStep
  PROVE  ChoiceInv'
<1> USE DEF ChoiceInv, ChoiceBelowCeil, Allocated, Returns
<1>1. CASE MallocFails \/ CustomSkips
  BY <1>1 DEF MallocFails, CustomSkips
<1>2. CASE FirstRequest
  <2>1. UNCHANGED <<type, env>> /\ doing' # "done"
    BY <1>2 DEF FirstRequest
  <2>2. type.kind = "choice" => want' = ChoiceBits(env)
    BY <1>2 DEF FirstRequest, RequestBits, Ask
  <2> QED
    BY <2>1, <2>2
<1>3. CASE SecondRequest
  BY <1>3 DEF SecondRequest, KindAtPoint, Scalar
<1>4. CASE StoreValue
  <2> DEFINE n == Number(out, want)
  <2>1. /\ UNCHANGED <<type, env>> /\ UNCHANGED <<out, want, at>>
        /\ doing' = "done" /\ at = "idle"
    BY <1>4 DEF StoreValue, randomVars, requestVars
  <2>2. CASE type.kind = "choice" /\ env > 1
    <3>1. want = ChoiceBits(env) /\ value' = Choice(env, n)
      BY <1>4, <2>2 DEF StoreValue, KindAtPoint, Scalar, Stored
    <3>2. ChoiceBits(env) \in 0 .. WordBits /\ env \in Nat /\ env < 2^WordBits
      BY ChoiceBitsAre DEF ArgTypes
    <3>3. \A j \in 0 .. want - 1 : out[j] \in {0, 1}
      BY DEF StreamInv, Buffers
    <3>4. n \in Nat /\ n < 2^ChoiceBits(env)
      BY <3>1, <3>2, <3>3, NumberBelow
    <3> HIDE DEF n
    <3>5. \/ Choice(env, n) < env
          \/ /\ ChoiceBits(env) = WordBits /\ ~ PowerOfTwo(env)
             /\ Rounded(n) = 2^WordBits
      BY <2>2, <3>2, <3>4, ChoiceIsBelow
    <3> QED
      BY <2>1, <3>1, <3>5 DEF n
  <2>3. CASE ~ (type.kind = "choice" /\ env > 1)
    BY <2>1, <2>3
  <2> QED
    BY <2>2, <2>3
<1>5. CASE ArrayEnds \/ ArrayGoesOn \/ StoreByte \/ \E ok \in BOOLEAN : ArrayGrows(ok)
  <2>1. type.kind = "chars" /\ type' = type
    BY <1>5 DEF ArrayEnds, ArrayGoesOn, StoreByte, ArrayGrows, KindAtPoint
  <2> QED
    BY <2>1
<1>6. CASE ServeStep /\ UNCHANGED allocVars
  <2>1. at # "idle" /\ want' = want
    BY <1>6 DEF ServeStep, Take, FillPool, Copy
  <2> QED
    BY <1>6, <2>1 DEF allocVars
<1> QED
  BY <1>1, <1>2, <1>3, <1>4, <1>5, <1>6 DEF AllocStep

LEMMA ChoicesKeep ==
  ASSUME ChoiceInv, SeedInv, CallbackInv, [Next]_vars
  PROVE  ChoiceInv'
<1>1. ASSUME UNCHANGED vars PROVE ChoiceInv'
  BY <1>1 DEF vars, randomVars, requestVars, allocVars, ChoiceInv, ChoiceBelowCeil, Allocated
<1> QED
  BY <1>1, ChoiceForNext, ChoiceKeeps DEF CallbackInv, BitsInv, LimitsInv, Next, Over

(***************************************************************************)
(* theft_random_choice returns less than its ceil, in whatever precision   *)
(* it computes, for every ceil and generator, as long as few bits times a  *)
(* small ceil are exact.  The one exception is a draw of a whole word that *)
(* is rounded up to 2^WordBits.                                            *)
(***************************************************************************)
THEOREM ChoicesAreBelow == Spec => []ChoiceBelowCeil
<1>1. /\ CallbackInv /\ SeedInv /\ ChoiceInv /\ [Next]_vars
         => (CallbackInv /\ SeedInv /\ ChoiceInv)'
  BY CallbacksKeep, SeedKeeps, ChoicesKeep DEF CallbackInv, BitsInv
<1>2. ChoiceInv => ChoiceBelowCeil
  BY DEF ChoiceInv
<1> QED
  BY CallbackBegins, SeedAtFirst, ChoiceAtFirst, <1>1, <1>2, PTL DEF Spec
=============================================================================
