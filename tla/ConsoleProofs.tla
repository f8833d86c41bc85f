---------------------------- MODULE ConsoleProofs ----------------------------
(***************************************************************************)
(* The kernel's printing and libc/string: the loops of libc/string compute *)
(* what they should, printf puts the text of its call or fails before the  *)
(* piece that does not fit, the digits of every number fit their buffer,   *)
(* and the terminal, when nothing interrupts it, implements the abstract   *)
(* screen.                                                                 *)
(***************************************************************************)
EXTENDS Console, SequenceTheorems, TLAPS

-----------------------------------------------------------------------------
(* libc/string: loop invariants, and the properties at the end of the      *)
(* loops.                                                                  *)


Writers == Copies \cup {"memset"}

(* The byte a call should leave at address a of its destination.           *)
Wanted(a) == IF call.fn = "memset" THEN call.value % ByteRadix
             ELSE before[call.src + (a - call.dst)]

(* Shapes, and what a caller promises.                                     *)
CallOK ==
  /\ memory \in [Addresses -> Bytes] /\ before \in [Addresses -> Bytes]
  /\ call \in [fn : Functions, dst : Addresses, src : Addresses,
               n : 0 .. MaxLength, value : 0 .. ByteRadix]
  /\ Allowed(call, before)
  /\ i \in Nat /\ returned \in BOOLEAN

(* The bytes the loop has passed are as they should be, and the others as  *)
(* they were.                                                              *)
Passed(a) == IF Downwards(call) THEN call.dst + i <= a /\ a < call.dst + call.n
             ELSE call.dst <= a /\ a < call.dst + i

WriterInv ==
  call.fn \in Writers =>
    /\ i <= call.n
    /\ returned => i = IF Downwards(call) THEN 0 ELSE call.n
    /\ \A a \in Addresses : memory[a] = IF Passed(a) THEN Wanted(a) ELSE before[a]

(* The bytes a comparison has passed agree; strncmp and strlen have met no *)
(* NUL among them.                                                         *)
ReaderInv ==
  call.fn \notin Writers =>
    /\ memory = before
    /\ call.fn \in {"memcmp", "strncmp"} => i <= call.n /\ Agree(i)
    /\ call.fn = "strncmp" => NoEnd(call.dst, i)
    /\ call.fn = "strlen" => NoEnd(call.src, i)

LoopInv == CallOK /\ WriterInv /\ ReaderInv /\ Compared

-----------------------------------------------------------------------------
LEMMA InitEstablishes == StringsInit => LoopInv
  <1> SUFFICES ASSUME StringsInit PROVE LoopInv
    OBVIOUS
  <1>1. CallOK
    <2>1. call.n \in Nat
      BY DEF StringsInit
    <2> QED BY <2>1 DEF StringsInit, CallOK
  <1>2. WriterInv
    BY <1>1 DEF StringsInit, CallOK, WriterInv, Passed, Writers, Downwards, Copies, Functions,
                Addresses
  <1>3. ReaderInv
    BY DEF StringsInit, ReaderInv, Agree, NoEnd, Downwards, Writers, Copies
  <1>4. Compared
    BY DEF StringsInit, Compared
  <1> QED BY <1>1, <1>2, <1>3, <1>4 DEF LoopInv

(* A byte that a copy is about to read has not been replaced yet.          *)
LEMMA SourceIntact ==
  ASSUME LoopInv, call.fn \in Copies,
         NEW k \in Nat, k < call.n,
         IF Downwards(call) THEN k < i ELSE k >= i
  PROVE  /\ call.src + k \in Addresses
         /\ memory[call.src + k] = before[call.src + k]
  <1>1. /\ call.src \in Nat /\ call.dst \in Nat /\ call.n \in Nat /\ i \in Nat
        /\ MemorySize \in Nat /\ call.src + call.n <= MemorySize
    BY StringsAssumption DEF LoopInv, CallOK, Addresses, Allowed, Within, Copies
  <1>2. call.src + k \in Addresses
    BY <1>1 DEF Addresses
  <1>3. call.fn = "memmove" \/ Disjoint(call.dst, call.src, call.n)
    BY DEF LoopInv, CallOK, Allowed, Copies
  <1>4. ~Passed(call.src + k)
    BY <1>1, <1>3 DEF Passed, Downwards, Disjoint, Copies, LoopInv, WriterInv, Writers
  <1> QED BY <1>2, <1>4 DEF LoopInv, WriterInv, Writers

LEMMA StepPreservesWriter ==
  ASSUME LoopInv, [StringsNext]_stringsVars, call.fn \in Writers
  PROVE  LoopInv'
  <1>0. /\ call.src \in Nat /\ call.dst \in Nat /\ call.n \in Nat /\ i \in Nat
        /\ MemorySize \in Nat /\ ByteRadix \in Nat \ {0} /\ i <= call.n
        /\ call.dst + call.n <= MemorySize /\ call.value \in Nat
    BY StringsAssumption
       DEF LoopInv, CallOK, WriterInv, Writers, Addresses, Allowed, Within, Copies
  <1>1. CASE CopyUp
    <2>1. /\ call' = call /\ before' = before /\ returned' = returned /\ i' = i + 1 /\ i < call.n
          /\ ~Downwards(call) /\ ~returned /\ call.fn \in Copies
          /\ memory' = [memory EXCEPT ![call.dst + i] = memory[call.src + i]]
      BY <1>1 DEF CopyUp, Store, Calls, Right
    <2>2. /\ call.src + i \in Addresses /\ call.dst + i \in Addresses
          /\ memory[call.src + i] = before[call.src + i]
      BY <1>0, <2>1, SourceIntact DEF Addresses
    <2>3. CallOK'
      BY <2>1, <2>2, <1>0 DEF LoopInv, CallOK, Allowed, Within, Disjoint, Terminated
    <2>4. ~Downwards(call)'
      BY <2>1 DEF Downwards
    <2>5. ASSUME NEW a \in Addresses
          PROVE memory'[a] = IF Passed(a)' THEN Wanted(a)' ELSE before'[a]
      <3>1. Passed(a)' <=> Passed(a) \/ a = call.dst + i
        BY <2>1, <2>4, <1>0 DEF Passed, Addresses
      <3>2. Wanted(a)' = Wanted(a) /\ Wanted(call.dst + i) = before[call.src + i]
        BY <2>1, <1>0 DEF Wanted, Copies
      <3>3. memory[a] = IF Passed(a) THEN Wanted(a) ELSE before[a]
        BY DEF LoopInv, WriterInv
      <3> QED BY <2>1, <2>2, <3>1, <3>2, <3>3 DEF LoopInv, CallOK
    <2>6. WriterInv'
      BY <2>1, <2>5, <1>0 DEF WriterInv
    <2> QED BY <2>1, <2>3, <2>6 DEF LoopInv, ReaderInv, Compared, Writers
  <1>2. CASE CopyDown
    <2>1. /\ call' = call /\ before' = before /\ returned' = returned /\ i' = i - 1 /\ i # 0
          /\ Downwards(call) /\ ~returned /\ call.fn \in Copies
          /\ memory' = [memory EXCEPT ![call.dst + i - 1] = memory[call.src + i - 1]]
      BY <1>2 DEF CopyDown, Store, Calls
    <2>2. /\ call.src + (i - 1) \in Addresses /\ call.dst + (i - 1) \in Addresses
          /\ memory[call.src + (i - 1)] = before[call.src + (i - 1)]
          /\ call.src + (i - 1) = call.src + i - 1 /\ call.dst + (i - 1) = call.dst + i - 1
      <3>1. i - 1 \in Nat /\ i - 1 < call.n /\ i - 1 < i
        BY <1>0, <2>1
      <3> QED BY <1>0, <2>1, <3>1, SourceIntact DEF Addresses
    <2>3. CallOK'
      BY <2>1, <2>2, <1>0 DEF LoopInv, CallOK, Allowed, Within, Disjoint, Terminated
    <2>4. Downwards(call)'
      BY <2>1 DEF Downwards
    <2>5. ASSUME NEW a \in Addresses
          PROVE memory'[a] = IF Passed(a)' THEN Wanted(a)' ELSE before'[a]
      <3>1. Passed(a)' <=> Passed(a) \/ a = call.dst + (i - 1)
        BY <2>1, <2>4, <1>0 DEF Passed, Addresses
      <3>2. Wanted(a)' = Wanted(a) /\ Wanted(call.dst + (i - 1)) = before[call.src + (i - 1)]
        BY <2>1, <1>0 DEF Wanted, Copies
      <3>3. memory[a] = IF Passed(a) THEN Wanted(a) ELSE before[a]
        BY DEF LoopInv, WriterInv
      <3> QED BY <2>1, <2>2, <3>1, <3>2, <3>3 DEF LoopInv, CallOK
    <2>6. WriterInv'
      BY <2>1, <2>5, <1>0 DEF WriterInv
    <2> QED BY <2>1, <2>3, <2>6 DEF LoopInv, ReaderInv, Compared, Writers
  <1>3. CASE Fill
    <2>1. /\ call' = call /\ before' = before /\ returned' = returned /\ i' = i + 1 /\ i < call.n
          /\ ~returned /\ call.fn = "memset"
          /\ memory' = [memory EXCEPT ![call.dst + i] = call.value % ByteRadix]
      BY <1>3 DEF Fill, Store, Calls
    <2>2. call.dst + i \in Addresses /\ call.value % ByteRadix \in Bytes
      BY <1>0, <2>1 DEF Addresses, Bytes
    <2>3. CallOK'
      BY <2>1, <2>2, <1>0 DEF LoopInv, CallOK, Allowed, Within, Disjoint, Terminated
    <2>4. ~Downwards(call) /\ ~Downwards(call)'
      BY <2>1 DEF Downwards
    <2>5. ASSUME NEW a \in Addresses
          PROVE memory'[a] = IF Passed(a)' THEN Wanted(a)' ELSE before'[a]
      <3>1. Passed(a)' <=> Passed(a) \/ a = call.dst + i
        BY <2>1, <2>4, <1>0 DEF Passed, Addresses
      <3>2. Wanted(a)' = Wanted(a) /\ Wanted(a) = call.value % ByteRadix
        BY <2>1 DEF Wanted
      <3>3. memory[a] = IF Passed(a) THEN Wanted(a) ELSE before[a]
        BY DEF LoopInv, WriterInv
      <3> QED BY <2>1, <2>2, <3>1, <3>2, <3>3 DEF LoopInv, CallOK
    <2>6. WriterInv'
      BY <2>1, <2>5, <1>0 DEF WriterInv
    <2> QED BY <2>1, <2>3, <2>6 DEF LoopInv, ReaderInv, Compared, Writers
  <1>4. CASE MemoryDone
    <2>1. /\ UNCHANGED <<memory, call, i, before>> /\ returned' = TRUE
          /\ i = IF Downwards(call) THEN 0 ELSE call.n
      BY <1>4 DEF MemoryDone, Answer
    <2> QED BY <2>1, <1>0 DEF LoopInv, CallOK, WriterInv, ReaderInv, Compared, Writers, Copies,
               Downwards, Passed, Wanted, Allowed, Within, Disjoint, Terminated
  <1>5. CASE UNCHANGED stringsVars
    BY <1>5 DEF stringsVars, LoopInv, CallOK, WriterInv, ReaderInv, Compared, Downwards,
                Passed, Wanted, Allowed, Within, Disjoint, Terminated, Agree, NoEnd
  <1>6. ~Memcmp /\ ~Strncmp /\ ~Strlen
    BY DEF Memcmp, Strncmp, Strlen, Calls, Writers, Copies
  <1> QED BY <1>1, <1>2, <1>3, <1>4, <1>5, <1>6 DEF StringsNext

(* What the comparisons read lies inside memory: a string ends before.     *)
LEMMA ReadsInside ==
  ASSUME LoopInv,
         NEW a \in Addresses, call.fn \in {"strncmp", "strlen"}, NoEnd(a, i),
         (call.fn = "strncmp" /\ i < call.n /\ a + call.n <= MemorySize) \/ Terminated(before, a)
  PROVE  a + i \in Addresses /\ before[a + i] \in Nat
  <1>0. i \in Nat /\ call.n \in Nat /\ MemorySize \in Nat /\ ByteRadix \in Nat
    BY StringsAssumption DEF LoopInv, CallOK
  <1>1. a + i \in Addresses
    <2>1. CASE call.fn = "strncmp" /\ i < call.n /\ a + call.n <= MemorySize
      BY <2>1, <1>0 DEF Addresses
    <2>2. CASE Terminated(before, a)
      <3>1. PICK e \in Addresses : a <= e /\ before[e] = NUL
        BY <2>2 DEF Terminated
      <3>2. SUFFICES ASSUME e < a + i PROVE FALSE
        BY <3>1, <1>0 DEF Addresses
      <3>3. e - a \in 0 .. i - 1 /\ a + (e - a) = e
        BY <3>1, <3>2, <1>0 DEF Addresses
      <3> QED BY <3>1, <3>3 DEF NoEnd
    <2> QED BY <2>1, <2>2
  <1> QED BY <1>0, <1>1 DEF LoopInv, CallOK, Bytes

LEMMA StepPreservesReader ==
  ASSUME LoopInv, [StringsNext]_stringsVars, call.fn \notin Writers
  PROVE  LoopInv'
  <1>0. /\ i \in Nat /\ call.n \in Nat /\ memory = before
        /\ call.dst \in Addresses /\ call.src \in Addresses
    BY DEF LoopInv, CallOK, ReaderInv
  <1>1. CASE Memcmp
    <2>0. call.fn = "memcmp" /\ ~returned /\ i <= call.n /\ Agree(i)
      BY <1>1 DEF Memcmp, Calls, LoopInv, ReaderInv
    <2>1. CASE i < call.n /\ Left = Right /\ Continue
      <3>1. UNCHANGED <<memory, call, returned, before>> /\ i' = i + 1
        BY <2>1 DEF Continue
      <3>2. Agree(i)'
        BY <2>0, <2>1, <3>1, <1>0 DEF Agree, Left, Right
      <3> QED BY <2>0, <2>1, <3>1, <3>2, <1>0
              DEF LoopInv, CallOK, WriterInv, ReaderInv, Compared, Writers, Copies,
                  Allowed, Within, Disjoint, Terminated
    <2>2. CASE i < call.n /\ Left # Right /\ Answer(IF Left < Right THEN -1 ELSE 1)
      <3>1. /\ UNCHANGED <<memory, call, i, before>> /\ returned' = TRUE
            /\ answer' = IF before[call.dst + i] < before[call.src + i] THEN -1 ELSE 1
        BY <2>2, <1>0 DEF Answer, Left, Right
      <3> QED BY <2>0, <2>2, <3>1, <1>0
              DEF LoopInv, CallOK, WriterInv, ReaderInv, Compared, Writers, Copies,
                  Allowed, Within, Disjoint, Terminated, Agree
    <2>3. CASE i = call.n /\ Answer(0)
      BY <2>0, <2>3, <1>0
         DEF Answer, LoopInv, CallOK, WriterInv, ReaderInv, Compared, Writers, Copies,
             Allowed, Within, Disjoint, Terminated, Agree
    <2> QED BY <1>1, <2>1, <2>2, <2>3 DEF Memcmp
  <1>2. CASE Strncmp
    <2>0. call.fn = "strncmp" /\ ~returned /\ i <= call.n /\ Agree(i) /\ NoEnd(call.dst, i)
      BY <1>2 DEF Strncmp, Calls, LoopInv, ReaderInv
    <2>1. CASE i < call.n /\ Left # NUL /\ Right # NUL /\ Left = Right /\ Continue
      <3>1. UNCHANGED <<memory, call, returned, before>> /\ i' = i + 1
        BY <2>1 DEF Continue
      <3>2. Agree(i)' /\ NoEnd(call.dst, i)'
        BY <2>0, <2>1, <3>1, <1>0 DEF Agree, NoEnd, Left, Right
      <3> QED BY <2>0, <2>1, <3>1, <3>2, <1>0
              DEF LoopInv, CallOK, WriterInv, ReaderInv, Compared, Writers, Copies,
                  Allowed, Within, Disjoint, Terminated
    <2>2. CASE i < call.n /\ (Left = NUL \/ Right = NUL \/ Left # Right) /\ Answer(Left - Right)
      <3>1. /\ UNCHANGED <<memory, call, i, before>> /\ returned' = TRUE
            /\ answer' = before[call.dst + i] - before[call.src + i]
        BY <2>2, <1>0 DEF Answer, Left, Right
      <3>2. NoEnd(call.src, i)
        BY <2>0, <1>0 DEF NoEnd, Agree
      <3>3. \A a \in {call.dst, call.src} : call.n + a <= MemorySize \/ Terminated(before, a)
        BY <2>0, <1>0, StringsAssumption DEF LoopInv, CallOK, Allowed, Within, Addresses
      <3>4. before[call.dst + i] \in Nat /\ before[call.src + i] \in Nat
        BY <2>0, <2>2, <3>2, <3>3, <1>0, ReadsInside, StringsAssumption DEF Addresses
      <3>5. Compared'
        BY <2>0, <2>2, <3>1, <3>4, <1>0 DEF Compared, Agree, NoEnd, Left, Right, NUL
      <3> QED BY <2>0, <2>2, <3>1, <3>5, <1>0
              DEF LoopInv, CallOK, WriterInv, ReaderInv, Writers, Copies,
                  Allowed, Within, Disjoint, Terminated, Agree, NoEnd
    <2>3. CASE i = call.n /\ Answer(0)
      BY <2>0, <2>3, <1>0
         DEF Answer, LoopInv, CallOK, WriterInv, ReaderInv, Compared, Writers, Copies,
             Allowed, Within, Disjoint, Terminated, Agree, NoEnd
    <2> QED BY <1>2, <2>1, <2>2, <2>3 DEF Strncmp
  <1>3. CASE Strlen
    <2>0. call.fn = "strlen" /\ ~returned /\ NoEnd(call.src, i)
      BY <1>3 DEF Strlen, Calls, LoopInv, ReaderInv
    <2>1. CASE Right # NUL /\ Continue
      <3>1. UNCHANGED <<memory, call, returned, before>> /\ i' = i + 1
        BY <2>1 DEF Continue
      <3>2. NoEnd(call.src, i)'
        BY <2>0, <2>1, <3>1, <1>0 DEF NoEnd, Right
      <3> QED BY <2>0, <3>1, <3>2, <1>0
              DEF LoopInv, CallOK, WriterInv, ReaderInv, Compared, Writers, Copies,
                  Allowed, Within, Disjoint, Terminated
    <2>2. CASE Right = NUL /\ Answer(i)
      BY <2>0, <2>2, <1>0
         DEF Answer, Right, LoopInv, CallOK, WriterInv, ReaderInv, Compared, Writers, Copies,
             Allowed, Within, Disjoint, Terminated, NoEnd
    <2> QED BY <1>3, <2>1, <2>2 DEF Strlen
  <1>4. CASE UNCHANGED stringsVars
    BY <1>4 DEF stringsVars, LoopInv, CallOK, WriterInv, ReaderInv, Compared, Downwards,
                Passed, Wanted, Allowed, Within, Disjoint, Terminated, Agree, NoEnd
  <1>5. ~CopyUp /\ ~CopyDown /\ ~Fill /\ ~MemoryDone
    BY DEF CopyUp, CopyDown, Fill, MemoryDone, Calls, Writers
  <1> QED BY <1>1, <1>2, <1>3, <1>4, <1>5 DEF StringsNext

-----------------------------------------------------------------------------
(* memcpy, memmove and memset leave their destination with the bytes they  *)
(* were asked for and the rest of memory alone, also when the areas of     *)
(* memmove overlap.                                                        *)
LEMMA MovesMemory ==
  ASSUME LoopInv
  PROVE  MemoryMoved
  <1> SUFFICES ASSUME returned, NEW a \in Addresses
               PROVE  memory[a] = IF call.fn \notin Copies \cup {"memset"}
                                     \/ a < call.dst \/ a >= call.dst + call.n
                                  THEN before[a]
                                  ELSE IF call.fn = "memset" THEN call.value % ByteRadix
                                  ELSE before[call.src + (a - call.dst)]
    BY DEF MemoryMoved
  <1>1. CASE call.fn \in Writers
    <2>1. /\ memory[a] = IF Passed(a) THEN Wanted(a) ELSE before[a]
          /\ i = IF Downwards(call) THEN 0 ELSE call.n
      BY <1>1 DEF LoopInv, WriterInv
    <2>2. Passed(a) <=> call.dst <= a /\ a < call.dst + call.n
      BY <2>1 DEF Passed, LoopInv, CallOK, Addresses
    <2>3. a \in Int /\ call.dst \in Int /\ call.n \in Int
      BY DEF LoopInv, CallOK, Addresses
    <2> QED BY <1>1, <2>1, <2>2, <2>3 DEF Wanted, Writers
  <1>2. CASE call.fn \notin Writers
    BY <1>2 DEF LoopInv, ReaderInv, Writers
  <1> QED BY <1>1, <1>2

-----------------------------------------------------------------------------
(* printf: the digits of every number fit their buffer, for every size of  *)
(* a word.                                                                 *)


Digits == {DigitChars[k] : k \in 1 .. 16}

(* As many digits as a word may have, and a buffer takes; a word that      *)
(* fits hex_to_print has no more than ten decimal digits.                  *)
BaseOf(x) == IF x = "x" THEN 16 ELSE 10
Enough(x) == IF x = "x" THEN HexSize ELSE IF DecimalSize < 10 THEN DecimalSize ELSE 10

(* What is left of the number has no more digits than the buffer has room. *)
RoomInv ==
  doing = "digits" =>
    /\ conv \in {"d", "u", "x"}
    /\ digits \in Seq(Digits) /\ Len(digits) <= Enough(conv)
    /\ num \in Nat /\ num < Power(BaseOf(conv), Enough(conv) - Len(digits))

(* The law of powers as far as the proofs need it: the prover computes     *)
(* powers of numbers, but does not know the law.                           *)
Raises(b, k) == Power(b, k) \in Nat /\ Power(b, k) = b * Power(b, k - 1)
Most(b) == IF b = 10 THEN 10 ELSE 9

LEMMA PowersOfTen ==
  /\ Power(10, 0) = 1
  /\ Raises(10, 1) /\ Raises(10, 2) /\ Raises(10, 3) /\ Raises(10, 4) /\ Raises(10, 5)
  /\ Raises(10, 6) /\ Raises(10, 7) /\ Raises(10, 8) /\ Raises(10, 9) /\ Raises(10, 10)
  BY SMT DEF Raises, Power

LEMMA PowersOfSixteen ==
  /\ Power(16, 0) = 1
  /\ Raises(16, 1) /\ Raises(16, 2) /\ Raises(16, 3) /\ Raises(16, 4)
  /\ Raises(16, 5) /\ Raises(16, 6) /\ Raises(16, 7) /\ Raises(16, 8) /\ Raises(16, 9)
  BY SMT DEF Raises, Power

LEMMA PowerLaw ==
  \A b \in {10, 16} : Power(b, 0) = 1 /\ \A k \in 1 .. Most(b) : Raises(b, k)
  <1>1. ASSUME NEW k \in 1 .. 10 PROVE Raises(10, k)
    <2>1. k = 1 \/ k = 2 \/ k = 3 \/ k = 4 \/ k = 5 \/ k = 6 \/ k = 7 \/ k = 8 \/ k = 9 \/ k = 10
      OBVIOUS
    <2> QED BY <2>1, PowersOfTen
  <1>2. ASSUME NEW k \in 1 .. 9 PROVE Raises(16, k)
    <2>1. k = 1 \/ k = 2 \/ k = 3 \/ k = 4 \/ k = 5 \/ k = 6 \/ k = 7 \/ k = 8 \/ k = 9
      OBVIOUS
    <2> QED BY <2>1, PowersOfSixteen
  <1> QED BY <1>1, <1>2, PowersOfTen, PowersOfSixteen DEF Most

(* A word of eight hexadecimal digits has at most ten decimal ones.        *)
LEMMA WordsHaveTenDigits == WordValues <= Power(10, 10)
  <1>1. /\ Power(16, 0) <= Power(10, 10) /\ Power(16, 1) <= Power(10, 10)
        /\ Power(16, 2) <= Power(10, 10) /\ Power(16, 3) <= Power(10, 10)
        /\ Power(16, 4) <= Power(10, 10) /\ Power(16, 5) <= Power(10, 10)
        /\ Power(16, 6) <= Power(10, 10) /\ Power(16, 7) <= Power(10, 10)
        /\ Power(16, 8) <= Power(10, 10)
    BY SMT DEF Power
  <1>2. HexSize = 0 \/ HexSize = 1 \/ HexSize = 2 \/ HexSize = 3 \/ HexSize = 4
        \/ HexSize = 5 \/ HexSize = 6 \/ HexSize = 7 \/ HexSize = 8
    BY PrintfAssumption
  <1>3. Power(16, HexSize) \in Nat /\ Power(16, HexSize) <= Power(10, 10) /\ Power(10, 10) \in Nat
    BY <1>1, <1>2, PowersOfTen, PowersOfSixteen DEF Raises
  <1>4. WordValues \in Nat /\ WordValues <= Power(16, HexSize)
    BY PrintfAssumption
  <1> QED BY <1>3, <1>4

LEMMA RadixAndSize ==
  ASSUME NEW x
  PROVE  /\ BaseOf(x) \in {10, 16} /\ Enough(x) \in 0 .. Most(BaseOf(x))
         /\ WordValues <= Power(BaseOf(x), Enough(x))
  <1>1. CASE x = "x"
    BY <1>1, PrintfAssumption DEF BaseOf, Enough, Most
  <1>2. CASE x # "x" /\ DecimalSize < 10
    BY <1>2, PrintfAssumption DEF BaseOf, Enough, Most
  <1>3. CASE x # "x" /\ ~(DecimalSize < 10)
    BY <1>3, PrintfAssumption, WordsHaveTenDigits DEF BaseOf, Enough, Most
  <1> QED BY <1>1, <1>2, <1>3

LEMMA Quotient ==
  ASSUME NEW b \in {10, 16}, NEW n \in Nat
  PROVE  /\ n \div b \in Nat /\ (n % b) + 1 \in 1 .. 16
         /\ \A m \in Nat : n < b * m => n \div b < m
  <1>1. CASE b = 10
    BY <1>1
  <1>2. CASE b = 16
    BY <1>2
  <1> QED BY <1>1, <1>2

LEMMA DigitTakesRoom == ASSUME RoomInv, Digit PROVE RoomInv'
  <1>1. /\ doing = "digits" /\ num # 0 /\ num \in Nat /\ digits \in Seq(Digits)
        /\ digits' = Append(digits, DigitChars[(num % Base) + 1])
        /\ num' = num \div Base /\ conv' = conv /\ doing' = doing
    BY DEF Digit, RoomInv
  <1> DEFINE radix == BaseOf(conv)
  <1> DEFINE room == Enough(conv) - Len(digits)
  <1>2. Base = radix /\ radix \in {10, 16} /\ Enough(conv) \in 0 .. Most(radix)
        /\ Most(radix) \in Nat
    BY RadixAndSize DEF Base, BaseOf, Most
  <1>3. room \in 0 .. Most(radix) /\ num < Power(radix, room)
    BY <1>1, <1>2 DEF RoomInv
  <1>4. room # 0
    BY <1>1, <1>2, <1>3, PowerLaw
  <1>5. /\ Power(radix, room) = radix * Power(radix, room - 1)
        /\ Power(radix, room - 1) \in Nat
    <2>1. room \in 1 .. Most(radix)
      BY <1>2, <1>3, <1>4
    <2>2. CASE room = 1
      <3>1. Power(radix, room) = radix * Power(radix, room - 1)
        BY <1>2, <2>1, PowerLaw DEF Raises
      <3>2. room - 1 = 0 /\ Power(radix, 0) = 1
        BY <1>2, <2>2, PowerLaw
      <3>3. Power(radix, room - 1) = 1
        BY <3>2
      <3> QED BY <3>1, <3>3
    <2>3. CASE room # 1
      <3>1. room - 1 \in 1 .. Most(radix)
        BY <1>2, <2>1, <2>3
      <3> QED BY <1>2, <2>1, <3>1, PowerLaw DEF Raises
    <2> QED BY <2>2, <2>3
  <1>6. num \div Base \in Nat /\ num \div Base < Power(radix, room - 1)
    <2> DEFINE limit == Power(radix, room - 1)
    <2>1. limit \in Nat /\ num < Base * limit
      BY <1>2, <1>3, <1>5
    <2> HIDE DEF limit
    <2>4. num \div Base \in Nat /\ num \div Base < limit
      BY <1>1, <1>2, <2>1, Quotient
    <2> QED BY <2>4 DEF limit
  <1>7. (num % Base) + 1 \in 1 .. 16
    BY <1>1, <1>2, Quotient
  <1>8. digits' \in Seq(Digits) /\ Len(digits') = Len(digits) + 1
    <2>1. DigitChars[(num % Base) + 1] \in Digits
      BY <1>7 DEF Digits
    <2> QED BY <1>1, <2>1
  <1>9. Enough(conv) - Len(digits') = room - 1 /\ Len(digits') <= Enough(conv)
    BY <1>1, <1>2, <1>3, <1>4, <1>8
  <1> QED BY <1>1, <1>6, <1>8, <1>9 DEF RoomInv

LEMMA NumberHasRoom == ASSUME Number PROVE RoomInv'
  <1>1. PICK x \in {"d", "u", "x"} :
          /\ Head(args) \in IF x = "d" THEN IntMin + 1 .. WordValues \div 2 - 1
                            ELSE 1 .. WordValues - 1
          /\ conv' = x /\ digits' = <<>>
          /\ num' = IF Head(args) < 0 THEN -Head(args) ELSE Head(args)
    BY DEF Number
  <1>2. num' \in Nat /\ num' < WordValues
    <2>1. WordValues \in Nat /\ WordValues \div 2 <= WordValues /\ WordValues \div 2 \in Nat
      BY PrintfAssumption
    <2>2. CASE x = "d"
      BY <1>1, <2>1, <2>2 DEF IntMin
    <2>3. CASE x # "d"
      BY <1>1, <2>1, <2>3
    <2> QED BY <2>2, <2>3
  <1>3. /\ BaseOf(x) \in {10, 16} /\ Enough(x) \in 0 .. Most(BaseOf(x)) /\ Most(BaseOf(x)) \in Nat
        /\ WordValues <= Power(BaseOf(x), Enough(x))
    BY RadixAndSize DEF BaseOf, Most
  <1>4. Power(BaseOf(x), Enough(x)) \in Nat
    <2>1. CASE Enough(x) = 0
      BY <1>3, <2>1, PowerLaw
    <2>2. CASE Enough(x) # 0
      <3>1. Enough(x) \in 1 .. Most(BaseOf(x))
        BY <1>3, <2>2
      <3> QED BY <1>3, <3>1, PowerLaw DEF Raises
    <2> QED BY <2>1, <2>2
  <1>5. Len(digits') = 0 /\ digits' \in Seq(Digits) /\ Enough(x) - Len(digits') = Enough(x)
    BY <1>1, <1>3
  <1>6. num' < Power(BaseOf(x), Enough(x) - Len(digits'))
    BY <1>2, <1>3, <1>4, <1>5, PrintfAssumption
  <1> QED BY <1>1, <1>2, <1>3, <1>5, <1>6 DEF RoomInv

LEMMA OthersKeepRoom ==
  ASSUME RoomInv, [PrintfNext]_printfVars, ~Digit, ~Number
  PROVE  RoomInv'
  <1>1. CASE UNCHANGED printfVars
    BY <1>1 DEF printfVars, RoomInv
  <1>2. CASE doing' # "digits"
    BY <1>2 DEF RoomInv
  <1>3. CASE PrintfNext
    <2>1. \/ Literal \/ Char \/ String \/ SpecialNumber \/ DigitsDone
          \/ Unknown \/ PutDone \/ End \/ Putchar
      BY <1>3 DEF PrintfNext, Silent
    <2>2. doing' # "digits"
      BY <2>1 DEF Literal, Char, String, SpecialNumber, DigitsDone, Unknown, PutDone, End,
                  Putchar, PutIfRoom, Put, GiveUp
    <2> QED BY <2>2, <1>2
  <1> QED BY <1>1, <1>3

-----------------------------------------------------------------------------
(* The terminal without interrupts                                         *)

Cells == 0 .. VideoCells - 1
Letters == Chars \cup {Newline}
Filled == {"advance", "wrapcolumn", "wraprow", "zerorow", "zerocolumn", "test"}
States == Filled \cup {"idle", "row", "column", "cell", "cursor", "addcolumn", "indexlow",
                       "datalow", "indexhigh", "datahigh"}

(* Shapes, no handler anywhere, and a character in hand.                   *)
Alone ==
  /\ terminal_buffer \in [Cells -> Chars \cup {Blank}]
  /\ terminal_row \in 0 .. Height /\ terminal_column \in 0 .. Width - 1
  /\ pc \in [Contexts -> States] /\ pc["irq"] = "idle" /\ left = <<>>
  /\ ch \in [Contexts -> Letters \cup {Blank}] /\ filled \in BOOLEAN
  /\ r \in [Contexts -> Nat] /\ c \in [Contexts -> Nat]
  /\ pc["main"] # "idle" => ch["main"] \in Letters

(* Where the character goes, at each step: the copies are those of the     *)
(* variables, and a row past the last one goes back to the top.            *)
Placed ==
  LET step == pc["main"] IN
  /\ terminal_row = Height <=> step = "zerorow"
  /\ step \in {"wraprow", "zerorow", "zerocolumn"} => terminal_column = 0
  /\ step = "zerocolumn" => terminal_row = 0
  /\ step \in {"column", "cell", "advance", "wrapcolumn", "wraprow"}
       => r["main"] = terminal_row
  /\ step \in {"cell", "advance", "wrapcolumn"} => c["main"] = terminal_column
  /\ step = "advance" => c["main"] < Width - 1
  /\ step \in {"wrapcolumn", "wraprow"} => c["main"] = Width - 1
  /\ step = "test" => ch["main"] = Newline
  /\ step \in Filled => filled

ScreenInv == Alone /\ Placed

USE DEF Contexts, Filled, States

LEMMA ScreenInit == Init => ScreenInv
<1> SUFFICES ASSUME Init PROVE ScreenInv
  OBVIOUS
<1>1. /\ Width \in Nat /\ Width > 1 /\ Height \in Nat \ {0} /\ 0 \in Nat
      /\ terminal_row = 0 /\ terminal_column = 0
  BY TerminalAssumption DEF TerminalAssumption, Init
<1>2. Alone
  <2>1. terminal_buffer \in [Cells -> Chars \cup {Blank}]
    BY DEF Init, Cells
  <2>2. /\ terminal_row \in 0 .. Height /\ terminal_column \in 0 .. Width - 1
    BY <1>1
  <2>4. filled \in BOOLEAN /\ left = <<>>
    BY DEF Init
  <2>3. /\ pc \in [Contexts -> States] /\ pc["irq"] = "idle" /\ pc["main"] = "idle"
        /\ ch \in [Contexts -> Letters \cup {Blank}]
        /\ r \in [Contexts -> Nat] /\ c \in [Contexts -> Nat]
    BY DEF Init
  <2> QED BY <2>1, <2>2, <2>3, <2>4 DEF Alone
<1>3. Placed
  BY <1>1 DEF Init, Placed
<1> QED BY <1>2, <1>3 DEF ScreenInv

LEMMA PrintCharKeeps ==
  ASSUME ScreenInv, NEW x \in Letters, PrintChar(x)
  PROVE  ScreenInv'
BY DEF ScreenInv, Alone, Placed, PrintChar, shared

LEMMA InternalKeeps ==
  ASSUME ScreenInv, Internal("main")
  PROVE  ScreenInv'
<1> USE DEF Step, shared, registers, bounds
<1>0. /\ Width \in Nat /\ Width > 1 /\ Height \in Nat \ {0} /\ Alone /\ Placed
  BY TerminalAssumption DEF TerminalAssumption, ScreenInv
<1>1. CASE LoadRow("main")
  BY <1>0, <1>1 DEF LoadRow, ScreenInv, Alone, Placed
<1>2. CASE LoadColumn("main")
  BY <1>0, <1>2 DEF LoadColumn, ScreenInv, Alone, Placed
<1>3. CASE StoreCell("main")
  <2>1. terminal_buffer' \in [Cells -> Chars \cup {Blank}]
    <3>1. Glyph("main") \in Chars \cup {Blank}
      BY <1>0, <1>3 DEF StoreCell, Glyph, Letters, Alone
    <3> QED BY <1>0, <1>3, <3>1 DEF StoreCell, Alone
  <2>2. /\ UNCHANGED <<terminal_row, terminal_column, ch, r, c, left>>
        /\ pc["main"] = "cell" /\ filled' = TRUE
        /\ pc' = [pc EXCEPT !["main"] = IF c["main"] = Width - 1 THEN "wrapcolumn" ELSE "advance"]
    BY <1>3 DEF StoreCell
  <2>3. Alone'
    BY <1>0, <2>1, <2>2 DEF Alone
  <2>4. pc'["main"] = IF c["main"] = Width - 1 THEN "wrapcolumn" ELSE "advance"
    BY <1>0, <2>2 DEF Alone
  <2>5. c["main"] = terminal_column /\ terminal_column \in 0 .. Width - 1
    BY <1>0, <2>2 DEF Alone, Placed
  <2>6. Placed'
    <3>1. CASE c["main"] = Width - 1
      BY <1>0, <2>2, <2>4, <2>5, <3>1 DEF Placed
    <3>2. CASE c["main"] # Width - 1
      BY <1>0, <2>2, <2>4, <2>5, <3>2 DEF Placed
    <3> QED BY <3>1, <3>2
  <2> QED BY <2>3, <2>6 DEF ScreenInv
<1>4. CASE Advance("main")
  <2>1. /\ UNCHANGED <<terminal_row, terminal_buffer, ch, r, c, left>> /\ filled' = TRUE
        /\ pc["main"] = "advance" /\ terminal_column' = c["main"] + 1
        /\ r["main"] = terminal_row /\ c["main"] = terminal_column /\ c["main"] < Width - 1
        /\ terminal_row # Height
    BY <1>0, <1>4 DEF Advance, Alone, Placed
  <2>2. pc' = [pc EXCEPT !["main"] = IF ch["main"] = Newline THEN "test" ELSE "cursor"]
    BY <1>4, <2>1 DEF Advance, AfterRow, Return
  <2>3. Alone'
    BY <1>0, <2>1, <2>2 DEF Alone
  <2>4. pc'["main"] = IF ch["main"] = Newline THEN "test" ELSE "cursor"
    BY <1>0, <2>2 DEF Alone
  <2>5. Placed'
    BY <2>1, <2>4 DEF Placed
  <2> QED BY <2>3, <2>5 DEF ScreenInv
<1>5. CASE WrapColumn("main")
  <2>1. /\ UNCHANGED <<terminal_row, terminal_buffer, ch, r, c, left>>
        /\ pc["main"] = "wrapcolumn" /\ terminal_column' = 0 /\ filled' = TRUE
        /\ pc' = [pc EXCEPT !["main"] = "wraprow"]
    BY <1>0, <1>5 DEF WrapColumn, Alone, Placed
  <2>2. Alone'
    BY <1>0, <2>1 DEF Alone
  <2>3. pc'["main"] = "wraprow"
    BY <1>0, <2>1 DEF Alone
  <2>4. Placed'
    BY <1>0, <2>1, <2>3 DEF Placed
  <2> QED BY <2>2, <2>4 DEF ScreenInv
<1>6. CASE WrapRow("main")
  <2>0. /\ UNCHANGED <<terminal_column, terminal_buffer, ch, r, c, left>>
        /\ pc["main"] = "wraprow" /\ terminal_row' = r["main"] + 1 /\ r["main"] = terminal_row
        /\ pc' = [pc EXCEPT !["main"] = AfterRow("main", r["main"] + 1)]
        /\ terminal_row # Height /\ terminal_column = 0 /\ filled' = TRUE
    BY <1>0, <1>6 DEF WrapRow, Placed
  <2>1. /\ UNCHANGED <<terminal_column, terminal_buffer, ch, r, c, left>>
        /\ pc["main"] = "wraprow" /\ terminal_row' = terminal_row + 1 /\ filled' = TRUE
        /\ terminal_row < Height /\ terminal_row \in Nat /\ terminal_column = 0
        /\ pc' = [pc EXCEPT !["main"] = IF terminal_row + 1 = Height THEN "zerorow"
                                        ELSE IF ch["main"] = Newline THEN "test" ELSE "cursor"]
    BY <1>0, <2>0 DEF AfterRow, Return, Alone
  <2>2. Alone'
    BY <1>0, <2>1 DEF Alone
  <2>3. pc'["main"] = IF terminal_row + 1 = Height THEN "zerorow"
                      ELSE IF ch["main"] = Newline THEN "test" ELSE "cursor"
    BY <1>0, <2>1 DEF Alone
  <2>4. Placed'
    BY <1>0, <2>1, <2>3 DEF Placed
  <2> QED BY <2>2, <2>4 DEF ScreenInv
<1>7. CASE ZeroRow("main")
  <2>1. /\ UNCHANGED <<terminal_column, terminal_buffer, ch, r, c, left>>
        /\ pc["main"] = "zerorow" /\ terminal_row' = 0 /\ filled' = TRUE /\ terminal_column = 0
        /\ pc' = [pc EXCEPT !["main"] = "zerocolumn"]
    BY <1>0, <1>7 DEF ZeroRow, Alone, Placed
  <2>2. Alone'
    BY <1>0, <2>1 DEF Alone
  <2>3. pc'["main"] = "zerocolumn"
    BY <1>0, <2>1 DEF Alone
  <2>4. Placed'
    BY <1>0, <2>1, <2>3 DEF Placed
  <2> QED BY <2>2, <2>4 DEF ScreenInv
<1>8. CASE ZeroColumn("main")
  <2>1. /\ UNCHANGED <<terminal_row, terminal_buffer, ch, r, c, left>>
        /\ pc["main"] = "zerocolumn" /\ terminal_column' = 0 /\ filled' = TRUE
        /\ pc' = [pc EXCEPT !["main"] = IF ch["main"] = Newline THEN "test" ELSE "cursor"]
    BY <1>0, <1>8 DEF ZeroColumn, Return, Alone, Placed
  <2>2. Alone'
    BY <1>0, <2>1 DEF Alone
  <2>3. pc'["main"] = IF ch["main"] = Newline THEN "test" ELSE "cursor"
    BY <1>0, <2>1 DEF Alone
  <2>4. Placed'
    BY <1>0, <2>1, <2>3 DEF Placed
  <2> QED BY <2>2, <2>4 DEF ScreenInv
<1>9. CASE TestColumn("main")
  BY <1>0, <1>9 DEF TestColumn, ScreenInv, Alone, Placed
<1>10. CASE LoadCursor("main") \/ AddColumn("main") \/ UpdateCursor("main")
  <2>1. /\ UNCHANGED <<terminal_row, terminal_column, terminal_buffer, ch, r, c, left, filled>>
        /\ \E x \in {"cursor", "addcolumn", "indexlow", "datalow", "indexhigh", "datahigh"},
              y \in {"addcolumn", "indexlow", "datalow", "indexhigh", "datahigh", "idle"} :
             pc["main"] = x /\ pc' = [pc EXCEPT !["main"] = y]
    BY <1>0, <1>10
    DEF LoadCursor, AddColumn, UpdateCursor, SelectRegister, WriteRegister, Alone
  <2>2. PICK y \in {"addcolumn", "indexlow", "datalow", "indexhigh", "datahigh", "idle"} :
          /\ pc' = [pc EXCEPT !["main"] = y]
          /\ pc["main"] \in {"cursor", "addcolumn", "indexlow", "datalow", "indexhigh",
                             "datahigh"}
    BY <2>1
  <2>3. Alone'
    BY <1>0, <2>1, <2>2 DEF Alone
  <2>4. pc'["main"] = y
    BY <1>0, <2>2 DEF Alone
  <2>5. Placed'
    BY <1>0, <2>1, <2>2, <2>4 DEF Placed
  <2> QED BY <2>3, <2>5 DEF ScreenInv
<1> QED
  BY <1>1, <1>2, <1>3, <1>4, <1>5, <1>6, <1>7, <1>8, <1>9, <1>10 DEF Internal

-----------------------------------------------------------------------------
(* Each step is one of the abstract screen, or none.                       *)

LEMMA ModSmall ==
  ASSUME NEW n \in Nat, NEW x \in Nat, x < n
  PROVE  x % n = x
OBVIOUS

LEMMA ModMultiple ==
  ASSUME NEW n \in Nat \ {0}, NEW k \in Nat
  PROVE  (k * n) % n = 0 /\ n % n = 0
OBVIOUS

LEMMA CellInside ==
  ASSUME NEW w \in Nat \ {0}, NEW h \in Nat \ {0}, NEW row \in Nat, NEW column \in Nat,
         row < h, column < w
  PROVE  row * w + column < w * h /\ row * w + column \in Nat
<1>1. (row + 1) * w <= h * w
  OBVIOUS
<1>2. (row + 1) * w = row * w + w /\ row * w \in Nat
  OBVIOUS
<1> QED BY <1>1, <1>2

LEMMA RowEnds ==
  ASSUME NEW w \in Nat \ {0}, NEW row \in Nat
  PROVE  row * w + (w - 1) + 1 = (row + 1) * w
OBVIOUS

(* The refinement mapping, by name.                                        *)
Visible == [k \in 0 .. Width * Height - 1 |-> terminal_buffer[k]]
Position == CASE Advancing -> (r["main"] * Width + c["main"] + 1) % (Width * Height)
              [] pc["main"] \in {"zerorow", "zerocolumn"} -> 0
              [] OTHER -> terminal_row * Width + terminal_column
Line == IF ~Filling THEN "text" ELSE IF filled THEN "filled" ELSE "asked"

LEMMA StoreMaps ==
  ASSUME ScreenInv, StoreCell("main")
  PROVE  /\ Visible' = [Visible EXCEPT ![Position] = Glyph("main")]
         /\ Position' = (Position + 1) % (Width * Height)
<1>1. /\ Width \in Nat \ {0} /\ Height \in Nat \ {0} /\ VideoCells \in Nat
      /\ Width * Height < VideoCells /\ Alone /\ Placed
  BY TerminalAssumption DEF TerminalAssumption, ScreenInv
<1>2. /\ pc["main"] = "cell" /\ pc'["main"] \in {"advance", "wrapcolumn"} /\ UNCHANGED <<r, c>>
      /\ terminal_buffer' =
           [terminal_buffer EXCEPT ![r["main"] * Width + c["main"]] = Glyph("main")]
  BY <1>1 DEF StoreCell, Step, registers, Alone
<1>3. /\ terminal_row \in Nat /\ terminal_row < Height
      /\ terminal_column \in Nat /\ terminal_column < Width
      /\ r["main"] = terminal_row /\ c["main"] = terminal_column
  BY <1>1, <1>2 DEF Alone, Placed
<1> DEFINE position == terminal_row * Width + terminal_column
           size == Width * Height
<1>4. position < size /\ position \in Nat /\ size \in Nat
  BY <1>1, <1>3, CellInside
<1>5. Position = position
  BY <1>2 DEF Position, Advancing
<1>6. Position' = (position + 1) % size
  BY <1>2, <1>3 DEF Position, Advancing
<1>7. Visible' = [Visible EXCEPT ![position] = Glyph("main")]
  <2>1. /\ terminal_buffer \in [0 .. VideoCells - 1 -> Chars \cup {Blank}]
        /\ terminal_buffer' = [terminal_buffer EXCEPT ![position] = Glyph("main")]
        /\ Visible = [k \in 0 .. size - 1 |-> terminal_buffer[k]]
        /\ Visible' = [k \in 0 .. size - 1 |-> terminal_buffer'[k]]
        /\ size < VideoCells
    BY <1>1, <1>2, <1>3 DEF Alone, Cells, Visible
  <2>2. position \in 0 .. size - 1 /\ size <= VideoCells
    BY <1>1, <1>4, <2>1
  <2> HIDE DEF position, size
  <2>3. /\ \A k \in 0 .. size - 1 : k \in 0 .. VideoCells - 1
        /\ Visible' = [k \in 0 .. size - 1 |-> IF k = position THEN Glyph("main")
                                               ELSE terminal_buffer[k]]
    BY <1>1, <1>4, <2>1, <2>2
  <2>4. [Visible EXCEPT ![position] = Glyph("main")]
          = [k \in 0 .. size - 1 |-> IF k = position THEN Glyph("main") ELSE terminal_buffer[k]]
    BY <2>1
  <2> QED BY <2>3, <2>4
<1> QED BY <1>5, <1>6, <1>7

LEMMA OthersStay ==
  ASSUME ScreenInv, Internal("main"), ~StoreCell("main")
  PROVE  Visible' = Visible /\ Position' = Position
<1> USE DEF Step, shared, registers, bounds
<1>0. /\ Width \in Nat \ {0} /\ Width - 1 \in Nat /\ Height \in Nat \ {0} /\ Alone /\ Placed
      /\ Width * Height \in Nat \ {0}
  BY TerminalAssumption DEF TerminalAssumption, ScreenInv
<1>1. Visible' = Visible
  <2>1. UNCHANGED terminal_buffer
    BY DEF Internal, LoadRow, LoadColumn, Advance, WrapColumn, WrapRow, ZeroRow, ZeroColumn,
           TestColumn, LoadCursor, AddColumn, UpdateCursor, SelectRegister, WriteRegister
  <2> QED BY <2>1 DEF Visible
<1> DEFINE plain == {"idle", "row", "column", "cell", "test", "cursor", "addcolumn", "indexlow",
                     "datalow", "indexhigh", "datahigh"}
<1>2. CASE \/ LoadRow("main") \/ LoadColumn("main") \/ TestColumn("main")
           \/ LoadCursor("main") \/ AddColumn("main") \/ UpdateCursor("main")
  <2>1. /\ UNCHANGED <<terminal_row, terminal_column>> /\ pc["main"] \in plain
        /\ pc'["main"] \in plain
    BY <1>0, <1>2 DEF LoadRow, LoadColumn, TestColumn, LoadCursor, AddColumn, UpdateCursor,
       SelectRegister, WriteRegister, Alone
  <2> QED BY <1>1, <2>1 DEF Position, Advancing
<1>3. CASE Advance("main")
  <2>1. /\ pc["main"] = "advance" /\ pc'["main"] \in {"test", "cursor"}
        /\ r["main"] = terminal_row /\ c["main"] = terminal_column
        /\ terminal_row' = terminal_row /\ terminal_column' = terminal_column + 1
        /\ terminal_row \in Nat /\ terminal_row < Height
        /\ terminal_column + 1 \in Nat /\ terminal_column + 1 < Width /\ terminal_column \in Nat
    BY <1>0, <1>3 DEF Advance, AfterRow, Return, Alone, Placed
  <2> DEFINE next == terminal_row * Width + (terminal_column + 1)
             size == Width * Height
  <2>2. next < size /\ next \in Nat /\ size \in Nat
    BY <1>0, <2>1, CellInside
  <2>3. terminal_row * Width + terminal_column + 1 = next
    BY <1>0, <2>1
  <2>4. Position = next % size /\ Position' = next
    BY <2>1, <2>3 DEF Position, Advancing
  <2>5. next % size = next
    <3> HIDE DEF next, size
    <3> QED BY <2>2, ModSmall
  <2> QED BY <1>1, <2>4, <2>5
<1>4. CASE WrapColumn("main")
  <2>1. /\ pc["main"] = "wrapcolumn" /\ pc'["main"] = "wraprow" /\ UNCHANGED <<r, c>>
    BY <1>0, <1>4 DEF WrapColumn, Alone
  <2> QED BY <1>1, <2>1 DEF Position, Advancing
<1>5. CASE WrapRow("main")
  <2>1. /\ pc["main"] = "wraprow" /\ r["main"] = terminal_row /\ c["main"] = Width - 1
        /\ terminal_row' = terminal_row + 1 /\ terminal_column' = 0
        /\ pc'["main"] = AfterRow("main", terminal_row + 1)
        /\ terminal_row # Height
    BY <1>0, <1>5 DEF WrapRow, Alone, Placed
  <2>2. terminal_row \in Nat /\ terminal_row < Height
    BY <1>0, <2>1 DEF Alone
  <2>3. Position = ((terminal_row + 1) * Width) % (Width * Height)
    BY <1>0, <2>1, <2>2, RowEnds DEF Position, Advancing
  <2>4. CASE terminal_row + 1 = Height
    <3>1. Position' = 0
      BY <2>1, <2>4 DEF Position, Advancing, AfterRow
    <3>2. Position = (Width * Height) % (Width * Height)
      BY <1>0, <2>3, <2>4
    <3>3. Position = 0
      BY <1>0, <3>2, ModMultiple
    <3> QED BY <1>1, <3>1, <3>3
  <2>5. CASE terminal_row + 1 # Height
    <3> DEFINE next == (terminal_row + 1) * Width
               size == Width * Height
    <3>1. (terminal_row + 1) * Width + 0 < Width * Height /\ next \in Nat
      BY <1>0, <2>2, <2>5, CellInside
    <3>2. next < size /\ size \in Nat /\ next + 0 = next
      BY <1>0, <3>1
    <3>3. Position' = next + 0
      BY <2>1, <2>5 DEF Position, Advancing, AfterRow, Return
    <3>4. next % size = next
      <4> HIDE DEF next, size
      <4> QED BY <3>1, <3>2, ModSmall
    <3> QED BY <1>1, <2>3, <3>2, <3>3, <3>4
  <2> QED BY <2>4, <2>5
<1>6. CASE ZeroRow("main")
  <2>1. pc["main"] = "zerorow" /\ pc'["main"] = "zerocolumn"
    BY <1>0, <1>6 DEF ZeroRow, Alone
  <2> QED BY <1>1, <2>1 DEF Position, Advancing
<1>7. CASE ZeroColumn("main")
  <2>1. /\ pc["main"] = "zerocolumn" /\ pc'["main"] \in {"test", "cursor"}
        /\ terminal_row' = 0 /\ terminal_column' = 0
    BY <1>0, <1>7 DEF ZeroColumn, Return, Alone, Placed
  <2>2. Position = 0 /\ Position' = 0 * Width + 0
    BY <2>1 DEF Position, Advancing
  <2> QED BY <1>0, <1>1, <2>2
<1> QED
  BY <1>2, <1>3, <1>4, <1>5, <1>6, <1>7 DEF Internal

LEMMA LineMaps ==
  ASSUME ScreenInv, Internal("main")
  PROVE  \/ /\ StoreCell("main") /\ Line = "text" /\ Line' = "text" /\ Glyph("main") \in Chars
         \/ StoreCell("main") /\ Line # "text" /\ Line' = "filled" /\ Glyph("main") = Blank
         \/ ~StoreCell("main") /\ Line' = Line
         \/ /\ ~StoreCell("main") /\ Line = "filled" /\ Line' = "text"
            /\ Position = terminal_row * Width + 0 /\ terminal_row \in Nat
<1> USE DEF Step, shared, registers, bounds
<1>0. Alone /\ Placed /\ Height \in Nat
  BY TerminalAssumption DEF TerminalAssumption, ScreenInv
<1>1. /\ UNCHANGED ch /\ pc["main"] # "idle" /\ pc' = [pc EXCEPT !["main"] = pc'["main"]]
      /\ filled' = (filled \/ pc["main"] = "cell")
  BY <1>0 DEF Alone, Internal, LoadRow, LoadColumn, StoreCell, Advance, WrapColumn, WrapRow,
              ZeroRow, ZeroColumn, TestColumn, LoadCursor, AddColumn, UpdateCursor,
              SelectRegister, WriteRegister
<1>2. CASE ch["main"] # Newline
  <2>1. Line = "text" /\ Line' = "text"
    BY <1>1, <1>2 DEF Line, Filling
  <2>2. Glyph("main") \in Chars
    BY <1>0, <1>1, <1>2 DEF Alone, Letters, Glyph
  <2> QED BY <2>1, <2>2
<1>3. CASE ch["main"] = Newline
  <2>1. CASE StoreCell("main")
    <3>1. /\ pc["main"] = "cell" /\ pc'["main"] \in {"advance", "wrapcolumn"} /\ filled' = TRUE
      BY <1>0, <2>1 DEF StoreCell, Alone
    <3> QED BY <1>1, <1>3, <2>1, <3>1 DEF Line, Filling, Glyph
  <2>2. CASE TestColumn("main") /\ terminal_column = 0
    <3>1. /\ pc["main"] = "test" /\ pc'["main"] = "cursor" /\ filled = TRUE
          /\ terminal_row \in Nat
      BY <1>0, <2>2 DEF TestColumn, Alone, Placed
    <3>2. Line = "filled" /\ Line' = "text" /\ ~StoreCell("main")
      BY <1>1, <1>3, <3>1 DEF Line, Filling, StoreCell
    <3>3. Position = terminal_row * Width + 0
      BY <2>2, <3>1 DEF Position, Advancing
    <3> QED BY <3>1, <3>2, <3>3
  <2>3. CASE ~StoreCell("main") /\ ~(TestColumn("main") /\ terminal_column = 0)
    <3> DEFINE filling == {"row", "column", "cell", "advance", "wrapcolumn", "wraprow",
                           "zerorow", "zerocolumn", "test"}
    <3>1. (pc["main"] \in filling) = (pc'["main"] \in filling)
      BY <1>0, <1>3, <2>3 DEF Alone, Internal, LoadRow, LoadColumn, Advance, WrapColumn, WrapRow,
         ZeroRow, ZeroColumn, TestColumn, LoadCursor, AddColumn, UpdateCursor, SelectRegister,
         WriteRegister, AfterRow, Return
    <3>2. pc["main"] # "cell"
      BY <2>3 DEF Internal, LoadRow, LoadColumn, Advance, WrapColumn, WrapRow,
         ZeroRow, ZeroColumn, TestColumn, LoadCursor, AddColumn, UpdateCursor, SelectRegister,
         WriteRegister
    <3>3. filled' = filled
      BY <1>0, <1>1, <3>2 DEF Alone
    <3>4. Line' = Line
      BY <1>1, <1>3, <3>1, <3>3 DEF Line, Filling
    <3> QED BY <2>3, <3>4
  <2> QED BY <2>1, <2>2, <2>3
<1> QED BY <1>2, <1>3

LEMMA InternalMaps ==
  ASSUME ScreenInv, Internal("main")
  PROVE  [S!Next]_(S!vars)
<1>1. CASE StoreCell("main") /\ Line = "text"
  <2>1. /\ Line' = "text" /\ Glyph("main") \in Chars
        /\ Visible' = [Visible EXCEPT ![Position] = Glyph("main")]
        /\ Position' = (Position + 1) % (Width * Height)
    BY <1>1, LineMaps, StoreMaps
  <2>2. PICK x \in Chars : x = Glyph("main")
    BY <2>1
  <2>3. S!Put(x)
    BY <1>1, <2>1, <2>2 DEF S!Put, S!Write, Visible, Position, Line
  <2> QED BY <2>3 DEF S!Next
<1>2. CASE StoreCell("main") /\ Line # "text"
  <2>1. /\ Line' = "filled" /\ Glyph("main") = Blank
        /\ Visible' = [Visible EXCEPT ![Position] = Glyph("main")]
        /\ Position' = (Position + 1) % (Width * Height)
    BY <1>2, LineMaps, StoreMaps
  <2>2. S!Fill
    BY <1>2, <2>1 DEF S!Fill, S!Write, Visible, Position, Line
  <2> QED BY <2>2 DEF S!Next
<1>3. CASE ~StoreCell("main") /\ Line' = Line
  <2>1. Visible' = Visible /\ Position' = Position
    BY <1>3, OthersStay
  <2> QED BY <1>3, <2>1 DEF S!vars, Visible, Position, Line
<1>4. CASE ~StoreCell("main") /\ Line' # Line
  <2>1. /\ Line = "filled" /\ Line' = "text" /\ Position = terminal_row * Width + 0
        /\ terminal_row \in Nat /\ Visible' = Visible /\ Position' = Position
    BY <1>4, LineMaps, OthersStay
  <2>2. Position % Width = 0
    <3>1. Width \in Nat \ {0}
      BY TerminalAssumption DEF TerminalAssumption
    <3>2. terminal_row * Width + 0 = terminal_row * Width
      BY <2>1, <3>1
    <3> QED BY <2>1, <3>1, <3>2, ModMultiple
  <2>3. S!EndNewline
    BY <2>1, <2>2 DEF S!EndNewline, Visible, Position, Line
  <2> QED BY <2>3 DEF S!Next
<1> QED BY <1>1, <1>2, <1>3, <1>4

LEMMA PrintCharMaps ==
  ASSUME ScreenInv, NEW x \in Letters, PrintChar(x)
  PROVE  [S!Next]_(S!vars)
<1>1. /\ pc["main"] = "idle" /\ pc'["main"] = "row" /\ ch'["main"] = x /\ filled' = FALSE
      /\ UNCHANGED <<terminal_row, terminal_column, terminal_buffer>>
  BY DEF PrintChar, shared, ScreenInv, Alone
<1>2. Visible' = Visible /\ Position' = Position
  BY <1>1 DEF Visible, Position, Advancing
<1>3. CASE x = Newline
  <2>1. Line = "text" /\ Line' = "asked"
    BY <1>1, <1>3 DEF Line, Filling
  <2>2. S!AskNewline
    BY <1>2, <2>1 DEF S!AskNewline, Visible, Position, Line
  <2> QED BY <2>2 DEF S!Next
<1>4. CASE x # Newline
  <2>1. Line' = Line
    BY <1>1, <1>4 DEF Line, Filling
  <2> QED BY <1>2, <2>1 DEF S!vars, Visible, Position, Line
<1> QED BY <1>3, <1>4

LEMMA TerminalSteps ==
  ASSUME ScreenInv, [ConsoleNext]_<<vars, printfVars, stringsVars>>
  PROVE  ScreenInv' /\ [S!Next]_(S!vars)
<1>1. CASE UNCHANGED vars
  <2>1. ScreenInv'
    BY <1>1 DEF vars, ScreenInv, Alone, Placed
  <2>2. UNCHANGED S!vars
    BY <1>1 DEF vars, S!vars, Advancing, Filling
  <2> QED BY <2>1, <2>2
<1>2. CASE PutcharStep
  BY <1>2, PrintCharKeeps, PrintCharMaps DEF PutcharStep, Letters
<1>3. CASE TerminalStep
  BY <1>3, InternalKeeps, InternalMaps DEF TerminalStep
<1> QED BY <1>1, <1>2, <1>3 DEF ConsoleNext, PrintfStep, StringStep

-----------------------------------------------------------------------------
(* printf: the text of every call.                                         *)

(* What the prover does not know of powers and can compute.                *)
LEMMA ValuesOfPowers ==
  /\ Power(10, 0) = 1 /\ Power(10, 1) = 10 /\ Power(10, 2) = 100 /\ Power(10, 3) = 1000
  /\ Power(10, 4) = 10000 /\ Power(10, 5) = 100000 /\ Power(10, 6) = 1000000
  /\ Power(10, 7) = 10000000 /\ Power(10, 8) = 100000000 /\ Power(10, 9) = 1000000000
  /\ Power(10, 10) = 10000000000
  /\ Power(16, 0) = 1 /\ Power(16, 1) = 16 /\ Power(16, 2) = 256 /\ Power(16, 3) = 4096
  /\ Power(16, 4) = 65536 /\ Power(16, 5) = 1048576 /\ Power(16, 6) = 16777216
  /\ Power(16, 7) = 268435456 /\ Power(16, 8) = 4294967296 /\ Power(16, 9) = 68719476736
  BY SMT DEF Power

LEMMA UpTo9 == ASSUME NEW k \in 0 .. 9
               PROVE  \/ k = 0 \/ k = 1 \/ k = 2 \/ k = 3 \/ k = 4
                      \/ k = 5 \/ k = 6 \/ k = 7 \/ k = 8 \/ k = 9
OBVIOUS

LEMMA PowersGrow ==
  ASSUME NEW b \in {10, 16}, NEW k \in 0 .. 9, NEW j \in 0 .. 9, j <= k
  PROVE  Power(b, j) \in Nat \ {0} /\ Power(b, j) <= Power(b, k)
  <1>1. \/ k = 0 \/ k = 1 \/ k = 2 \/ k = 3 \/ k = 4
        \/ k = 5 \/ k = 6 \/ k = 7 \/ k = 8 \/ k = 9
    BY UpTo9
  <1>2. \/ j = 0 \/ j = 1 \/ j = 2 \/ j = 3 \/ j = 4
        \/ j = 5 \/ j = 6 \/ j = 7 \/ j = 8 \/ j = 9
    BY UpTo9
  <1>3. CASE b = 10
    BY <1>1, <1>2, <1>3, ValuesOfPowers
  <1>4. CASE b = 16
    BY <1>1, <1>2, <1>4, ValuesOfPowers
  <1> QED BY <1>3, <1>4

(* To divide by the base once more is to divide by its next power.         *)
LEMMA DivideAgain ==
  ASSUME NEW b \in {10, 16}, NEW k \in 0 .. 9, NEW n \in Nat, b = 16 => k # 9
  PROVE  (n \div Power(b, k)) \div b = n \div Power(b, k + 1)
  <1>1. \/ k = 0 \/ k = 1 \/ k = 2 \/ k = 3 \/ k = 4
        \/ k = 5 \/ k = 6 \/ k = 7 \/ k = 8 \/ k = 9
    BY UpTo9
  <1>3. CASE b = 10
    BY <1>1, <1>3, ValuesOfPowers
  <1>4. CASE b = 16
    BY <1>1, <1>4, ValuesOfPowers
  <1> QED BY <1>3, <1>4

LEMMA NothingLeft ==
  ASSUME NEW m \in Nat \ {0}, NEW n \in Nat
  PROVE  n \div m = 0 <=> n < m
OBVIOUS

(* The length of a numeral is the number of digits between two powers.     *)
LEMMA NumeralWithDigits ==
  ASSUME NEW b \in {10, 16}, NEW n \in Nat \ {0}, NEW len \in 1 .. Most(b), b = 16 => len <= 8,
         Power(b, len - 1) <= n, n < Power(b, len)
  PROVE  Numeral(n, b) =
           [k \in 1 .. len |-> DigitChars[((n \div Power(b, len - k)) % b) + 1]]
  <1> DEFINE P(k) == Power(b, k - 1) <= n /\ n < Power(b, k)
  <1>1. len \in 1 .. 10 /\ P(len)
    BY DEF Most
  <1>2. ASSUME NEW k \in 1 .. 10, P(k) PROVE k = len
    <2>1. CASE k < len
      <3>1. k \in 0 .. 9 /\ len - 1 \in 0 .. 9 /\ k <= len - 1
        BY <2>1, <1>1
      <3>2. Power(b, k) <= Power(b, len - 1) /\ Power(b, k) \in Nat /\ Power(b, len - 1) \in Nat
        BY <3>1, PowersGrow
      <3> QED BY <3>2, <1>2
    <2>2. CASE len < k
      <3>1. len \in 0 .. 9 /\ k - 1 \in 0 .. 9 /\ len <= k - 1
        BY <2>2, <1>1
      <3>2. Power(b, len) <= Power(b, k - 1) /\ Power(b, len) \in Nat /\ Power(b, k - 1) \in Nat
        BY <3>1, PowersGrow
      <3> QED BY <3>2, <1>2
    <2> QED BY <2>1, <2>2
  <1>3. (CHOOSE k \in 1 .. 10 : P(k)) = len
    BY <1>1, <1>2
  <1>4. Numeral(n, b) = LET l == CHOOSE k \in 1 .. 10 : P(k)
                        IN [k \in 1 .. l |-> DigitChars[((n \div Power(b, l - k)) % b) + 1]]
    BY Zenon DEF Numeral
  <1> QED BY <1>3, <1>4, Zenon
-----------------------------------------------------------------------------
(* printf: what has been put, what is in hand and what the rest of the     *)
(* call should print make up the text of the call, at every step.          *)

(* The call, or what is left of it, is known to be rendered by its text.   *)
Remains(q) == format = q.format /\ args = q.args /\ (request.tested => q.tested)

(* A text that can be counted, or is tested piece by piece.                *)
Countable == request.tested \/ Len(request.text) <= CountMax

(* The text of the conversion whose digits are extracted.                  *)
InHand(value) == IF conv = "x" THEN <<"0", "x">> \o Numeral(value, 16)
                 ELSE IF negative THEN <<"-">> \o Numeral(value, 10)
                 ELSE Numeral(value, 10)

(* The digits are those of value, the lowest one first, and num is what is *)
(* left of it.                                                             *)
DigitsOf(value) ==
  /\ num = value \div Power(Base, Len(digits))
  /\ \A k \in 1 .. Len(digits) :
       digits[k] = DigitChars[((value \div Power(Base, k - 1)) % Base) + 1]
  /\ Len(digits) > 0 => value \div Power(Base, Len(digits) - 1) # 0

ScanInv ==
  doing = "scan" =>
    /\ \E q \in Requests : Remains(q) /\ request.text = out \o q.text
    /\ Countable => written = Len(out) /\ written <= CountMax

PutInv ==
  doing = "put" =>
    /\ todo \in Seq(Character)
    /\ \E q \in Requests : Remains(q) /\ request.text = out \o (todo \o q.text)
    /\ Countable => written + gain = Len(out) + Len(todo) /\ written + gain <= CountMax
    /\ Countable => written \in 0 .. CountMax

DigitsInv ==
  doing = "digits" =>
    /\ \E q \in Requests, value \in 1 .. WordValues :
         /\ Remains(q) /\ request.text = out \o (InHand(value) \o q.text)
         /\ DigitsOf(value)
    /\ request.tested => conv # "x"
    /\ Countable => written = Len(out) /\ written <= CountMax

ReturnInv ==
  doing = "returned" /\ request.tested =>
    /\ written \in 0 .. CountMax
    /\ Len(request.text) > CountMax
         => count = -1 /\ Len(out) = written /\ out = SubSeq(request.text, 1, written)

PrintInv ==
  /\ doing # "returned" => /\ request \in Requests /\ out \in Seq(Character)
                           /\ doing \in {"scan", "put", "digits"}
  /\ ScanInv /\ PutInv /\ DigitsInv
  /\ Renders /\ ReturnInv

LEMMA FewDigits ==
  ASSUME NEW x
  PROVE  Enough(x) \in 0 .. 10 /\ (x = "x" => Enough(x) <= 8)
BY PrintfAssumption DEF Enough

LEMMA DigitIsNext ==
  ASSUME RoomInv, NEW value \in Nat, DigitsOf(value), Digit
  PROVE  DigitsOf(value)'
  <1> DEFINE d == Len(digits)
  <1>1. /\ doing = "digits" /\ num # 0 /\ num \in Nat /\ digits \in Seq(Digits) /\ d \in Nat
        /\ digits' = Append(digits, DigitChars[(num % Base) + 1])
        /\ num' = num \div Base /\ conv' = conv /\ UNCHANGED <<doing, negative>>
    BY DEF Digit, RoomInv
  <1>2. /\ Base = BaseOf(conv) /\ Base' = Base /\ Base \in {10, 16}
        /\ Enough(conv) \in Nat
    BY <1>1, FewDigits DEF Base, BaseOf
  <1>3. d < Enough(conv)
    <2>1. d <= Enough(conv) /\ num < Power(Base, Enough(conv) - d)
      BY <1>1, <1>2 DEF RoomInv
    <2>2. SUFFICES ASSUME d = Enough(conv) PROVE FALSE
      BY <1>1, <1>2, <2>1
    <2>3. Enough(conv) - d = 0
      BY <1>2, <2>2
    <2>4. Power(Base, 0) = 1
      BY <1>2, PowersGrow, ValuesOfPowers
    <2> QED BY <1>1, <2>1, <2>3, <2>4
  <1>4. d \in 0 .. 9 /\ (Base = 16 => d # 9)
    <2>1. d \in Nat
      BY <1>1
    <2>2. Enough(conv) \in 0 .. 10 /\ (conv = "x" => Enough(conv) <= 8)
      BY FewDigits
    <2>3. (conv = "x" /\ Base = 16) \/ (conv # "x" /\ Base = 10)
      BY DEF Base
    <2> HIDE DEF d
    <2> QED BY <2>1, <1>3, <2>2, <2>3
  <1>5. Len(digits') = d + 1 /\ digits'[d + 1] = DigitChars[(num % Base) + 1]
        /\ \A k \in 1 .. d : digits'[k] = digits[k]
    <2>1. DigitChars[(num % Base) + 1] \in Digits
      BY <1>1, <1>2, Quotient DEF Digits
    <2> QED BY <1>1, <2>1, AppendProperties
  <1>6. num = value \div Power(Base, d)
    BY DEF DigitsOf
  <1>7. num' = value \div Power(Base, d + 1)
    BY <1>1, <1>2, <1>4, <1>6, DivideAgain
  <1>8. ASSUME NEW k \in 1 .. d + 1
        PROVE  digits'[k] = DigitChars[((value \div Power(Base, k - 1)) % Base) + 1]
    <2>1. CASE k = d + 1
      <3>1. k - 1 = d
        BY <2>1, <1>1
      <3> QED BY <2>1, <3>1, <1>5, <1>6
    <2>2. CASE k # d + 1
      <3>1. k \in 1 .. d
        BY <2>2, <1>1
      <3> QED BY <3>1, <1>5 DEF DigitsOf
    <2> QED BY <2>1, <2>2
  <1>9. value \div Power(Base, d + 1 - 1) # 0
    <2>1. d + 1 - 1 = d
      BY <1>1
    <2> QED BY <2>1, <1>1, <1>6
  <1> QED BY <1>1, <1>2, <1>5, <1>7, <1>8, <1>9 DEF DigitsOf

LEMMA DigitsAreNumeral ==
  ASSUME RoomInv, doing = "digits", num = 0, NEW value \in 1 .. WordValues, DigitsOf(value)
  PROVE  [k \in 1 .. Len(digits) |-> digits[Len(digits) + 1 - k]] = Numeral(value, Base)
  <1> DEFINE d == Len(digits)
  <1>1. d \in Nat /\ value \in Nat \ {0}
    BY PrintfAssumption DEF RoomInv
  <1>2. /\ Base = BaseOf(conv) /\ Base \in {10, 16}
        /\ Enough(conv) \in Nat
    BY FewDigits DEF Base, BaseOf
  <1>3. d <= Enough(conv)
    BY DEF RoomInv
  <1>4. value \div Power(Base, d) = 0
    BY DEF DigitsOf
  <1>5. d # 0
    <2>1. SUFFICES ASSUME d = 0 PROVE FALSE
      OBVIOUS
    <2>2. Power(Base, 0) = 1
      BY <1>2, ValuesOfPowers
    <2>3. value \div 1 = value
      BY <1>1
    <2> QED BY <1>1, <1>4, <2>1, <2>2, <2>3
  <1>6. d \in 1 .. Most(Base) /\ d - 1 \in 0 .. 9 /\ d \in 0 .. 10 /\ (Base = 16 => d <= 8)
    <2>1. d \in Nat
      BY <1>1
    <2>2. Enough(conv) \in 0 .. 10 /\ (conv = "x" => Enough(conv) <= 8)
      BY FewDigits
    <2>3. (conv = "x" /\ Base = 16) \/ (conv # "x" /\ Base = 10)
      BY DEF Base
    <2> HIDE DEF d
    <2> QED BY <2>1, <1>3, <1>5, <2>2, <2>3 DEF Most
  <1>7. Power(Base, d) \in Nat \ {0} /\ Power(Base, d - 1) \in Nat \ {0}
    <2>1. CASE d = 10
      <3>1. Base = 10 /\ d - 1 = 9
        BY <2>1, <1>2, <1>6
      <3> HIDE DEF d
      <3> QED BY <3>1, <2>1, ValuesOfPowers
    <2>2. CASE d # 10
      <3>1. d \in 0 .. 9
        BY <2>2, <1>6
      <3>2. d - 1 <= d /\ d <= d
        BY <1>1
      <3> HIDE DEF d
      <3> QED BY <3>1, <3>2, <1>2, <1>6, PowersGrow
    <2> QED BY <2>1, <2>2
  <1>8. value < Power(Base, d)
    BY <1>1, <1>4, <1>7, NothingLeft
  <1>9. value \div Power(Base, d - 1) # 0
    BY <1>1, <1>5 DEF DigitsOf
  <1>10. Power(Base, d - 1) <= value
    <2>1. ~(value < Power(Base, d - 1))
      BY <1>1, <1>7, <1>9, NothingLeft
    <2> QED BY <2>1, <1>1, <1>7
  <1>11. Numeral(value, Base) =
           [k \in 1 .. d |-> DigitChars[((value \div Power(Base, d - k)) % Base) + 1]]
    BY <1>1, <1>2, <1>6, <1>8, <1>10, NumeralWithDigits
  <1>12. ASSUME NEW k \in 1 .. d
         PROVE  digits[d + 1 - k] = DigitChars[((value \div Power(Base, d - k)) % Base) + 1]
    <2>1. d + 1 - k \in 1 .. d /\ (d + 1 - k) - 1 = d - k
      BY <1>1
    <2> QED BY <2>1 DEF DigitsOf
  <1> QED BY <1>11, <1>12

LEMMA Whole ==
  ASSUME NEW q \in Requests
  PROVE  /\ q.format \in Seq(Character) /\ q.text \in Seq(Character)
         /\ Len(q.format) \in Nat /\ Len(q.text) \in Nat
BY RequestsAssumption

LEMMA Associative == \A s, t, u \in Seq(Character) : (s \o t) \o u = s \o (t \o u)
  BY ConcatAssociative

LEMMA PrefixOfConcat ==
  ASSUME NEW s \in Seq(Character), NEW t \in Seq(Character)
  PROVE  SubSeq(s \o t, 1, Len(s)) = s
  <1>1. s \o t \in Seq(Character) /\ Len(s) \in Nat /\ Len(t) \in Nat /\ Len(s \o t) = Len(s) + Len(t)
    OBVIOUS
  <1>2. \A k \in 1 .. Len(s) : (s \o t)[k] = s[k] /\ s[k] \in Character
    BY ConcatProperties
  <1>3. /\ SubSeq(s \o t, 1, Len(s)) \in Seq(Character)
        /\ Len(SubSeq(s \o t, 1, Len(s))) = Len(s)
        /\ \A k \in 1 .. Len(s) : SubSeq(s \o t, 1, Len(s))[k] = (s \o t)[k]
    BY <1>1, <1>2
  <1> QED BY <1>2, <1>3, SeqEqual

LEMMA RoomLeft ==
  ASSUME written \in Nat, written <= CountMax
  PROVE  maxrem = CountMax - written
  <1>1. CountMax \in Nat
    BY PrintfAssumption
  <1>2. CountMax - written \in Nat /\ CountMax - written < 2 * (CountMax + 1)
        /\ 2 * (CountMax + 1) \in Nat
    BY <1>1
  <1> QED BY <1>2, ModSmall DEF maxrem

LEMMA NoWrap ==
  ASSUME NEW n \in Nat, n <= CountMax
  PROVE  Wrap(n) = n
  <1>1. CountMax \in Nat
    BY PrintfAssumption
  <1>2. n + CountMax + 1 \in Nat /\ n + CountMax + 1 < 2 * (CountMax + 1)
        /\ 2 * (CountMax + 1) \in Nat
    BY <1>1
  <1>3. (n + CountMax + 1) % (2 * (CountMax + 1)) = n + CountMax + 1
    BY <1>2, ModSmall
  <1> QED BY <1>1, <1>3 DEF Wrap

(* A piece of the text is put if it fits the count, or if the text has     *)
(* pieces that are not tested; otherwise printf fails before it.           *)
LEMMA PieceIsPut ==
  ASSUME request \in Requests, out \in Seq(Character),
         NEW text \in Seq(Character), NEW q \in Requests,
         request.text = out \o (text \o q.text), request.tested => q.tested,
         Countable => written = Len(out) /\ written <= CountMax,
         UNCHANGED <<request, out, written>>,
         \/ /\ Put(text) /\ format' = q.format /\ args' = q.args
            /\ request.tested => ~(maxrem < Len(text))
         \/ GiveUp /\ (Countable => maxrem < Len(text))
  PROVE  PrintInv'
  <1>1. q.text \in Seq(Character) /\ CountMax \in Nat /\ text \o q.text \in Seq(Character)
    BY Whole, PrintfAssumption
  <1>2. /\ Len(request.text) = Len(out) + Len(text) + Len(q.text)
        /\ Len(out) \in Nat /\ Len(text) \in Nat /\ Len(q.text) \in Nat
    <2>1. /\ Len(text \o q.text) = Len(text) + Len(q.text)
          /\ Len(out \o (text \o q.text)) = Len(out) + Len(text \o q.text)
      BY <1>1, ConcatProperties
    <2>2. Len(out) \in Nat /\ Len(text) \in Nat /\ Len(q.text) \in Nat
      BY <1>1
    <2>3. Len(request.text) = Len(out) + (Len(text) + Len(q.text))
      BY <2>1, Zenon
    <2>4. \A x, y, z \in Nat : x + (y + z) = x + y + z
      OBVIOUS
    <2> QED BY <2>2, <2>3, <2>4, Zenon
  <1> DEFINE whole == Len(request.text)
             put == Len(out)
             next == Len(text)
             rest == Len(q.text)
  <1> HIDE DEF whole, put, next, rest
  <1>2a. /\ whole = put + next + rest
         /\ whole \in Nat /\ put \in Nat /\ next \in Nat /\ rest \in Nat
    <2>1. \A x, y, z \in Nat : x + y + z \in Nat
      OBVIOUS
    <2> QED BY <1>2, <2>1, Zenon DEF whole, put, next, rest
  <1>3. Countable' <=> Countable
    BY DEF Countable
  <1>4. Countable => maxrem = CountMax - put /\ written = put /\ put <= CountMax
    <2>1. SUFFICES ASSUME Countable PROVE maxrem = CountMax - put /\ written = put /\ put <= CountMax
      OBVIOUS
    <2>2. written = put /\ put <= CountMax
      BY <2>1, Zenon DEF put
    <2> QED BY <2>2, <1>2a, RoomLeft
  <1>4a. Countable => written \in 0 .. CountMax
    BY <1>1, <1>2a, <1>4
  <1>5. CASE Put(text) /\ format' = q.format /\ args' = q.args
             /\ (request.tested => ~(maxrem < next))
    <2>1. doing' = "put" /\ todo' = text /\ gain' = next
      BY <1>5 DEF Put, next
    <2>2. Countable => written + next = put + next /\ written + next <= CountMax
      <3>1. SUFFICES ASSUME Countable PROVE put + next <= CountMax
        BY <1>4
      <3>2. CASE request.tested
        BY <3>1, <3>2, <1>1, <1>2a, <1>4, <1>5
      <3>3. CASE whole <= CountMax
        BY <3>3, <1>1, <1>2a
      <3> QED BY <3>1, <3>2, <3>3 DEF Countable, whole
    <2>3. Remains(q)'
      BY <1>5 DEF Remains
    <2>4. PutInv'
      BY <2>1, <2>2, <2>3, <1>3, <1>4a DEF PutInv, put, next
    <2> QED BY <2>1, <2>4 DEF PrintInv, ScanInv, DigitsInv, Renders, ReturnInv
  <1>6. CASE GiveUp /\ (Countable => maxrem < next)
    <2>1. doing' = "returned" /\ count' = -1
      BY <1>6 DEF GiveUp
    <2>2. ~(whole <= CountMax)
      <3>1. SUFFICES ASSUME whole <= CountMax PROVE FALSE
        OBVIOUS
      <3>2. Countable
        BY <3>1, Zenon DEF Countable, whole
      <3> QED BY <3>1, <3>2, <1>1, <1>2a, <1>4, <1>6
    <2>3. Renders'
      <3>1. ~(Len(request.text) <= CountMax)
        BY <2>2, Zenon DEF whole
      <3> QED BY <3>1, Zenon DEF Renders
    <2>4. SubSeq(request.text, 1, Len(out)) = out
      BY <1>1, PrefixOfConcat
    <2>5. ReturnInv'
      BY <2>1, <2>4, <1>4a DEF ReturnInv, Countable
    <2> QED BY <2>1, <2>3, <2>5 DEF PrintInv, ScanInv, PutInv, DigitsInv
  <1> QED BY <1>5, <1>6 DEF next

(* What the steps that look at the format have in common: the call that is *)
(* left, and the one of the cases of RequestsAssumption it is in.          *)
LEMMA Ready ==
  ASSUME PrintInv, doing = "scan"
  PROVE  \E q \in Requests :
           /\ Remains(q) /\ request.text = out \o q.text
           /\ request \in Requests /\ out \in Seq(Character)
           /\ format \in Seq(Character)
           /\ (format = <<>> /\ q.text = <<>>) \/ PlainText(q) \/ Converted(q) \/ AsItStands(q)
  BY RequestsAssumption DEF PrintInv, ScanInv, Remains

LEMMA ScanCounts ==
  ASSUME PrintInv, doing = "scan"
  PROVE  Countable => written = Len(out) /\ written <= CountMax
  BY DEF PrintInv, ScanInv

LEMMA LiteralPuts == ASSUME PrintInv, Literal PROVE PrintInv'
  <1>1. doing = "scan" /\ format # <<>> /\ UNCHANGED <<request, out, written, args>>
        /\ (format[1] # "%" \/ (Len(format) > 1 /\ format[1] = "%" /\ format[2] = "%"))
    BY DEF Literal, Scanning, Conversion, Between
  <1>2. PICK q \in Requests :
           /\ Remains(q) /\ request.text = out \o q.text
           /\ request \in Requests /\ out \in Seq(Character) /\ format \in Seq(Character)
           /\ (format = <<>> /\ q.text = <<>>) \/ PlainText(q) \/ Converted(q) \/ AsItStands(q)
    BY <1>1, Ready
  <1>3. PlainText(q)
    BY <1>1, <1>2 DEF Remains, Converted, AsItStands, Conversions
  <1>4. PICK first \in {1, 2} : \E last \in first .. Len(format) :
          /\ IF first = 1 THEN format[1] # "%" ELSE format[1] = "%" /\ format[2] = "%"
          /\ \A k \in first + 1 .. last : format[k] # "%"
          /\ last = Len(format) \/ format[last + 1] = "%"
          /\ Continues(q, last, args, SubSeq(format, first, last), TRUE)
    BY <1>2, <1>3, Zenon DEF PlainText, Remains
  <1>4a. PICK last \in first .. Len(format) :
          /\ IF first = 1 THEN format[1] # "%" ELSE format[1] = "%" /\ format[2] = "%"
          /\ \A k \in first + 1 .. last : format[k] # "%"
          /\ last = Len(format) \/ format[last + 1] = "%"
          /\ Continues(q, last, args, SubSeq(format, first, last), TRUE)
    BY <1>4
  <1>5. first = IF format[1] = "%" THEN 2 ELSE 1
    BY <1>4a
  <1> DEFINE Ends(k) == /\ k = Len(format) \/ format[k + 1] = "%"
                        /\ \A j \in first + 1 .. k : format[j] # "%"
  <1>6. ASSUME NEW k \in first .. Len(format), Ends(k) PROVE k = last
    <2>1. CASE k < last
      BY <2>1, <1>2, <1>4a, <1>6
    <2>2. CASE last < k
      BY <2>2, <1>2, <1>4a, <1>6
    <2> QED BY <2>1, <2>2, <1>2, <1>4a
  <1>7. last = CHOOSE k \in first .. Len(format) : Ends(k)
    BY <1>4a, <1>6
  <1>8. PutIfRoom(SubSeq(format, first, last)) /\ TakeFormat(last)
    BY <1>5, <1>7, Zenon DEF Literal
  <1>9. PICK rest \in Requests :
          /\ rest.format = SubSeq(format, last + 1, Len(format)) /\ rest.args = args
          /\ q.text = SubSeq(format, first, last) \o rest.text
          /\ q.tested => rest.tested
    BY <1>2, <1>4a DEF Continues, Remains
  <1>10. SubSeq(format, first, last) \in Seq(Character)
    BY <1>2, <1>4a
  <1>11. format' = rest.format /\ args' = rest.args
    BY <1>1, <1>8, <1>9 DEF TakeFormat
  <1> DEFINE text == SubSeq(format, first, last)
  <1>12. \/ Put(text) /\ ~(maxrem < Len(text))
         \/ GiveUp /\ maxrem < Len(text)
    BY <1>8 DEF PutIfRoom
  <1>13. text \in Seq(Character) /\ request.text = out \o (text \o rest.text)
         /\ (request.tested => rest.tested)
    BY <1>2, <1>9, <1>10 DEF Remains
  <1> HIDE DEF text
  <1> QED BY <1>1, <1>2, <1>11, <1>12, <1>13, ScanCounts, PieceIsPut

LEMMA UnknownPuts == ASSUME PrintInv, Unknown PROVE PrintInv'
  <1>1. /\ doing = "scan" /\ format # <<>> /\ format[1] = "%"
        /\ Len(format) > 1 => format[2] \notin Conversions \cup {"%"}
        /\ UNCHANGED <<request, out, written, args>> /\ format' = <<>> /\ PutIfRoom(format)
    BY DEF Unknown, Scanning, Conversion, Conversions, Between
  <1>2. PICK q \in Requests :
           /\ Remains(q) /\ request.text = out \o q.text
           /\ request \in Requests /\ out \in Seq(Character) /\ format \in Seq(Character)
           /\ (format = <<>> /\ q.text = <<>>) \/ PlainText(q) \/ Converted(q) \/ AsItStands(q)
    BY <1>1, Ready
  <1>3. ~PlainText(q)
    <2>1. SUFFICES ASSUME NEW first \in {1, 2}, NEW last \in first .. Len(format),
                          IF first = 1 THEN format[1] # "%" ELSE format[2] = "%"
                   PROVE  FALSE
      BY <1>2 DEF PlainText, Remains
    <2> QED BY <2>1, <1>1, <1>2
  <1>4. AsItStands(q)
    BY <1>1, <1>2, <1>3 DEF Remains, Converted
  <1>5. PICK rest \in Requests :
          /\ rest.format = SubSeq(format, Len(format) + 1, Len(format)) /\ rest.args = args
          /\ q.text = format \o rest.text
          /\ q.tested => rest.tested
    BY <1>2, <1>4 DEF AsItStands, Continues, Remains
  <1>6. rest.format = <<>>
    BY <1>2, <1>5, SubSeqEmpty
  <1>7. \/ Put(format) /\ ~(maxrem < Len(format))
        \/ GiveUp /\ maxrem < Len(format)
    BY <1>1 DEF PutIfRoom
  <1>8. request.text = out \o (format \o rest.text) /\ (request.tested => rest.tested)
        /\ format' = rest.format /\ args' = rest.args
    BY <1>1, <1>2, <1>5, <1>6 DEF Remains
  <1> QED BY <1>1, <1>2, <1>7, <1>8, ScanCounts, PieceIsPut

(* A conversion that printf knows, of an argument that it was given.       *)
LEMMA ConversionRenders ==
  ASSUME PrintInv, NEW x \in Conversions, Conversion(x)
  PROVE  /\ request \in Requests /\ out \in Seq(Character)
         /\ Head(args) \in Argument(x)
         /\ \E q \in Requests :
              /\ q.format = SubSeq(format, 3, Len(format)) /\ q.args = Tail(args)
              /\ request.text = out \o (Shown(x, Head(args)) \o q.text)
              /\ request.tested => ~Untested(x, Head(args)) /\ q.tested
  <1>1. doing = "scan" /\ format # <<>> /\ Len(format) > 1 /\ format[1] = "%" /\ format[2] = x
    BY DEF Conversion, Scanning
  <1>2. PICK q \in Requests :
           /\ Remains(q) /\ request.text = out \o q.text
           /\ request \in Requests /\ out \in Seq(Character) /\ format \in Seq(Character)
           /\ (format = <<>> /\ q.text = <<>>) \/ PlainText(q) \/ Converted(q) \/ AsItStands(q)
    BY <1>1, Ready
  <1>3. ~PlainText(q)
    <2>1. SUFFICES ASSUME NEW first \in {1, 2}, NEW last \in first .. Len(format),
                          IF first = 1 THEN format[1] # "%" ELSE format[2] = "%"
                   PROVE  FALSE
      BY <1>2 DEF PlainText, Remains
    <2> QED BY <2>1, <1>1 DEF Conversions
  <1>4. Converted(q)
    BY <1>1, <1>2, <1>3 DEF Remains, AsItStands
  <1>5. PICK rest \in Requests :
          /\ rest.format = SubSeq(format, 2 + 1, Len(format)) /\ rest.args = Tail(args)
          /\ q.text = Shown(x, Head(args)) \o rest.text
          /\ q.tested => ~Untested(x, Head(args)) /\ rest.tested
    BY <1>1, <1>2, <1>4 DEF Converted, Continues, Remains
  <1>6. Head(args) \in Argument(x)
    BY <1>1, <1>2, <1>4 DEF Converted, Remains
  <1>7. request.text = out \o (Shown(x, Head(args)) \o rest.text)
        /\ (request.tested => ~Untested(x, Head(args)) /\ rest.tested)
    BY <1>2, <1>5 DEF Remains
  <1>8. 2 + 1 = 3
    OBVIOUS
  <1> QED BY <1>2, <1>5, <1>6, <1>7, <1>8, Zenon

LEMMA CharPuts == ASSUME PrintInv, Char \/ String PROVE PrintInv'
  <1>1. PICK x \in {"c", "s"} :
          /\ Conversion(x) /\ PutIfRoom(Shown(x, Head(args)))
          /\ doing = "scan" /\ UNCHANGED <<request, out, written>>
          /\ format' = SubSeq(format, 3, Len(format)) /\ args' = Tail(args)
    <2>1. CASE Char
      BY <2>1 DEF Char, Shown, Between, TakeArg, TakeFormat, Conversion, Scanning
    <2>2. CASE String
      BY <2>2 DEF String, Shown, Between, TakeArg, TakeFormat, Conversion, Scanning
    <2> QED BY <2>1, <2>2
  <1>2. /\ request \in Requests /\ out \in Seq(Character) /\ Head(args) \in Argument(x)
    BY <1>1, ConversionRenders DEF Conversions
  <1>3. PICK q \in Requests :
          /\ q.format = SubSeq(format, 3, Len(format)) /\ q.args = Tail(args)
          /\ request.text = out \o (Shown(x, Head(args)) \o q.text)
          /\ request.tested => q.tested
    BY <1>1, ConversionRenders DEF Conversions
  <1> DEFINE text == Shown(x, Head(args))
  <1>4. text \in Seq(Character)
    <2>1. CASE x = "c"
      BY <2>1, <1>2 DEF Argument, Shown
    <2>2. CASE x = "s"
      BY <2>2, <1>2 DEF Argument, Shown
    <2> QED BY <2>1, <2>2
  <1>5. \/ Put(text) /\ ~(maxrem < Len(text))
        \/ GiveUp /\ maxrem < Len(text)
    BY <1>1 DEF PutIfRoom
  <1>6. request.text = out \o (text \o q.text) /\ format' = q.format /\ args' = q.args
    BY <1>1, <1>3
  <1> HIDE DEF text
  <1> QED BY <1>1, <1>2, <1>3, <1>4, <1>5, <1>6, ScanCounts, PieceIsPut

(* What is printed without a test are the texts of 0 and INT_MIN.          *)
LEMMA SpecialIsShown ==
  ASSUME NEW x \in {"d", "u", "x"}, NEW n \in Int, Special(x, n) # <<>>
  PROVE  /\ Special(x, n) = Shown(x, n) /\ Special(x, n) \in Seq(Character)
         /\ Untested(x, n)
  <1>1. {"0", "x"} \subseteq Character
    BY PrintfAssumption DEF DigitChars
  <1>2. CASE n = 0
    <2>1. Numeral(0, 10) = <<"0">> /\ Numeral(0, 16) = <<"0">>
      BY DEF Numeral
    <2>2. <<"0", "x">> \o <<"0">> = <<"0", "x", "0">>
      <3>1. <<"0", "x">> \in Seq({"0", "x"}) /\ <<"0">> \in Seq({"0", "x"})
            /\ <<"0", "x", "0">> \in Seq({"0", "x"})
        OBVIOUS
      <3>2. /\ <<"0", "x">> \o <<"0">> \in Seq({"0", "x"}) /\ Len(<<"0", "x">> \o <<"0">>) = 3
            /\ \A k \in 1 .. 3 : (<<"0", "x">> \o <<"0">>)[k] =
                 IF k <= 2 THEN <<"0", "x">>[k] ELSE <<"0">>[k - 2]
        BY <3>1, ConcatProperties
      <3>3. \A k \in 1 .. 3 : (<<"0", "x">> \o <<"0">>)[k] = <<"0", "x", "0">>[k]
        BY <3>2
      <3> QED BY <3>1, <3>2, <3>3, SeqEqual
    <2>3. Special(x, n) = IF x = "x" THEN <<"0", "x", "0">> ELSE <<"0">>
      BY <1>2 DEF Special
    <2>4. Special(x, n) \in Seq(Character)
      BY <1>1, <2>3
    <2>5. Shown(x, n) = IF x = "x" THEN <<"0", "x">> \o Numeral(0, 16) ELSE Numeral(0, 10)
      BY <1>2 DEF Shown
    <2>6. Special(x, n) = Shown(x, n)
      BY <2>1, <2>2, <2>3, <2>5, Zenon
    <2>7. Untested(x, n)
      BY <1>2 DEF Untested
    <2> QED BY <2>4, <2>6, <2>7
  <1>3. CASE n # 0
    <2>1. x = "d" /\ n = IntMin /\ Special(x, n) = IntMinText
      BY <1>3 DEF Special
    <2>2. n < 0
      <3>1. WordValues \div 2 \in Nat
        BY PrintfAssumption
      <3> QED BY <3>1, <2>1, <1>3 DEF IntMin
    <2> QED BY <2>1, <2>2, RequestsAssumption DEF Shown, Untested
  <1> QED BY <1>2, <1>3

LEMMA ArgumentsAreNumbers ==
  ASSUME NEW x \in {"d", "u", "x"}
  PROVE  Argument(x) \subseteq Int
  <1>1. WordValues \div 2 \in Nat /\ WordValues \in Nat
    BY PrintfAssumption
  <1> QED BY <1>1 DEF Argument, IntMin

LEMMA SpecialPuts == ASSUME PrintInv, SpecialNumber PROVE PrintInv'
  <1>1. PICK x \in {"d", "u", "x"} :
          /\ Conversion(x) /\ Special(x, Head(args)) # <<>> /\ Put(Special(x, Head(args)))
          /\ doing = "scan" /\ UNCHANGED <<request, out, written>>
          /\ format' = SubSeq(format, 3, Len(format)) /\ args' = Tail(args)
    BY DEF SpecialNumber, Between, TakeArg, TakeFormat, Conversion, Scanning
  <1>2. /\ request \in Requests /\ out \in Seq(Character) /\ Head(args) \in Argument(x)
    BY <1>1, ConversionRenders DEF Conversions
  <1>3. PICK q \in Requests :
          /\ q.format = SubSeq(format, 3, Len(format)) /\ q.args = Tail(args)
          /\ request.text = out \o (Shown(x, Head(args)) \o q.text)
          /\ request.tested => ~Untested(x, Head(args)) /\ q.tested
    BY <1>1, ConversionRenders DEF Conversions
  <1> DEFINE text == Special(x, Head(args))
  <1>4. text = Shown(x, Head(args)) /\ text \in Seq(Character) /\ Untested(x, Head(args))
    BY <1>1, <1>2, SpecialIsShown, ArgumentsAreNumbers
  <1>5. request.text = out \o (text \o q.text) /\ format' = q.format /\ args' = q.args
        /\ Put(text) /\ ~request.tested
    BY <1>1, <1>3, <1>4
  <1> HIDE DEF text
  <1> QED BY <1>1, <1>2, <1>3, <1>4, <1>5, ScanCounts, PieceIsPut

LEMMA NumberBegins == ASSUME PrintInv, Number PROVE PrintInv'
  <1>1. PICK x \in {"d", "u", "x"} :
          /\ Conversion(x) /\ Special(x, Head(args)) = <<>>
          /\ Head(args) \in IF x = "d" THEN IntMin + 1 .. WordValues \div 2 - 1
                            ELSE 1 .. WordValues - 1
          /\ conv' = x /\ digits' = <<>> /\ doing' = "digits"
          /\ negative' = (Head(args) < 0)
          /\ num' = IF Head(args) < 0 THEN -Head(args) ELSE Head(args)
          /\ doing = "scan" /\ UNCHANGED <<request, out, written>>
          /\ format' = SubSeq(format, 3, Len(format)) /\ args' = Tail(args)
    BY DEF Number, Between, TakeArg, TakeFormat, Conversion, Scanning
  <1>2. request \in Requests /\ out \in Seq(Character)
    BY <1>1, ConversionRenders DEF Conversions
  <1>3. PICK q \in Requests :
          /\ q.format = SubSeq(format, 3, Len(format)) /\ q.args = Tail(args)
          /\ request.text = out \o (Shown(x, Head(args)) \o q.text)
          /\ request.tested => ~Untested(x, Head(args)) /\ q.tested
    BY <1>1, ConversionRenders DEF Conversions
  <1>4. WordValues \div 2 \in Nat /\ WordValues \div 2 <= WordValues /\ WordValues \in Nat
        /\ Head(args) \in Int
    <2>1. WordValues \in Nat /\ WordValues \div 2 \in Nat /\ WordValues \div 2 <= WordValues
      BY PrintfAssumption
    <2> QED BY <2>1, <1>1 DEF IntMin
  <1>5. Head(args) # 0
    <2>1. Special(x, 0) # <<>>
      BY DEF Special
    <2> QED BY <2>1, <1>1
  <1>6. num' \in 1 .. WordValues
    <2>1. CASE x = "d"
      BY <2>1, <1>1, <1>4, <1>5 DEF IntMin
    <2>2. CASE x # "d"
      BY <2>2, <1>1, <1>4, <1>5
    <2> QED BY <2>1, <2>2
  <1>6a. PICK value \in 1 .. WordValues : num' = value
    BY <1>6
  <1>7. InHand(value)' = Shown(x, Head(args))
    <2>1. CASE x = "d"
      BY <2>1, <1>1, <1>6a DEF InHand, Shown
    <2>2. CASE x # "d"
      <3>1. ~(Head(args) < 0)
        BY <2>2, <1>1, <1>4
      <3> QED BY <2>2, <3>1, <1>1, <1>6a DEF InHand, Shown
    <2> QED BY <2>1, <2>2
  <1>8. DigitsOf(value)'
    <2>1. Base' \in {10, 16} /\ Len(digits') = 0
      BY <1>1 DEF Base
    <2>2. \A b \in {10, 16} : Power(b, 0) = 1
      BY ValuesOfPowers
    <2>3. value = value \div 1
      BY <1>4
    <2> QED BY <1>6a, <2>1, <2>2, <2>3 DEF DigitsOf
  <1>9. Remains(q)' /\ request'.text = out' \o (InHand(value)' \o q.text)
    BY <1>1, <1>3, <1>7 DEF Remains
  <1>10. request.tested => x # "x"
    BY <1>3 DEF Untested
  <1>11. (Countable => written = Len(out) /\ written <= CountMax)'
    BY <1>1, ScanCounts DEF Countable
  <1>12. DigitsInv'
    BY <1>1, <1>8, <1>9, <1>10, <1>11 DEF DigitsInv
  <1> QED BY <1>1, <1>2, <1>12 DEF PrintInv, ScanInv, PutInv, Renders, ReturnInv

LEMMA DigitKeeps == ASSUME RoomInv, PrintInv, Digit PROVE PrintInv'
  <1>1. /\ doing = "digits" /\ UNCHANGED <<request, format, args, written, doing, conv, negative, out>>
    BY DEF Digit
  <1>2. PICK q \in Requests, value \in 1 .. WordValues :
          /\ Remains(q) /\ request.text = out \o (InHand(value) \o q.text)
          /\ DigitsOf(value)
    BY <1>1 DEF PrintInv, DigitsInv
  <1>3. DigitsOf(value)'
    BY <1>2, DigitIsNext, PrintfAssumption
  <1>4. (Remains(q) /\ request.text = out \o (InHand(value) \o q.text))'
    BY <1>1, <1>2 DEF Remains, InHand
  <1>5. (Countable => written = Len(out) /\ written <= CountMax)'
    BY <1>1 DEF Countable, PrintInv, DigitsInv
  <1>6. DigitsInv'
    <2>1. request.tested => conv # "x"
      BY <1>1 DEF PrintInv, DigitsInv
    <2> QED BY <1>1, <1>3, <1>4, <1>5, <2>1 DEF DigitsInv
  <1> QED BY <1>1, <1>6 DEF PrintInv, ScanInv, PutInv, Renders, ReturnInv

LEMMA DigitsPut == ASSUME RoomInv, PrintInv, DigitsDone PROVE PrintInv'
  <1> DEFINE len == Len(digits)
             backwards == [k \in 1 .. len |-> digits[len + 1 - k]]
             text == IF conv = "x" THEN <<"0", "x">> \o backwards
                     ELSE (IF negative THEN <<"-">> ELSE <<>>) \o backwards
  <1>1. /\ doing = "digits" /\ num = 0 /\ UNCHANGED <<request, format, args, written, out>>
        /\ request \in Requests /\ out \in Seq(Character)
        /\ digits \in Seq(Digits) /\ len \in Nat
    BY DEF DigitsDone, Between, PrintInv, RoomInv
  <1>2. PICK q \in Requests, value \in 1 .. WordValues :
          /\ Remains(q) /\ request.text = out \o (InHand(value) \o q.text)
          /\ DigitsOf(value)
    BY <1>1 DEF PrintInv, DigitsInv
  <1>3. backwards = Numeral(value, Base)
    BY <1>1, <1>2, DigitsAreNumeral
  <1>4. backwards \in Seq(Character) /\ Len(backwards) = len
    <2>1. \A k \in 1 .. len : digits[len + 1 - k] \in Digits
      BY <1>1
    <2>2. Digits \subseteq Character
      BY PrintfAssumption DEF Digits
    <2> QED BY <1>1, <2>1, <2>2
  <1>5. {"0", "x", "-"} \subseteq Character
    BY PrintfAssumption DEF DigitChars
  <1>6. <<"0", "x">> \in Seq(Character) /\ <<"-">> \in Seq(Character) /\ <<>> \in Seq(Character)
    BY <1>5
  <1> HIDE DEF backwards
  <1>7. text \in Seq(Character) /\ (conv = "x" => Len(text) = 2 + len)
    <2>1. CASE conv = "x"
      BY <2>1, <1>4, <1>6, ConcatProperties
    <2>2. CASE conv # "x"
      BY <2>2, <1>4, <1>6, ConcatProperties
    <2> QED BY <2>1, <2>2
  <1>8. text = InHand(value)
    <2>1. <<>> \o backwards = backwards
      BY <1>4, ConcatEmptySeq
    <2>2. Base = IF conv = "x" THEN 16 ELSE 10
      BY DEF Base
    <2> QED BY <1>3, <2>1, <2>2, Zenon DEF InHand
  <1> HIDE DEF text
  <1>9. /\ conv = "x" /\ ~request.tested => Put(text) \/ (GiveUp /\ (Countable => maxrem < Len(text)))
        /\ conv # "x" => \/ Put(text) /\ ~(maxrem < Len(text))
                         \/ GiveUp /\ maxrem < Len(text)
    <2>1. ASSUME conv = "x" PROVE Put(text) \/ (GiveUp /\ (Countable => maxrem < Len(text)))
      <3>1. (GiveUp /\ maxrem < len) \/ Put(text)
        BY <2>1, Zenon DEF DigitsDone, text, backwards
      <3>2. ASSUME Countable, maxrem < len PROVE maxrem < Len(text)
        <4>1. written \in Nat /\ written <= CountMax /\ CountMax \in Nat
          BY <1>1, <3>2, PrintfAssumption DEF PrintInv, DigitsInv
        <4>2. maxrem = CountMax - written
          BY <4>1, RoomLeft
        <4> QED BY <4>1, <4>2, <3>2, <2>1, <1>1, <1>7
      <3> QED BY <3>1, <3>2
    <2>2. ASSUME conv # "x" PROVE \/ Put(text) /\ ~(maxrem < Len(text))
                                  \/ GiveUp /\ maxrem < Len(text)
      <3>1. PutIfRoom(text)
        BY <2>2, Zenon DEF DigitsDone, text, backwards
      <3> QED BY <3>1 DEF PutIfRoom
    <2> QED BY <2>1, <2>2
  <1>10. request.tested => conv # "x"
    BY <1>1 DEF PrintInv, DigitsInv
  <1>11. Countable => written = Len(out) /\ written <= CountMax
    BY <1>1 DEF PrintInv, DigitsInv
  <1>12. request.text = out \o (text \o q.text) /\ format' = q.format /\ args' = q.args
         /\ (request.tested => q.tested)
    BY <1>1, <1>2, <1>8 DEF Remains
  <1> QED BY <1>1, <1>7, <1>9, <1>10, <1>11, <1>12, PieceIsPut

LEMMA PutcharKeeps == ASSUME PrintInv, Putchar PROVE PrintInv'
  <1>1. /\ doing = "put" /\ todo # <<>> /\ out' = Append(out, Head(todo)) /\ todo' = Tail(todo)
        /\ UNCHANGED <<request, format, args, written, doing, gain>>
        /\ request \in Requests /\ out \in Seq(Character) /\ todo \in Seq(Character)
    BY DEF Putchar, PrintInv, PutInv
  <1>2. PICK q \in Requests : Remains(q) /\ request.text = out \o (todo \o q.text)
    BY <1>1 DEF PrintInv, PutInv
  <1> DEFINE one == <<Head(todo)>>
  <1>3. /\ Head(todo) \in Character /\ Tail(todo) \in Seq(Character)
        /\ one \in Seq(Character) /\ q.text \in Seq(Character)
        /\ Len(Tail(todo)) = Len(todo) - 1 /\ Len(todo) \in Nat /\ Len(out) \in Nat
    BY <1>1, Whole, HeadTailProperties
  <1>4. out' = out \o one /\ Len(out') = Len(out) + 1 /\ out' \in Seq(Character)
    BY <1>1, <1>3, AppendIsConcat, AppendProperties
  <1>5. todo = one \o Tail(todo)
    <2>1. Len(todo) \in 1 .. Len(todo)
      BY <1>1, <1>3
    <2>2. SubSeq(todo, 1, Len(todo)) = <<todo[1]>> \o SubSeq(todo, 1 + 1, Len(todo))
      BY <1>1, <2>1, SubSeqRecursiveFirst
    <2>3. SubSeq(todo, 1, Len(todo)) = todo /\ Tail(todo) = SubSeq(todo, 2, Len(todo))
          /\ todo[1] = Head(todo)
      BY <1>1, SubSeqFull, TailIsSubSeq
    <2> QED BY <2>2, <2>3
  <1> HIDE DEF one
  <1>6. request.text = out' \o (todo' \o q.text)
    <2>1. (one \o Tail(todo)) \o q.text = one \o (Tail(todo) \o q.text)
      BY <1>3, Associative, Zenon
    <2>2. Tail(todo) \o q.text \in Seq(Character)
      BY <1>3
    <2>3. out \o (one \o (Tail(todo) \o q.text)) = (out \o one) \o (Tail(todo) \o q.text)
      <3>1. out \in Seq(Character) /\ one \in Seq(Character)
        BY <1>1, <1>3
      <3> QED BY <2>2, <3>1, Associative, Zenon
    <2> QED BY <1>1, <1>2, <1>4, <1>5, <2>1, <2>3, Zenon
  <1>7. Remains(q)'
    BY <1>1, <1>2 DEF Remains
  <1>8. (Countable => written + gain = Len(out) + Len(todo) /\ written + gain <= CountMax)'
    <2>1. Countable => written + gain = Len(out) + Len(todo) /\ written + gain <= CountMax
      BY <1>1 DEF PrintInv, PutInv
    <2>2. Len(out') + Len(todo') = Len(out) + Len(todo)
      BY <1>1, <1>3, <1>4
    <2> QED BY <1>1, <2>1, <2>2 DEF Countable
  <1>8a. (Countable => written \in 0 .. CountMax)'
    BY <1>1 DEF PrintInv, PutInv, Countable
  <1>9. PutInv'
    BY <1>1, <1>3, <1>6, <1>7, <1>8, <1>8a DEF PutInv
  <1> QED BY <1>1, <1>4, <1>9 DEF PrintInv, ScanInv, DigitsInv, Renders, ReturnInv

LEMMA PutDoneCounts == ASSUME PrintInv, PutDone PROVE PrintInv'
  <1>1. /\ doing = "put" /\ todo = <<>> /\ written' = Wrap(written + gain) /\ doing' = "scan"
        /\ UNCHANGED <<request, format, args, out>>
        /\ request \in Requests /\ out \in Seq(Character)
    BY DEF PutDone, PrintInv
  <1>2. PICK q \in Requests : Remains(q) /\ request.text = out \o (todo \o q.text)
    BY <1>1 DEF PrintInv, PutInv
  <1>3. request.text = out \o q.text
    <2>1. <<>> \o q.text = q.text
      BY Whole, ConcatEmptySeq
    <2> QED BY <1>1, <1>2, <2>1, Zenon
  <1>4. Countable => written' = Len(out) /\ written' <= CountMax
    <2>1. SUFFICES ASSUME Countable PROVE written' = Len(out) /\ written' <= CountMax
      OBVIOUS
    <2>2. written + gain = Len(out) + 0 /\ written + gain <= CountMax /\ Len(out) \in Nat
      BY <1>1, <2>1 DEF PrintInv, PutInv
    <2>3. Wrap(Len(out)) = Len(out)
      BY <2>2, NoWrap
    <2> QED BY <1>1, <2>2, <2>3
  <1>5. ScanInv'
    BY <1>1, <1>2, <1>3, <1>4 DEF ScanInv, Remains, Countable
  <1> QED BY <1>1, <1>5 DEF PrintInv, PutInv, DigitsInv, Renders, ReturnInv

LEMMA EndReturns == ASSUME PrintInv, End PROVE PrintInv'
  <1>1. /\ doing = "scan" /\ format = <<>> /\ doing' = "returned" /\ count' = written
        /\ UNCHANGED <<request, out, written>>
    BY DEF End
  <1>2. PICK q \in Requests :
           /\ Remains(q) /\ request.text = out \o q.text
           /\ request \in Requests /\ out \in Seq(Character) /\ format \in Seq(Character)
           /\ (format = <<>> /\ q.text = <<>>) \/ PlainText(q) \/ Converted(q) \/ AsItStands(q)
    BY <1>1, Ready
  <1>3. q.format = <<>> /\ Len(q.format) = 0
    BY <1>1, <1>2 DEF Remains
  <1>4. ~PlainText(q) /\ ~Converted(q) /\ ~AsItStands(q)
    BY <1>3 DEF PlainText, Converted, AsItStands
  <1>5. request.text = out
    <2>1. out \o <<>> = out
      BY <1>2, ConcatEmptySeq
    <2> QED BY <1>2, <1>4, <2>1
  <1>6. Countable => written = Len(out) /\ written <= CountMax
    BY <1>1, ScanCounts
  <1>7. Renders'
    BY <1>1, <1>5, <1>6 DEF Renders, Countable
  <1>8. ReturnInv'
    <2>0. request.tested => written \in 0 .. CountMax
      BY <1>2, <1>6, PrintfAssumption DEF Countable, PrintfAssumption
    <2>1. SUFFICES ASSUME request.tested, Len(request.text) > CountMax PROVE FALSE
      BY <1>1, <2>0 DEF ReturnInv
    <2>2. Len(out) <= CountMax /\ Len(out) > CountMax
      BY <1>5, <1>6, <2>1 DEF Countable
    <2>3. Len(out) \in Nat /\ CountMax \in Nat
      BY <1>2, PrintfAssumption
    <2> QED BY <2>2, <2>3
  <1> QED BY <1>1, <1>7, <1>8 DEF PrintInv, ScanInv, PutInv, DigitsInv

LEMMA PrintNext == RoomInv /\ PrintInv /\ [PrintfNext]_printfVars => PrintInv'
  <1> SUFFICES ASSUME RoomInv, PrintInv, [PrintfNext]_printfVars PROVE PrintInv'
    OBVIOUS
  <1>1. CASE UNCHANGED printfVars
    <2>1. UNCHANGED <<request, format, args, written, doing, conv, num, negative, digits,
                      todo, gain, count, out>>
      BY <1>1 DEF printfVars
    <2>2. ScanInv' /\ PutInv'
      BY <2>1 DEF PrintInv, ScanInv, PutInv, Remains, Countable
    <2>3. DigitsInv'
      <3>1. \A q : Remains(q)' <=> Remains(q)
        BY <2>1 DEF Remains
      <3>2. \A value : InHand(value)' = InHand(value)
        BY <2>1 DEF InHand
      <3>3. \A value : DigitsOf(value)' <=> DigitsOf(value)
        BY <2>1 DEF DigitsOf, Base
      <3> QED BY <2>1, <3>1, <3>2, <3>3 DEF PrintInv, DigitsInv, Countable
    <2>4. Renders' /\ ReturnInv'
      BY <2>1 DEF PrintInv, Renders, ReturnInv
    <2> QED BY <2>1, <2>2, <2>3, <2>4 DEF PrintInv
  <1> QED BY <1>1, LiteralPuts, CharPuts, SpecialPuts, NumberBegins, DigitKeeps, DigitsPut,
             UnknownPuts, PutDoneCounts, EndReturns, PutcharKeeps DEF PrintfNext, Silent

LEMMA PrintInit == PrintfInit => PrintInv
  <1> SUFFICES ASSUME PrintfInit PROVE PrintInv
    OBVIOUS
  <1>1. /\ request \in Requests /\ format = request.format /\ args = request.args
        /\ doing = "scan" /\ written = 0 /\ out = <<>>
    BY DEF PrintfInit
  <1>2. request.text = <<>> \o request.text
    BY <1>1, Whole, ConcatEmptySeq
  <1>3. <<>> \in Seq(Character) /\ Len(<<>>) = 0 /\ 0 <= CountMax
    BY PrintfAssumption
  <1>4. ScanInv
    BY <1>1, <1>2, <1>3 DEF ScanInv, Remains
  <1> QED BY <1>1, <1>3, <1>4 DEF PrintInv, PutInv, DigitsInv, Renders, ReturnInv

LEMMA PrintfInvariant == ConsoleSpec => [](RoomInv /\ PrintInv)
<1>1. ConsoleInit => RoomInv /\ PrintInv
  <2>1. PrintfInit => RoomInv
    BY DEF PrintfInit, RoomInv
  <2>2. NoPrintf => RoomInv
    BY DEF NoPrintf, RoomInv
  <2>3. NoPrintf => PrintInv
    <3> SUFFICES ASSUME NoPrintf PROVE PrintInv
      OBVIOUS
    <3>1. doing = "returned" /\ request.text = <<>> /\ out = <<>> /\ count = 0
          /\ written = 0
      BY DEF NoPrintf
    <3>2. Len(<<>>) = 0 /\ ~(0 > CountMax) /\ 0 \in 0 .. CountMax
      BY PrintfAssumption DEF PrintfAssumption
    <3>3. Renders /\ ReturnInv
      BY <3>1, <3>2 DEF Renders, ReturnInv
    <3> QED BY <3>1, <3>3 DEF PrintInv, ScanInv, PutInv, DigitsInv
  <2> QED BY <2>1, <2>2, <2>3, PrintInit DEF ConsoleInit
<1>2. RoomInv /\ PrintInv /\ [ConsoleNext]_<<vars, printfVars, stringsVars>>
        => (RoomInv /\ PrintInv)'
  <2>1. [ConsoleNext]_<<vars, printfVars, stringsVars>> => [PrintfNext]_printfVars
    BY DEF ConsoleNext, PrintfStep, PutcharStep, TerminalStep, StringStep, PrintfNext
  <2> QED BY <2>1, DigitTakesRoom, NumberHasRoom, OthersKeepRoom, PrintNext
<1> QED BY <1>1, <1>2, PTL DEF ConsoleSpec

-----------------------------------------------------------------------------
(* The loops end                                                           *)

(* Turns of a loop of libc/string that are left, and the return.           *)
TurnsLeft ==
  IF returned THEN 0
  ELSE 1 + IF Downwards(call) THEN i
           ELSE IF call.fn = "strlen" THEN MemorySize - (call.src + i)
           ELSE call.n - i

(* printf takes a piece of the format; or goes from the digits of a number *)
(* to putting them and back to the format; or the number has one digit     *)
(* less, or the text one character less to be put.                         *)
Phase == [returned |-> 0, scan |-> 1, put |-> 2, digits |-> 3]

PrintfGoesOn ==
  \/ Len(format') < Len(format)
  \/ format' = format /\ Phase[doing'] < Phase[doing]
  \/ UNCHANGED <<format, doing>> /\ doing = "digits" /\ num' \in Nat /\ num' < num
  \/ UNCHANGED <<format, doing>> /\ doing = "put" /\ Len(todo') < Len(todo)

LoopsEnd ==
  /\ PrintfStep \/ PutcharStep => PrintfGoesOn
  /\ StringStep => TurnsLeft' < TurnsLeft

LEMMA Shorter ==
  ASSUME NEW s \in Seq(Character), NEW n \in 1 .. Len(s)
  PROVE  Len(SubSeq(s, n + 1, Len(s))) < Len(s)
<1>1. CASE n = Len(s)
  <2>1. SubSeq(s, n + 1, Len(s)) = <<>>
    BY <1>1, SubSeqEmpty
  <2> QED BY <1>1, <2>1
<1>2. CASE n < Len(s)
  <2>1. Len(SubSeq(s, n + 1, Len(s))) = Len(s) - n
    BY <1>2
  <2> QED BY <2>1
<1> QED BY <1>1, <1>2

LEMMA LiteralGoesOn == ASSUME PrintInv, Literal PROVE Len(format') < Len(format)
<1>1. doing = "scan" /\ format # <<>>
      /\ (format[1] # "%" \/ (Len(format) > 1 /\ format[1] = "%" /\ format[2] = "%"))
  BY DEF Literal, Scanning, Conversion
<1>2. PICK q \in Requests :
         /\ Remains(q) /\ format \in Seq(Character)
         /\ (format = <<>> /\ q.text = <<>>) \/ PlainText(q) \/ Converted(q) \/ AsItStands(q)
  BY <1>1, Ready
<1>3. PlainText(q)
  BY <1>1, <1>2 DEF Remains, Converted, AsItStands, Conversions
<1> DEFINE first == IF format[1] = "%" THEN 2 ELSE 1
           Ends(k) == /\ k = Len(format) \/ format[k + 1] = "%"
                      /\ \A j \in first + 1 .. k : format[j] # "%"
           last == CHOOSE k \in first .. Len(format) : Ends(k)
<1>4. \E k \in first .. Len(format) : Ends(k)
  <2>1. PICK one \in {1, 2} : \E k \in one .. Len(format) :
          /\ IF one = 1 THEN format[1] # "%" ELSE format[1] = "%" /\ format[2] = "%"
          /\ \A j \in one + 1 .. k : format[j] # "%"
          /\ k = Len(format) \/ format[k + 1] = "%"
    BY <1>2, <1>3, Zenon DEF PlainText, Remains
  <2>2. one = first
    BY <2>1
  <2> QED BY <2>1, <2>2
<1>5. last \in first .. Len(format)
  <2> HIDE DEF Ends, first
  <2> QED BY <1>4
<1>6. TakeFormat(last)
  BY Zenon DEF Literal
<1>7. last \in 1 .. Len(format)
  <2>1. first \in {1, 2} /\ Len(format) \in Nat
    BY <1>2
  <2> HIDE DEF first, last
  <2> QED BY <1>5, <2>1
<1> HIDE DEF last
<1> QED BY <1>2, <1>6, <1>7, Shorter DEF TakeFormat

LEMMA FormatIsText ==
  ASSUME PrintInv, doing \in {"scan", "put", "digits"}
  PROVE  format \in Seq(Character)
<1>1. PICK q \in Requests : Remains(q)
  BY DEF PrintInv, ScanInv, PutInv, DigitsInv
<1> QED BY <1>1, RequestsAssumption DEF Remains

LEMMA PrintfTurns ==
  ASSUME RoomInv, PrintInv, PrintfNext PROVE PrintfGoesOn
<1>0. Phase["returned"] = 0 /\ Phase["scan"] = 1 /\ Phase["put"] = 2 /\ Phase["digits"] = 3
  BY DEF Phase
<1>1. CASE Literal
  BY <1>1, LiteralGoesOn DEF PrintfGoesOn
<1>2. CASE Char \/ String \/ SpecialNumber \/ Number
  <2>1. doing = "scan" /\ Len(format) > 1 /\ TakeFormat(2)
    BY <1>2 DEF Char, String, SpecialNumber, Number, Conversion, Scanning, TakeArg
  <2>2. format \in Seq(Character) /\ 2 \in 1 .. Len(format)
    BY <2>1, FormatIsText
  <2>3. format' = SubSeq(format, 2 + 1, Len(format))
    BY <2>1 DEF TakeFormat
  <2>4. Len(format') < Len(format)
    BY <2>2, <2>3, Shorter
  <2> QED BY <2>4 DEF PrintfGoesOn
<1>3. CASE Unknown
  <2>1. format # <<>> /\ format' = <<>> /\ format \in Seq(Character)
    BY <1>3, FormatIsText DEF Unknown, Scanning
  <2>2. Len(format') < Len(format)
    BY <2>1
  <2> QED BY <2>2 DEF PrintfGoesOn
<1>4. CASE Digit
  <2>1. doing = "digits" /\ num # 0 /\ num \in Nat /\ num' = num \div Base
        /\ UNCHANGED <<format, doing>>
    BY <1>4 DEF Digit, RoomInv
  <2>2. Base \in {10, 16}
    BY DEF Base
  <2>3. num' \in Nat /\ num' < num
    <3>1. num < Base * num
      BY <2>1, <2>2
    <3> QED BY <2>1, <2>2, <3>1, Quotient
  <2> QED BY <2>1, <2>3 DEF PrintfGoesOn
<1>5. CASE DigitsDone
  <2>1. doing = "digits" /\ format' = format /\ doing' \in {"put", "returned"}
    BY <1>5 DEF DigitsDone, PutIfRoom, Put, GiveUp
  <2> QED BY <1>0, <2>1 DEF PrintfGoesOn
<1>6. CASE PutDone
  <2>1. doing = "put" /\ format' = format /\ doing' = "scan"
    BY <1>6 DEF PutDone
  <2> QED BY <1>0, <2>1 DEF PrintfGoesOn
<1>7. CASE End
  <2>1. doing = "scan" /\ format' = format /\ doing' = "returned"
    BY <1>7 DEF End
  <2> QED BY <1>0, <2>1 DEF PrintfGoesOn
<1>8. CASE Putchar
  <2>1. doing = "put" /\ todo # <<>> /\ todo' = Tail(todo) /\ UNCHANGED <<format, doing>>
    BY <1>8 DEF Putchar
  <2>2. todo \in Seq(Character)
    BY <2>1 DEF PrintInv, PutInv
  <2>3. Len(todo') < Len(todo)
    BY <2>1, <2>2
  <2> QED BY <2>1, <2>3 DEF PrintfGoesOn
<1> QED
  BY <1>1, <1>2, <1>3, <1>4, <1>5, <1>6, <1>7, <1>8 DEF PrintfNext, Silent

LEMMA TurnsCount == LoopInv => TurnsLeft \in Nat
<1> SUFFICES ASSUME LoopInv PROVE TurnsLeft \in Nat
  OBVIOUS
<1>1. i \in Nat /\ call.n \in Nat /\ call.src \in Addresses /\ call.fn \in Functions
      /\ MemorySize \in Nat
  BY StringsAssumption DEF LoopInv, CallOK
<1>2. CASE call.fn = "strlen"
  <2>1. NoEnd(call.src, i) /\ Terminated(before, call.src) /\ ~Downwards(call)
    BY <1>2 DEF LoopInv, CallOK, Allowed, ReaderInv, Writers, Copies, Downwards
  <2>2. call.src + i \in Addresses
    BY <1>1, <1>2, <2>1, ReadsInside
  <2>3. MemorySize - (call.src + i) \in Nat
    BY <1>1, <2>2 DEF Addresses
  <2> QED BY <1>2, <2>1, <2>3 DEF TurnsLeft
<1>3. CASE call.fn # "strlen"
  <2>1. i <= call.n
    BY <1>1, <1>3 DEF LoopInv, WriterInv, ReaderInv, Functions, Writers, Copies
  <2>2. call.n - i \in Nat
    BY <1>1, <2>1
  <2> QED BY <1>1, <1>3, <2>2 DEF TurnsLeft
<1> QED BY <1>2, <1>3

LEMMA TurnsFall ==
  ASSUME LoopInv, StringsNext PROVE TurnsLeft' < TurnsLeft
<1>1. i \in Nat /\ call.n \in Nat /\ call.src \in Nat /\ MemorySize \in Nat
  BY StringsAssumption DEF LoopInv, CallOK, Addresses
<1>2. call' = call /\ ~returned
  BY DEF StringsNext, CopyUp, CopyDown, Fill, MemoryDone, Memcmp, Strncmp, Strlen, Calls,
         Continue, Answer
<1>3. CASE returned'
  <2>1. TurnsLeft' = 0
    BY <1>3 DEF TurnsLeft
  <2>2. TurnsLeft \in Nat /\ TurnsLeft # 0
    <3>1. TurnsLeft \in Nat
      BY TurnsCount
    <3>2. TurnsLeft = 1 + IF Downwards(call) THEN i
                          ELSE IF call.fn = "strlen" THEN MemorySize - (call.src + i)
                          ELSE call.n - i
      BY <1>2 DEF TurnsLeft
    <3>3. \/ Downwards(call)
          \/ ~Downwards(call) /\ call.fn = "strlen" /\ call.src + i \in Addresses
          \/ ~Downwards(call) /\ call.fn # "strlen" /\ i <= call.n
      <4>1. CASE call.fn = "strlen"
        <5>1. NoEnd(call.src, i) /\ Terminated(before, call.src) /\ call.src \in Addresses
          BY <4>1 DEF LoopInv, CallOK, Allowed, ReaderInv, Writers, Copies
        <5> QED BY <4>1, <5>1, ReadsInside
      <4>2. CASE call.fn # "strlen"
        BY <4>2 DEF LoopInv, CallOK, WriterInv, ReaderInv, Functions, Writers, Copies
      <4> QED BY <4>1, <4>2
    <3> QED BY <1>1, <3>1, <3>2, <3>3 DEF Addresses
  <2> QED BY <2>1, <2>2
<1>4. CASE ~returned'
  <2>1. \/ Downwards(call) /\ i' = i - 1
        \/ ~Downwards(call) /\ i' = i + 1
    BY <1>4 DEF StringsNext, CopyUp, CopyDown, Fill, MemoryDone, Memcmp, Strncmp, Strlen, Calls,
                Continue, Answer, Downwards, Copies
  <2>2. CASE Downwards(call)
    <3>1. TurnsLeft = 1 + i /\ TurnsLeft' = 1 + i'
      BY <1>2, <1>4, <2>2 DEF TurnsLeft
    <3> QED BY <1>1, <2>1, <2>2, <3>1
  <2>3. CASE ~Downwards(call) /\ call.fn = "strlen"
    <3>1. /\ TurnsLeft = 1 + (MemorySize - (call.src + i))
          /\ TurnsLeft' = 1 + (MemorySize - (call.src + i'))
      BY <1>2, <1>4, <2>3 DEF TurnsLeft
    <3> QED BY <1>1, <2>1, <2>3, <3>1
  <2>4. CASE ~Downwards(call) /\ call.fn # "strlen"
    <3>1. TurnsLeft = 1 + (call.n - i) /\ TurnsLeft' = 1 + (call.n - i')
      BY <1>2, <1>4, <2>4 DEF TurnsLeft
    <3> QED BY <1>1, <2>1, <2>4, <3>1
  <2> QED BY <2>2, <2>3, <2>4
<1> QED BY <1>3, <1>4

LEMMA StringsInvariant == ConsoleSpec => [](LoopInv \/ NoMemory)
<1>1. ConsoleInit => LoopInv \/ NoMemory
  BY InitEstablishes DEF ConsoleInit
<1>2. (LoopInv \/ NoMemory) /\ [ConsoleNext]_<<vars, printfVars, stringsVars>>
        => (LoopInv \/ NoMemory)'
  <2>1. [ConsoleNext]_<<vars, printfVars, stringsVars>> => [StringsNext]_stringsVars
    BY DEF ConsoleNext, PrintfStep, PutcharStep, TerminalStep, StringStep
  <2>2. LoopInv /\ [StringsNext]_stringsVars => LoopInv'
    BY StepPreservesWriter, StepPreservesReader
  <2>3. NoMemory /\ [StringsNext]_stringsVars => NoMemory'
    BY DEF NoMemory, StringsNext, CopyUp, CopyDown, Fill, MemoryDone, Memcmp, Strncmp, Strlen,
           Calls, stringsVars
  <2> QED BY <2>1, <2>2, <2>3
<1> QED BY <1>1, <1>2, PTL DEF ConsoleSpec

-----------------------------------------------------------------------------
(* The theorems                                                            *)

(* Printing as the kernel does it, one terminal_write for each character   *)
(* that printf puts, implements the abstract screen: every character goes  *)
(* into the next cell of the ring, and a newline blanks the rest of its    *)
(* line, or a whole line if it comes at the start of one.                  *)
THEOREM PrintsOnScreen == ConsoleSpec => ImplementsScreen
<1>1. ASSUME ConsoleInit PROVE ScreenInv /\ S!Init
  <2>1. Init
    BY <1>1 DEF ConsoleInit
  <2>2. S!Init
    <3>1. /\ Visible = [k \in 0 .. Width * Height - 1 |-> Blank]
          /\ Position = 0 /\ Line = "text"
      <4>1. /\ Width \in Nat /\ Height \in Nat /\ VideoCells \in Nat
            /\ Width * Height < VideoCells
            /\ Width * Height \in Nat
        BY TerminalAssumption DEF TerminalAssumption
      <4>2. /\ terminal_buffer = [k \in 0 .. VideoCells - 1 |-> Blank] /\ pc["main"] = "idle"
            /\ terminal_row = 0 /\ terminal_column = 0
        BY <2>1 DEF Init
      <4>3. Visible = [k \in 0 .. Width * Height - 1 |-> Blank]
        BY <4>1, <4>2 DEF Visible
      <4>4. Position = 0 * Width + 0 /\ Line = "text"
        BY <4>2 DEF Position, Line, Advancing, Filling
      <4> QED BY <4>1, <4>3, <4>4
    <3> QED BY <3>1 DEF S!Init, S!Cells, Visible, Position, Line
  <2> QED BY <2>1, <2>2, ScreenInit
<1>2. ScreenInv /\ [ConsoleNext]_<<vars, printfVars, stringsVars>> => ScreenInv'
  BY TerminalSteps
<1>3. ScreenInv /\ [ConsoleNext]_<<vars, printfVars, stringsVars>> => [S!Next]_(S!vars)
  BY TerminalSteps
<1> QED
  BY <1>1, <1>2, <1>3, PTL DEF ConsoleSpec, ImplementsScreen, S!Spec

(* No conversion of printf writes past the end of its buffer: hex_to_print *)
(* holds the 8 digits of a 32-bit word and not one more.                   *)
THEOREM DigitsAlwaysFit == ConsoleSpec => []DigitsFit
<1>1. RoomInv => DigitsFit
  <2> SUFFICES ASSUME RoomInv, doing = "digits" PROVE Len(digits) <= Size
    BY DEF DigitsFit
  <2>1. Len(digits) \in Nat /\ Len(digits) <= Enough(conv)
    BY DEF RoomInv
  <2>2. Enough(conv) <= Size /\ Enough(conv) \in Nat /\ Size \in Nat
    BY PrintfAssumption DEF Enough, Size
  <2> QED BY <2>1, <2>2
<1> QED BY <1>1, PrintfInvariant, PTL

(* What printf puts and counts is the text of its call, if it can be       *)
(* counted at all: for every format, pieces and arguments, numbers of any  *)
(* size and INT_MIN included.                                              *)
THEOREM EveryCallRenders == ConsoleSpec => []Renders
<1>1. PrintInv => Renders
  BY DEF PrintInv
<1> QED BY <1>1, PrintfInvariant, PTL

(* A text that is too long for the count of a format whose pieces are all  *)
(* tested is never cut within a piece, and the count never wraps.          *)
THEOREM TooLongFails == ConsoleSpec => []FailsWhenTooLong
<1>1. PrintInv => FailsWhenTooLong
  <2> SUFFICES ASSUME PrintInv, request.tested PROVE FailsWhenTooLong
    BY DEF FailsWhenTooLong
  <2>1. Countable
    BY DEF Countable
  <2>2. CASE doing = "returned"
    BY <2>2 DEF PrintInv, ReturnInv, FailsWhenTooLong
  <2>3. CASE doing # "returned"
    <3>1. Len(out) \in Nat /\ doing \in {"scan", "put", "digits"}
      BY <2>3 DEF PrintInv
    <3>2. written \in 0 .. CountMax
      BY <2>1, <3>1, PrintfAssumption DEF PrintInv, ScanInv, PutInv, DigitsInv, PrintfAssumption
    <3> QED BY <2>3, <3>2 DEF FailsWhenTooLong
  <2> QED BY <2>2, <2>3
<1> QED BY <1>1, PrintfInvariant, PTL

(* Every function of string.h does its work, on every memory: memcpy and   *)
(* memmove copy what the source held, also between areas that overlap,     *)
(* memset fills, and the comparisons decide on the first byte that differs *)
(* or ends a string.                                                       *)
THEOREM LibraryStaysCorrect == ConsoleSpec => []LibraryCorrect
<1>1. LoopInv \/ NoMemory => LibraryCorrect
  <2>1. LoopInv => LibraryCorrect
    BY MovesMemory DEF LoopInv, LibraryCorrect
  <2>2. NoMemory => LibraryCorrect
    <3> SUFFICES ASSUME NoMemory PROVE LibraryCorrect
      OBVIOUS
    <3>1. memory = before /\ call.fn = "memcpy" /\ call.dst = 0 /\ call.n = 0
      BY DEF NoMemory
    <3>2. \A a \in Addresses : a >= call.dst + call.n
      BY <3>1, StringsAssumption DEF Addresses
    <3>3. MemoryMoved
      BY <3>1, <3>2 DEF MemoryMoved
    <3>4. Compared
      BY <3>1 DEF Compared
    <3> QED BY <3>3, <3>4 DEF LibraryCorrect
  <2> QED BY <2>1, <2>2
<1> QED BY <1>1, StringsInvariant, PTL

(* No call loops for ever: each turn of printf takes a piece of the format *)
(* or comes nearer to the end of the piece in hand (printf.c:22-214), and  *)
(* each turn of a function of string.h leaves one turn less, strlen and    *)
(* strncmp included, which know no length but that of a terminated text.   *)
THEOREM EveryLoopEnds ==
  ConsoleSpec => [](TurnsLeft \in Nat) /\ [][LoopsEnd]_<<vars, printfVars, stringsVars>>
<1>1. LoopInv \/ NoMemory => TurnsLeft \in Nat
  BY TurnsCount DEF NoMemory, TurnsLeft
<1>2. (LoopInv \/ NoMemory) /\ RoomInv /\ PrintInv => LoopsEnd
  <2> SUFFICES ASSUME LoopInv \/ NoMemory, RoomInv, PrintInv PROVE LoopsEnd
    OBVIOUS
  <2>1. ASSUME PrintfStep \/ PutcharStep PROVE PrintfGoesOn
    BY <2>1, PrintfTurns DEF PrintfStep, PutcharStep, PrintfNext
  <2>2. ASSUME StringStep PROVE TurnsLeft' < TurnsLeft
    <3>1. StringsNext
      BY <2>2 DEF StringStep
    <3>2. ~returned
      BY <3>1 DEF StringsNext, CopyUp, CopyDown, Fill, MemoryDone, Memcmp, Strncmp, Strlen, Calls
    <3>3. LoopInv
      BY <3>2 DEF NoMemory
    <3> QED BY <3>1, <3>3, TurnsFall
  <2> QED BY <2>1, <2>2 DEF LoopsEnd
<1> QED BY <1>1, <1>2, StringsInvariant, PrintfInvariant, PTL DEF ConsoleSpec
=============================================================================
