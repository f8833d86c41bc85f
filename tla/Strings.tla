------------------------------ MODULE Strings -------------------------------
(***************************************************************************)
(* The loops of libc/string: one call of one of the functions, a turn of   *)
(* its loop at a time, on a memory of bytes.  i is the loop variable; for  *)
(* strncmp, which advances both pointers and counts n down, it is how far  *)
(* they have come, and for strlen it is len.                               *)
(***************************************************************************)
EXTENDS Integers

CONSTANTS
  MemorySize,   \* bytes of memory
  ByteRadix,    \* values of a byte (256)
  MaxLength     \* bound: size arguments

Addresses == 0 .. MemorySize - 1
Bytes == 0 .. ByteRadix - 1
NUL == 0

ASSUME StringsAssumption ==
  MemorySize \in Nat /\ ByteRadix \in Nat \ {0} /\ MaxLength \in Nat

VARIABLES
  memory,
  call,      \* the function and its arguments
  i,
  returned,  \* whether it has
  answer,    \* what it returned, of the three that return a number
  before     \* history: the memory it was called with

stringsVars == <<memory, call, i, returned, answer, before>>

Copies == {"memcpy", "memmove"}
Functions == Copies \cup {"memset", "memcmp", "strncmp", "strlen"}

Within(a, n) == a + n <= MemorySize
Disjoint(a, b, n) == a + n <= b \/ b + n <= a
Terminated(m, a) == \E e \in Addresses : a <= e /\ m[e] = NUL

(* Calls whose arguments the standard allows: both areas exist, those of   *)
(* memcpy are restrict, strings are terminated or long enough.             *)
Allowed(c, m) ==
  CASE c.fn = "strlen" -> Terminated(m, c.src)
    [] c.fn = "strncmp" -> \A a \in {c.dst, c.src} : Within(a, c.n) \/ Terminated(m, a)
    [] c.fn = "memcpy" -> Within(c.dst, c.n) /\ Within(c.src, c.n) /\ Disjoint(c.dst, c.src, c.n)
    [] OTHER -> Within(c.dst, c.n) /\ Within(c.src, c.n)

(* Names that end in capitals are faulty variants of the definition that   *)
(* follows; nothing uses them.                                             *)
Downwards_WHEN_BELOW(c) == c.fn = "memmove" /\ c.dst < c.src

(* memmove: "if (dst < src)" it copies upwards, otherwise downwards.       *)
Downwards(c) == c.fn = "memmove" /\ ~(c.dst < c.src)

StringsInit ==
  /\ memory \in [Addresses -> Bytes] /\ before = memory
  /\ call \in [fn : Functions, dst : Addresses, src : Addresses,
               n : 0 .. MaxLength, value : 0 .. ByteRadix]
  /\ call.fn # "memset" => call.value = 0
  /\ Allowed(call, memory)
  /\ i = IF Downwards(call) THEN call.n ELSE 0
  /\ returned = FALSE /\ answer = 0

-----------------------------------------------------------------------------
(* Turns of the loops *)

Calls(fs) == ~returned /\ call.fn \in fs
Left == memory[call.dst + i]
Right == memory[call.src + i]

Continue == i' = i + 1 /\ UNCHANGED <<memory, call, returned, answer, before>>

Answer(a) == returned' = TRUE /\ answer' = a /\ UNCHANGED <<memory, call, i, before>>

Store(a, b) == memory' = [memory EXCEPT ![a] = b]

CopyUp ==
  /\ Calls(Copies) /\ ~Downwards(call) /\ i < call.n
  /\ Store(call.dst + i, Right) /\ i' = i + 1
  /\ UNCHANGED <<call, returned, answer, before>>

CopyDown ==
  /\ Calls(Copies) /\ Downwards(call) /\ i # 0
  /\ Store(call.dst + i - 1, memory[call.src + i - 1]) /\ i' = i - 1
  /\ UNCHANGED <<call, returned, answer, before>>

Fill ==
  /\ Calls({"memset"}) /\ i < call.n
  /\ Store(call.dst + i, call.value % ByteRadix) /\ i' = i + 1
  /\ UNCHANGED <<call, returned, answer, before>>

MemoryDone ==
  /\ Calls(Copies \cup {"memset"})
  /\ i = IF Downwards(call) THEN 0 ELSE call.n
  /\ Answer(0)

Memcmp ==
  /\ Calls({"memcmp"})
  /\ \/ i < call.n /\ Left = Right /\ Continue
     \/ i < call.n /\ Left # Right /\ Answer(IF Left < Right THEN -1 ELSE 1)
     \/ i = call.n /\ Answer(0)

Strncmp ==
  /\ Calls({"strncmp"})
  /\ \/ i < call.n /\ Left # NUL /\ Right # NUL /\ Left = Right /\ Continue
     \/ i < call.n /\ (Left = NUL \/ Right = NUL \/ Left # Right) /\ Answer(Left - Right)
     \/ i = call.n /\ Answer(0)

Strlen ==
  /\ Calls({"strlen"})
  /\ IF Right # NUL THEN Continue ELSE Answer(i)

StringsNext == CopyUp \/ CopyDown \/ Fill \/ MemoryDone \/ Memcmp \/ Strncmp \/ Strlen

StringsSpec == StringsInit /\ [][StringsNext]_stringsVars

-----------------------------------------------------------------------------
(* Properties *)

(* The bytes a call has been told to write, and no others, have changed,   *)
(* and to what the source held when it was called: areas that overlap are  *)
(* what memmove is for, and a loop in the wrong direction reads bytes that *)
(* it has already replaced.                                                *)
MemoryMoved ==
  returned => \A a \in Addresses :
     memory[a] = IF call.fn \notin Copies \cup {"memset"} \/ a < call.dst \/ a >= call.dst + call.n
                 THEN before[a]
                 ELSE IF call.fn = "memset" THEN call.value % ByteRadix
                 ELSE before[call.src + (a - call.dst)]

(* Whether the first k bytes of both arguments agree, and have no end.     *)
Agree(k) == \A j \in 0 .. k - 1 : before[call.dst + j] = before[call.src + j]
NoEnd(a, k) == \A j \in 0 .. k - 1 : before[a + j] # NUL

(* The comparisons decide on the first byte in which their arguments       *)
(* differ, strncmp on none behind the end of a string (find_by_header and  *)
(* find_RSDP compare signatures with it); strlen finds the first NUL.      *)
Compared ==
  returned => LET k == i  a == call.dst  b == call.src  IN
    CASE call.fn = "memcmp" ->
           /\ Agree(k)
           /\ IF k = call.n THEN answer = 0
              ELSE k < call.n /\ answer = IF before[a + k] < before[b + k] THEN -1 ELSE 1
      [] call.fn = "strncmp" ->
           /\ Agree(k) /\ NoEnd(a, k)
           /\ IF answer # 0 THEN k < call.n /\ answer = before[a + k] - before[b + k]
              ELSE k = call.n \/ (before[a + k] = NUL /\ before[b + k] = NUL)
      [] call.fn = "strlen" -> answer = k /\ NoEnd(b, k) /\ before[b + k] = NUL
      [] OTHER -> TRUE

(* Calls do what their names promise.                                      *)
LibraryCorrect == MemoryMoved /\ Compared
=============================================================================
