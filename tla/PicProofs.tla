----------------------------- MODULE PicProofs ------------------------------
(***************************************************************************)
(* The two interrupt controllers, byte by byte: what init_pic writes to    *)
(* them, what their mask bytes hold, and which of their interrupts are in  *)
(* service.  The theorems are in KernelProofs, where the kernel runs next  *)
(* to them.                                                                *)
(***************************************************************************)
EXTENDS Pic, TLAPS

-----------------------------------------------------------------------------
(* Bytes and their bits                                                    *)

Bytes == 0 .. 255
Places == 0 .. 7

(* The bits of a byte, the lowest one first.                               *)
Bits(b) ==
  <<b % 2, (b \div 2) % 2, (b \div 4) % 2, (b \div 8) % 2,
    (b \div 16) % 2, (b \div 32) % 2, (b \div 64) % 2, (b \div 128) % 2>>

LEMMA Powers ==
  /\ 2 ^ 0 = 1 /\ 2 ^ 1 = 2 /\ 2 ^ 2 = 4 /\ 2 ^ 3 = 8
  /\ 2 ^ 4 = 16 /\ 2 ^ 5 = 32 /\ 2 ^ 6 = 64 /\ 2 ^ 7 = 128
BY SMT

LEMMA SmallPlaces ==
  ASSUME NEW k \in Places
  PROVE  k = 0 \/ k = 1 \/ k = 2 \/ k = 3 \/ k = 4 \/ k = 5 \/ k = 6 \/ k = 7
BY DEF Places

LEMMA PowersNat == ASSUME NEW k \in Places PROVE 2 ^ k \in Nat
<1>1. CASE k = 0
  BY <1>1, Powers
<1>2. CASE k = 1
  BY <1>2, Powers
<1>3. CASE k = 2
  BY <1>3, Powers
<1>4. CASE k = 3
  BY <1>4, Powers
<1>5. CASE k = 4
  BY <1>5, Powers
<1>6. CASE k = 5
  BY <1>6, Powers
<1>7. CASE k = 6
  BY <1>7, Powers
<1>8. CASE k = 7
  BY <1>8, Powers
<1> QED BY SmallPlaces, <1>1, <1>2, <1>3, <1>4, <1>5, <1>6, <1>7, <1>8

LEMMA BitsOf == ASSUME NEW b \in Nat, NEW k \in Places PROVE Bit(b, k) = Bits(b)[k + 1]
<1>1. b \div 1 = b
  OBVIOUS
<1>2. Bit(b, k) = Bits(b)[k + 1]
  <2>1. CASE k = 0
    BY <1>1, <2>1, Powers DEF Bit, Bits
  <2>2. CASE k = 1
    BY <1>1, <2>2, Powers DEF Bit, Bits
  <2>3. CASE k = 2
    BY <1>1, <2>3, Powers DEF Bit, Bits
  <2>4. CASE k = 3
    BY <1>1, <2>4, Powers DEF Bit, Bits
  <2>5. CASE k = 4
    BY <1>1, <2>5, Powers DEF Bit, Bits
  <2>6. CASE k = 5
    BY <1>1, <2>6, Powers DEF Bit, Bits
  <2>7. CASE k = 6
    BY <1>1, <2>7, Powers DEF Bit, Bits
  <2>8. CASE k = 7
    BY <1>1, <2>8, Powers DEF Bit, Bits
  <2> QED BY SmallPlaces, <2>1, <2>2, <2>3, <2>4, <2>5, <2>6, <2>7, <2>8
<1> QED BY <1>2

LEMMA BitValue == \A b \in Bytes, k \in Places : Bit(b, k) \in {0, 1}
<1>1. ASSUME NEW b \in Bytes, NEW k \in Places PROVE Bit(b, k) \in {0, 1}
  <2>1. b \in Nat /\ Bit(b, k) = Bits(b)[k + 1]
    BY BitsOf DEF Bytes
  <2>2. \A l \in 1 .. 8 : Bits(b)[l] \in {0, 1}
    BY <2>1 DEF Bits
  <2> QED BY <2>1, <2>2 DEF Places
<1> QED BY <1>1

(* A number is its bits, and any eight bits are those of a byte.           *)
Number(t) ==
  t[1] + 2 * t[2] + 4 * t[3] + 8 * t[4] + 16 * t[5] + 32 * t[6] + 64 * t[7] + 128 * t[8]

LEMMA Halves ==
  ASSUME NEW b \in Nat
  PROVE  /\ b \div 4 = (b \div 2) \div 2 /\ b \div 8 = (b \div 4) \div 2
         /\ b \div 16 = (b \div 8) \div 2 /\ b \div 32 = (b \div 16) \div 2
         /\ b \div 64 = (b \div 32) \div 2 /\ b \div 128 = (b \div 64) \div 2
<1>1. b \div 4 = (b \div 2) \div 2
  OBVIOUS
<1>2. b \div 8 = (b \div 4) \div 2
  OBVIOUS
<1>3. b \div 16 = (b \div 8) \div 2
  OBVIOUS
<1>4. b \div 32 = (b \div 16) \div 2
  OBVIOUS
<1>5. b \div 64 = (b \div 32) \div 2
  OBVIOUS
<1>6. b \div 128 = (b \div 64) \div 2
  OBVIOUS
<1> QED BY <1>1, <1>2, <1>3, <1>4, <1>5, <1>6

LEMMA OneBit ==
  ASSUME NEW x \in {0, 1}, NEW r \in Nat
  PROVE  x + 2 * r \in Nat /\ (x + 2 * r) % 2 = x /\ (x + 2 * r) \div 2 = r
OBVIOUS

LEMMA Composed ==
  ASSUME NEW t \in [1 .. 8 -> {0, 1}]
  PROVE  Number(t) \in Bytes /\ \A i \in 1 .. 8 : Bits(Number(t))[i] = t[i]
<1> DEFINE r6 == t[7] + 2 * t[8]
           r5 == t[6] + 2 * r6
           r4 == t[5] + 2 * r5
           r3 == t[4] + 2 * r4
           r2 == t[3] + 2 * r3
           r1 == t[2] + 2 * r2
           n == t[1] + 2 * r1
<1>1. /\ t[1] \in {0, 1} /\ t[2] \in {0, 1} /\ t[3] \in {0, 1} /\ t[4] \in {0, 1}
      /\ t[5] \in {0, 1} /\ t[6] \in {0, 1} /\ t[7] \in {0, 1} /\ t[8] \in {0, 1}
  OBVIOUS
<1>2. Number(t) = n /\ n \in Bytes
  BY <1>1 DEF Number, Bytes
<1>3. r6 \in Nat /\ r6 % 2 = t[7] /\ r6 \div 2 = t[8]
  BY <1>1
<1> HIDE DEF r6
<1>4. r5 \in Nat /\ r5 % 2 = t[6] /\ r5 \div 2 = r6
  BY <1>1, <1>3, OneBit
<1> HIDE DEF r5
<1>5. r4 \in Nat /\ r4 % 2 = t[5] /\ r4 \div 2 = r5
  BY <1>1, <1>4, OneBit
<1> HIDE DEF r4
<1>6. r3 \in Nat /\ r3 % 2 = t[4] /\ r3 \div 2 = r4
  BY <1>1, <1>5, OneBit
<1> HIDE DEF r3
<1>7. r2 \in Nat /\ r2 % 2 = t[3] /\ r2 \div 2 = r3
  BY <1>1, <1>6, OneBit
<1> HIDE DEF r2
<1>8. r1 \in Nat /\ r1 % 2 = t[2] /\ r1 \div 2 = r2
  BY <1>1, <1>7, OneBit
<1> HIDE DEF r1
<1>9. n \in Nat /\ n % 2 = t[1] /\ n \div 2 = r1
  BY <1>1, <1>8, OneBit
<1> HIDE DEF n
<1>10. /\ n \div 2 = r1 /\ n \div 4 = r2 /\ n \div 8 = r3 /\ n \div 16 = r4
       /\ n \div 32 = r5 /\ n \div 64 = r6 /\ n \div 128 = t[8]
  BY <1>3, <1>4, <1>5, <1>6, <1>7, <1>8, <1>9, Halves
<1>11. t[8] % 2 = t[8]
  BY <1>1
<1>12. Bits(n) = <<t[1], t[2], t[3], t[4], t[5], t[6], t[7], t[8]>>
  BY <1>3, <1>4, <1>5, <1>6, <1>7, <1>8, <1>9, <1>10, <1>11 DEF Bits
<1> QED BY <1>2, <1>12

LEMMA Decomposed ==
  ASSUME NEW b \in Bytes
  PROVE  Bits(b) \in [1 .. 8 -> {0, 1}] /\ Number(Bits(b)) = b
<1>0. b \in Nat
  BY DEF Bytes
<1>1. PICK x1 \in {0, 1}, h1 \in Nat : x1 = b % 2 /\ h1 = b \div 2 /\ b = x1 + 2 * h1
  BY <1>0
<1>2. PICK x2 \in {0, 1}, h2 \in Nat : x2 = h1 % 2 /\ h2 = h1 \div 2 /\ h1 = x2 + 2 * h2
  OBVIOUS
<1>3. PICK x3 \in {0, 1}, h3 \in Nat : x3 = h2 % 2 /\ h3 = h2 \div 2 /\ h2 = x3 + 2 * h3
  OBVIOUS
<1>4. PICK x4 \in {0, 1}, h4 \in Nat : x4 = h3 % 2 /\ h4 = h3 \div 2 /\ h3 = x4 + 2 * h4
  OBVIOUS
<1>5. PICK x5 \in {0, 1}, h5 \in Nat : x5 = h4 % 2 /\ h5 = h4 \div 2 /\ h4 = x5 + 2 * h5
  OBVIOUS
<1>6. PICK x6 \in {0, 1}, h6 \in Nat : x6 = h5 % 2 /\ h6 = h5 \div 2 /\ h5 = x6 + 2 * h6
  OBVIOUS
<1>7. PICK x7 \in {0, 1}, h7 \in Nat : x7 = h6 % 2 /\ h7 = h6 \div 2 /\ h6 = x7 + 2 * h7
  OBVIOUS
<1>8. b = x1 + 2 * x2 + 4 * x3 + 8 * x4 + 16 * x5 + 32 * x6 + 64 * x7 + 128 * h7
  <2>1. h5 = x6 + 2 * x7 + 4 * h7
    BY <1>6, <1>7
  <2>2. h3 = x4 + 2 * x5 + 4 * h5
    BY <1>4, <1>5
  <2>3. h1 = x2 + 2 * x3 + 4 * h3
    BY <1>2, <1>3
  <2>4. h3 = x4 + 2 * x5 + 4 * x6 + 8 * x7 + 16 * h7
    BY <2>1, <2>2
  <2>5. b = x1 + 2 * x2 + 4 * x3 + 8 * h3
    BY <1>1, <2>3
  <2> QED BY <2>4, <2>5
<1>9. h7 \in {0, 1} /\ h7 % 2 = h7
  BY <1>8 DEF Bytes
<1>10. /\ b \div 2 = h1 /\ b \div 4 = h2 /\ b \div 8 = h3 /\ b \div 16 = h4
       /\ b \div 32 = h5 /\ b \div 64 = h6 /\ b \div 128 = h7
  <2>1. b \div 2 = h1 /\ b \div 4 = h2
    BY <1>0, <1>1, <1>2, Halves
  <2>2. b \div 8 = h3 /\ b \div 16 = h4
    BY <1>0, <1>3, <1>4, <2>1, Halves
  <2>3. b \div 32 = h5 /\ b \div 64 = h6
    BY <1>0, <1>5, <1>6, <2>2, Halves
  <2>4. b \div 128 = h7
    BY <1>0, <1>7, <2>3, Halves
  <2> QED BY <2>1, <2>2, <2>3, <2>4
<1>11. Bits(b) = <<x1, x2, x3, x4, x5, x6, x7, h7>>
  BY <1>1, <1>2, <1>3, <1>4, <1>5, <1>6, <1>7, <1>9, <1>10 DEF Bits
<1>12. Bits(b) \in [1 .. 8 -> {0, 1}]
  BY <1>9, <1>11
<1>13. Number(Bits(b)) = x1 + 2 * x2 + 4 * x3 + 8 * x4 + 16 * x5 + 32 * x6 + 64 * x7 + 128 * h7
  BY <1>11 DEF Number
<1> QED BY <1>8, <1>12, <1>13

(* Replacing one bit of a byte reaches no other bit.                       *)
LEMMA PutBit ==
  ASSUME NEW b \in Bytes, NEW k \in Places, NEW v \in {0, 1}, NEW d,
         d = b + (v - Bit(b, k)) * 2 ^ k
  PROVE  d \in Bytes /\ \A l \in Places : Bit(d, l) = IF l = k THEN v ELSE Bit(b, l)
<1> DEFINE t == Bits(b)
           u == [t EXCEPT ![k + 1] = v]
<1>1. b \in Nat /\ k \in Nat /\ k + 1 \in 1 .. 8 /\ Bit(b, k) = t[k + 1]
  BY BitsOf DEF Bytes, Places
<1>2. t \in [1 .. 8 -> {0, 1}] /\ Number(t) = b
  BY Decomposed
<1> HIDE DEF t
<1>3. u \in [1 .. 8 -> {0, 1}]
  BY <1>1, <1>2
<1>4. Number(u) = Number(t) + (v - t[k + 1]) * 2 ^ k
  <2>0. /\ t[1] \in {0, 1} /\ t[2] \in {0, 1} /\ t[3] \in {0, 1} /\ t[4] \in {0, 1}
        /\ t[5] \in {0, 1} /\ t[6] \in {0, 1} /\ t[7] \in {0, 1} /\ t[8] \in {0, 1}
    BY <1>2
  <2>1. CASE k = 0
    BY <1>2, <2>0, <2>1, Powers DEF Number
  <2>2. CASE k = 1
    BY <1>2, <2>0, <2>2, Powers DEF Number
  <2>3. CASE k = 2
    BY <1>2, <2>0, <2>3, Powers DEF Number
  <2>4. CASE k = 3
    BY <1>2, <2>0, <2>4, Powers DEF Number
  <2>5. CASE k = 4
    BY <1>2, <2>0, <2>5, Powers DEF Number
  <2>6. CASE k = 5
    BY <1>2, <2>0, <2>6, Powers DEF Number
  <2>7. CASE k = 6
    BY <1>2, <2>0, <2>7, Powers DEF Number
  <2>8. CASE k = 7
    BY <1>2, <2>0, <2>8, Powers DEF Number
  <2> QED BY SmallPlaces, <2>1, <2>2, <2>3, <2>4, <2>5, <2>6, <2>7, <2>8
<1>5. d = Number(u)
  BY <1>1, <1>2, <1>4
<1> HIDE DEF u
<1>6. d \in Bytes /\ \A i \in 1 .. 8 : Bits(d)[i] = u[i]
  BY <1>3, <1>5, Composed
<1>7. ASSUME NEW l \in Places PROVE Bit(d, l) = IF l = k THEN v ELSE Bit(b, l)
  <2>1. d \in Nat /\ l \in Nat /\ l + 1 \in 1 .. 8
    BY <1>6 DEF Bytes, Places
  <2>2. Bit(d, l) = Bits(d)[l + 1] /\ Bit(b, l) = t[l + 1]
    BY <1>1, <2>1, BitsOf DEF t
  <2>3. u[l + 1] = IF l = k THEN v ELSE t[l + 1]
    BY <1>1, <1>2, <2>1 DEF u
  <2> QED BY <1>6, <2>1, <2>2, <2>3
<1> QED BY <1>6, <1>7

LEMMA SetBit ==
  ASSUME NEW b \in Bytes, NEW k \in Places, Bit(b, k) = 0
  PROVE  /\ b + 2 ^ k \in Bytes
         /\ \A l \in Places : Bit(b + 2 ^ k, l) = IF l = k THEN 1 ELSE Bit(b, l)
<1>1. b + 2 ^ k = b + (1 - Bit(b, k)) * 2 ^ k
  BY PowersNat DEF Bytes
<1> QED BY <1>1, PutBit

LEMMA ClearBit ==
  ASSUME NEW b \in Bytes, NEW k \in Places, Bit(b, k) = 1
  PROVE  /\ b - 2 ^ k \in Bytes
         /\ \A l \in Places : Bit(b - 2 ^ k, l) = IF l = k THEN 0 ELSE Bit(b, l)
<1>1. b - 2 ^ k = b + (0 - Bit(b, k)) * 2 ^ k
  BY PowersNat DEF Bytes
<1> QED BY <1>1, PutBit

LEMMA AllOrNone == \A l \in Places : Bit(255, l) = 1 /\ Bit(0, l) = 0
<1>1. /\ Bits(255) = <<1, 1, 1, 1, 1, 1, 1, 1>>
      /\ Bits(0) = <<0, 0, 0, 0, 0, 0, 0, 0>>
  BY DEF Bits
<1>2. ASSUME NEW l \in Places PROVE Bit(255, l) = 1 /\ Bit(0, l) = 0
  <2>1. Bit(255, l) = Bits(255)[l + 1] /\ Bit(0, l) = Bits(0)[l + 1]
    BY BitsOf
  <2> QED BY <1>1, <2>1, SmallPlaces
<1> QED BY <1>2

-----------------------------------------------------------------------------
(* The invariant and its steps                                             *)

PicShape ==
  /\ mask \in [Controllers -> Bytes]
  /\ asked \in [Controllers -> SUBSET Places] /\ Cascade \notin asked[1]
  /\ expected \in [Controllers -> 0 .. 4] /\ offset \in [Controllers -> Nat]
  /\ writes \in 0 .. 12
  /\ \/ saved = <<>> /\ writes \in {0, 12}
     \/ saved \in [Controllers -> Bytes] /\ writes < 12

(* What init_pic has told each controller.                                 *)
Sequence ==
  /\ expected[1] = CASE writes \in {1, 2} -> 2 [] writes \in {3, 4} -> 3
                     [] writes \in {5, 6} -> 4 [] OTHER -> 0
  /\ expected[2] = CASE writes \in {2, 3} -> 2 [] writes \in {4, 5} -> 3
                     [] writes \in {6, 7} -> 4 [] OTHER -> 0
  /\ offset[1] = IF writes < 3 THEN 8 ELSE 32
  /\ offset[2] = IF writes < 4 THEN 112 ELSE 40

(* The masks are closed at the end of init_pic and follow the drivers then.*)
Masks ==
  /\ writes < 12 => closed = 0 .. 15
  /\ writes = 11 => mask[1] = 255
  /\ writes = 12 => \A k \in Places : /\ Bit(mask[1], k) = 1 <=> k \in closed
                                      /\ Bit(mask[2], k) = 1 <=> k + 8 \in closed

(* The bits in service are those of the handler that runs.                 *)
Service ==
  /\ served \in [Controllers -> SUBSET Places]
  /\ code = 0 => served[1] = {} /\ served[2] = {}
  /\ code # 0 =>
       /\ writes = 12
       /\ \E j \in Places :
            \/ code = 32 + j /\ served[1] = {j} /\ served[2] = {}
            \/ code = 40 + j /\ served[1] = {Cascade} /\ served[2] = {j}

PicInv == PicShape /\ Sequence /\ Masks /\ Service

LEMMA RemapWrites ==
  /\ Len(Remap) = 12
  /\ Remap[1] = <<1, -1>> /\ Remap[2] = <<2, -1>> /\ Remap[3] = <<1, 32>> /\ Remap[4] = <<2, 40>>
  /\ Remap[5] = <<1, 4>> /\ Remap[6] = <<2, 2>> /\ Remap[7] = <<1, 1>> /\ Remap[8] = <<2, 1>>
  /\ Remap[9] = <<1, saved[1]>> /\ Remap[10] = <<2, saved[2]>>
  /\ Remap[11] = <<1, 255>> /\ Remap[12] = <<2, 255>>
BY DEF Remap, ICW1

LEMMA SavedMasks == \A m \in [Controllers -> Bytes] : m # <<>>
<1> SUFFICES ASSUME NEW m \in [Controllers -> Bytes] PROVE m # <<>>
  OBVIOUS
<1>1. 1 \in DOMAIN m /\ 1 \notin DOMAIN <<>>
  BY DEF Controllers
<1> QED BY <1>1

LEMMA Places0 == Cascade \in Places /\ 1 \in Controllers /\ 2 \in Controllers
BY DEF Places, Cascade, Controllers

LEMMA PicInitInv == PicInit => PicInv
<1> SUFFICES ASSUME PicInit PROVE PicInv
  OBVIOUS
<1>0. mask \in (0 .. 255) \X (0 .. 255)
  BY PicAssumption DEF PicAssumption, PicInit
<1>1. mask = <<mask[1], mask[2]>> /\ mask[1] \in Bytes /\ mask[2] \in Bytes
  BY <1>0 DEF Bytes
<1>2. PicShape
  BY <1>1 DEF PicInit, PicShape, Controllers
<1>3. Sequence /\ Masks /\ Service
  BY DEF PicInit, Sequence, Masks, Service, Controllers
<1> QED BY <1>2, <1>3 DEF PicInv

LEMMA InitWriteStep == ASSUME PicInv, InitWrite PROVE PicInv'
<1> DEFINE p == Remap[writes + 1][1]
           byte == Remap[writes + 1][2]
<1>1. /\ writes \in 0 .. 11 /\ writes' = writes + 1 /\ UNCHANGED <<drivers, served, code, closed>>
      /\ saved' = (IF writes' = 12 THEN <<>> ELSE saved) /\ saved \in [Controllers -> Bytes]
      /\ IF byte = -1 THEN StartSequence(p) ELSE WriteData(p, byte)
  BY RemapWrites DEF InitWrite, PicInv, PicShape, ICW1
<1>2. \/ writes = 0 /\ p = 1 /\ byte = -1
      \/ writes = 1 /\ p = 2 /\ byte = -1
      \/ writes = 2 /\ p = 1 /\ byte = 32
      \/ writes = 3 /\ p = 2 /\ byte = 40
      \/ writes = 4 /\ p = 1 /\ byte = 4
      \/ writes = 5 /\ p = 2 /\ byte = 2
      \/ writes = 6 /\ p = 1 /\ byte = 1
      \/ writes = 7 /\ p = 2 /\ byte = 1
      \/ writes = 8 /\ p = 1 /\ byte = saved[1]
      \/ writes = 9 /\ p = 2 /\ byte = saved[2]
      \/ writes = 10 /\ p = 1 /\ byte = 255
      \/ writes = 11 /\ p = 2 /\ byte = 255
  BY <1>1, RemapWrites
<1> HIDE DEF p, byte
<1> USE DEF Controllers
<1>0. saved[1] \in Bytes /\ saved[2] \in Bytes
  BY <1>1
<1>3. byte # -1 => byte \in Bytes
  BY <1>0, <1>2 DEF Bytes
<1>4. byte = -1 <=> writes \in {0, 1}
  BY <1>0, <1>2 DEF Bytes
<1>5. /\ p \in Controllers /\ asked' = (IF byte = -1 THEN [asked EXCEPT ![p] = {}] ELSE asked)
      /\ expected' = [expected EXCEPT ![p] = IF byte = -1 THEN 2
                                             ELSE IF @ \in {0, 4} THEN 0 ELSE @ + 1]
      /\ offset' = IF byte # -1 /\ expected[p] = 2 THEN [offset EXCEPT ![p] = (byte \div 8) * 8]
                   ELSE offset
      /\ mask' = IF byte = -1 THEN [mask EXCEPT ![p] = 0]
                 ELSE IF expected[p] = 0 THEN [mask EXCEPT ![p] = byte] ELSE mask
  BY <1>1, <1>2 DEF StartSequence, WriteData
<1>10. expected[p] = 2 /\ byte # -1 <=> writes \in {2, 3}
  BY <1>2, <1>3, <1>4 DEF PicInv, Sequence
<1>11. offset' = CASE writes = 2 -> [offset EXCEPT ![1] = 32]
                   [] writes = 3 -> [offset EXCEPT ![2] = 40]
                   [] OTHER -> offset
  <2>1. 32 \div 8 = 4 /\ 40 \div 8 = 5
    OBVIOUS
  <2>2. CASE writes = 2
    BY <1>2, <1>5, <1>10, <2>1, <2>2
  <2>3. CASE writes = 3
    BY <1>2, <1>5, <1>10, <2>1, <2>3
  <2>4. CASE writes \notin {2, 3}
    BY <1>5, <1>10, <2>4
  <2> QED BY <2>2, <2>3, <2>4
<1>6. Sequence'
  <2> DEFINE next == CASE writes \in {0, 1} -> 2 [] writes \in {2, 3} -> 3
                       [] writes \in {4, 5} -> 4 [] OTHER -> 0
  <2>4. /\ writes \in {2, 3} => expected[p] = 2
        /\ writes \in {4, 5} => expected[p] = 3
        /\ writes \in {6, 7} => expected[p] = 4
        /\ writes > 7 => expected[p] = 0
    BY <1>2 DEF PicInv, Sequence
  <2>5. next = IF byte = -1 THEN 2 ELSE IF expected[p] \in {0, 4} THEN 0 ELSE expected[p] + 1
    BY <1>1, <1>4, <2>4
  <2>6. expected' = [expected EXCEPT ![p] = next]
    BY <1>5, <2>5
  <2> HIDE DEF next
  <2>7. expected \in [Controllers -> 0 .. 4]
    BY DEF PicInv, PicShape
  <2>8. /\ expected'[1] = (IF p = 1 THEN next ELSE expected[1])
        /\ expected'[2] = (IF p = 2 THEN next ELSE expected[2])
    BY <1>5, <2>6, <2>7
  <2>9. p = 1 <=> writes \in {0, 2, 4, 6, 8, 10}
    BY <1>2
  <2>1. expected'[1] = CASE writes' \in {1, 2} -> 2 [] writes' \in {3, 4} -> 3
                         [] writes' \in {5, 6} -> 4 [] OTHER -> 0
    BY <1>1, <2>8, <2>9 DEF next, PicInv, Sequence
  <2>2. expected'[2] = CASE writes' \in {2, 3} -> 2 [] writes' \in {4, 5} -> 3
                         [] writes' \in {6, 7} -> 4 [] OTHER -> 0
    BY <1>1, <1>5, <2>8, <2>9 DEF next, PicInv, Sequence
  <2>3. /\ offset'[1] = IF writes' < 3 THEN 8 ELSE 32
        /\ offset'[2] = IF writes' < 4 THEN 112 ELSE 40
    BY <1>1, <1>11 DEF PicInv, PicShape, Sequence
  <2> QED BY <2>1, <2>2, <2>3 DEF Sequence
<1>7. PicShape'
  <2>0. 0 \in Bytes
    BY DEF Bytes
  <2>4. mask' \in [Controllers -> Bytes]
    BY <1>3, <1>5, <2>0 DEF PicInv, PicShape
  <2>1. asked' \in [Controllers -> SUBSET Places] /\ Cascade \notin asked'[1]
    BY <1>5 DEF PicInv, PicShape
  <2>2. expected' \in [Controllers -> 0 .. 4]
    BY <1>5 DEF PicInv, PicShape
  <2>3. offset' \in [Controllers -> Nat]
    BY <1>11 DEF PicInv, PicShape
  <2> QED BY <1>1, <2>1, <2>2, <2>3, <2>4 DEF PicShape
<1>8. Masks'
  <2>1. writes' >= 11 => byte = 255 /\ expected[p] = 0 /\ p = writes - 9
    BY <1>1, <1>2 DEF PicInv, Sequence
  <2>2. writes' >= 11 => mask' = [mask EXCEPT ![p] = 255]
    BY <1>1, <1>5, <2>1
  <2>3. closed' = 0 .. 15 /\ closed = 0 .. 15
    BY <1>1 DEF PicInv, Masks
  <2>4. writes' = 11 => mask'[1] = 255
    BY <1>1, <2>1, <2>2 DEF PicInv, PicShape
  <2>5. writes' = 12 => mask'[1] = 255 /\ mask'[2] = 255
    BY <1>1, <2>1, <2>2 DEF PicInv, PicShape, Masks
  <2>6. \A k \in Places : k \in closed' /\ k + 8 \in closed'
    BY <2>3 DEF Places
  <2> QED BY <1>1, <2>3, <2>4, <2>5, <2>6, AllOrNone DEF Masks
<1>9. Service'
  BY <1>1 DEF PicInv, Service
<1> QED BY <1>6, <1>7, <1>8, <1>9 DEF PicInv

LEMMA SaveMasksStep == ASSUME PicInv, SaveMasks PROVE PicInv'
BY SavedMasks DEF SaveMasks, PicInv, PicShape, Sequence, Masks, Service

LEMMA RaiseStep == ASSUME PicInv, NEW l \in Lines, Raise(l) PROVE PicInv'
<1>1. l \in 0 .. 15 /\ l # 2
  BY PicAssumption DEF PicAssumption, Cascade
<1>2. l \div 8 + 1 \in Controllers /\ l % 8 \in Places /\ (l \div 8 + 1 = 1 => l % 8 # Cascade)
  BY <1>1 DEF Controllers, Places, Cascade
<1>3. asked' = [asked EXCEPT ![l \div 8 + 1] = @ \cup {l % 8}]
  BY DEF Raise
<1>4. asked' \in [Controllers -> SUBSET Places] /\ Cascade \notin asked'[1]
  BY <1>2, <1>3 DEF PicInv, PicShape, Controllers
<1>5. UNCHANGED <<drivers, expected, offset, mask, served, saved, writes, code, closed>>
  BY DEF Raise
<1>6. PicShape'
  BY <1>4, <1>5 DEF PicInv, PicShape
<1>7. Sequence' /\ Masks' /\ Service'
  BY <1>5 DEF PicInv, Sequence, Masks, Service
<1> QED BY <1>6, <1>7 DEF PicInv

LEMMA DriverReady ==
  ASSUME PicInv, Driver PROVE writes = 12 /\ served[1] = {} /\ served[2] = {} /\ code = 0
<1>1. saved = <<>> /\ writes # 0 /\ code = 0
  BY DEF Driver, InitDone, PicInv, PicShape
<1>2. writes = 12
  BY <1>1, SavedMasks DEF PicInv, PicShape
<1> QED BY <1>1, <1>2 DEF PicInv, Service

LEMMA AllMasksStep == ASSUME PicInv, AllMasks PROVE PicInv'
<1>1. /\ writes = 12 /\ UNCHANGED <<drivers, expected, offset, asked, served, saved, writes, code>>
      /\ \/ mask' = <<0, 0>> /\ closed' = {}
         \/ mask' = <<255, 255>> /\ closed' = 0 .. 15
  BY DriverReady DEF AllMasks, SetMasks
<1>2. mask' \in [Controllers -> Bytes]
  BY <1>1 DEF Bytes, Controllers
<1>3. Masks'
  <2>1. \A k \in Places : k \in 0 .. 15 /\ k + 8 \in 0 .. 15
    BY DEF Places
  <2> QED BY <1>1, <2>1, AllOrNone DEF Masks
<1>4. PicShape' /\ Sequence' /\ Service'
  BY <1>1, <1>2 DEF PicInv, PicShape, Sequence, Service
<1> QED BY <1>3, <1>4 DEF PicInv

LEMMA MaskStep ==
  ASSUME PicInv, writes = 12, UNCHANGED <<expected, offset, asked, served, saved, writes, code>>,
         NEW p \in Controllers, NEW k \in Places, NEW v \in {0, 1},
         mask' \in [Controllers -> Bytes],
         \A q \in Controllers, l \in Places :
           Bit(mask'[q], l) = IF q = p /\ l = k THEN v ELSE Bit(mask[q], l),
         closed' = IF v = 1 THEN closed \cup {k + 8 * (p - 1)} ELSE closed \ {k + 8 * (p - 1)}
  PROVE  PicInv'
<1>1. \A l \in Places : Bit(mask'[1], l) = 1 <=> l \in closed'
  BY DEF Places, Controllers, PicInv, Masks
<1>2. \A l \in Places : Bit(mask'[2], l) = 1 <=> l + 8 \in closed'
  BY DEF Places, Controllers, PicInv, Masks
<1>3. Masks'
  BY <1>1, <1>2 DEF Masks
<1> QED BY <1>3 DEF PicInv, PicShape, Sequence, Service

LEMMA SetMaskStep == ASSUME PicInv, NEW line \in Lines, IRQ_set_mask(line) PROVE PicInv'
<1> DEFINE p == IF line < 8 THEN 1 ELSE 2
           k == IF line < 8 THEN line ELSE line - 8
<1>1. /\ Driver /\ closed' = closed \cup {line}
      /\ mask' = [mask EXCEPT ![p] = IF Bit(@, k) = 0 THEN @ + 2 ^ k ELSE @]
      /\ UNCHANGED <<expected, offset, asked, served, saved, writes, code>>
  BY DEF IRQ_set_mask, SetMasks
<1>2. p \in Controllers /\ k \in Places /\ line = k + 8 * (p - 1)
  BY PicAssumption DEF PicAssumption, Controllers, Places
<1> HIDE DEF p, k
<1>3. mask \in [Controllers -> Bytes] /\ mask[p] \in Bytes
  BY <1>2 DEF PicInv, PicShape
<1>4. mask'[p] \in Bytes /\ \A l \in Places : Bit(mask'[p], l) = IF l = k THEN 1 ELSE Bit(mask[p], l)
  <2>1. CASE Bit(mask[p], k) = 0
    BY <1>1, <1>2, <1>3, <2>1, SetBit
  <2>2. CASE Bit(mask[p], k) # 0
    <3>1. Bit(mask[p], k) = 1
      BY <1>2, <1>3, <2>2, BitValue
    <3>2. mask'[p] = mask[p]
      BY <1>1, <1>3, <2>2
    <3> QED BY <1>3, <3>1, <3>2
  <2> QED BY <2>1, <2>2
<1>5. \A q \in Controllers : q # p => mask'[q] = mask[q]
  BY <1>1, <1>3
<1>6. mask' \in [Controllers -> Bytes]
  BY <1>1, <1>2, <1>3, <1>4
<1>7. \A q \in Controllers, l \in Places :
        Bit(mask'[q], l) = IF q = p /\ l = k THEN 1 ELSE Bit(mask[q], l)
  BY <1>4, <1>5
<1> QED BY <1>1, <1>2, <1>6, <1>7, DriverReady, MaskStep

LEMMA ClearMaskStep == ASSUME PicInv, NEW line \in Lines, IRQ_clear_mask(line) PROVE PicInv'
<1> DEFINE p == IF line < 8 THEN 1 ELSE 2
           k == IF line < 8 THEN line ELSE line - 8
<1>1. /\ Driver /\ closed' = closed \ {line}
      /\ mask' = [mask EXCEPT ![p] = IF Bit(@, k) = 1 THEN @ - 2 ^ k ELSE @]
      /\ UNCHANGED <<expected, offset, asked, served, saved, writes, code>>
  BY DEF IRQ_clear_mask, SetMasks
<1>2. p \in Controllers /\ k \in Places /\ line = k + 8 * (p - 1)
  BY PicAssumption DEF PicAssumption, Controllers, Places
<1> HIDE DEF p, k
<1>3. mask \in [Controllers -> Bytes] /\ mask[p] \in Bytes
  BY <1>2 DEF PicInv, PicShape
<1>4. mask'[p] \in Bytes /\ \A l \in Places : Bit(mask'[p], l) = IF l = k THEN 0 ELSE Bit(mask[p], l)
  <2>1. CASE Bit(mask[p], k) = 1
    BY <1>1, <1>2, <1>3, <2>1, ClearBit
  <2>2. CASE Bit(mask[p], k) # 1
    <3>1. Bit(mask[p], k) = 0
      BY <1>2, <1>3, <2>2, BitValue
    <3>2. mask'[p] = mask[p]
      BY <1>1, <1>3, <2>2
    <3> QED BY <1>3, <3>1, <3>2
  <2> QED BY <2>1, <2>2
<1>5. \A q \in Controllers : q # p => mask'[q] = mask[q]
  BY <1>1, <1>3
<1>6. mask' \in [Controllers -> Bytes]
  BY <1>1, <1>2, <1>3, <1>4
<1>7. \A q \in Controllers, l \in Places :
        Bit(mask'[q], l) = IF q = p /\ l = k THEN 0 ELSE Bit(mask[q], l)
  BY <1>4, <1>5
<1> QED BY <1>1, <1>2, <1>6, <1>7, DriverReady, MaskStep

LEMMA LowestIn ==
  ASSUME NEW S \in SUBSET Places, S # {}
  PROVE  Lowest(S) \in S
<1> DEFINE Low(k) == \A l \in S : k <= l
<1>1. \E k \in S : Low(k)
  <2>0. \/ 0 \in S \/ 1 \in S \/ 2 \in S \/ 3 \in S \/ 4 \in S \/ 5 \in S \/ 6 \in S \/ 7 \in S
    BY SmallPlaces
  <2>1. CASE 0 \in S
    BY <2>1 DEF Places
  <2>2. CASE 0 \notin S /\ 1 \in S
    BY <2>2 DEF Places
  <2>3. CASE 0 \notin S /\ 1 \notin S /\ 2 \in S
    BY <2>3 DEF Places
  <2>4. CASE 0 \notin S /\ 1 \notin S /\ 2 \notin S /\ 3 \in S
    BY <2>4 DEF Places
  <2>5. CASE 0 \notin S /\ 1 \notin S /\ 2 \notin S /\ 3 \notin S /\ 4 \in S
    BY <2>5 DEF Places
  <2>6. CASE 0 \notin S /\ 1 \notin S /\ 2 \notin S /\ 3 \notin S /\ 4 \notin S /\ 5 \in S
    BY <2>6 DEF Places
  <2>7. CASE /\ 0 \notin S /\ 1 \notin S /\ 2 \notin S /\ 3 \notin S
             /\ 4 \notin S /\ 5 \notin S /\ 6 \in S
    BY <2>7 DEF Places
  <2>8. CASE /\ 0 \notin S /\ 1 \notin S /\ 2 \notin S /\ 3 \notin S
             /\ 4 \notin S /\ 5 \notin S /\ 6 \notin S /\ 7 \in S
    BY <2>8 DEF Places
  <2> QED BY <2>0, <2>1, <2>2, <2>3, <2>4, <2>5, <2>6, <2>7, <2>8
<1>2. (CHOOSE k \in S : Low(k)) \in S
  BY <1>1
<1> QED BY <1>2 DEF Lowest

LEMMA LowestOne == \A j \in Places : Lowest({j}) = j
<1> SUFFICES ASSUME NEW j \in Places PROVE Lowest({j}) = j
  OBVIOUS
<1>1. {j} \in SUBSET Places /\ {j} # {}
  OBVIOUS
<1>2. Lowest({j}) \in {j}
  BY <1>1, LowestIn
<1> QED BY <1>2

LEMMA AcknowledgeStep == ASSUME PicInv, Acknowledge PROVE PicInv'
<1> DEFINE k == Lowest(Requests(1))
           p == IF k = Cascade THEN 2 ELSE 1
           j == IF k = Cascade THEN Lowest(Requests(2)) ELSE k
<1>1. /\ writes = 12 /\ served[1] = {} /\ served[2] = {} /\ Requests(1) # {}
      /\ served' = [q \in Controllers |-> served[q] \cup
                      IF q = 1 THEN {k} ELSE IF p = 2 THEN {j} ELSE {}]
      /\ asked' = [asked EXCEPT ![p] = @ \ {j}] /\ code' = offset[p] + j
      /\ UNCHANGED <<expected, offset, mask, saved, writes, closed>>
  BY DriverReady DEF Acknowledge
<1>2. /\ Requests(1) \in SUBSET Places /\ Requests(2) \in SUBSET Places
      /\ Cascade \in Requests(1) => Requests(2) # {}
  <2>1. expected[2] = 0
    BY <1>1 DEF PicInv, Sequence
  <2>2. Requests(2) = {l \in asked[2] : /\ expected[2] = 0 /\ Bit(mask[2], l) = 0
                                       /\ \A m \in served[2] : l < m}
    BY DEF Requests
  <2>3. /\ asked[1] \subseteq Places /\ asked[2] \subseteq Places
        /\ Cascade \notin asked[1] /\ Cascade \in Places
    BY Places0 DEF PicInv, PicShape
  <2>4. Requests(1) \subseteq asked[1] \cup {Cascade}
    BY DEF Requests
  <2>5. Cascade \in Requests(1) =>
          \E l \in asked[2] : Bit(mask[2], l) = 0 /\ \A m \in served[2] : l < m
    BY <2>3 DEF Requests
  <2> QED BY <2>1, <2>2, <2>3, <2>4, <2>5
<1>3. k \in Requests(1) /\ k \in Places /\ j \in Places /\ p \in Controllers
  BY <1>1, <1>2, LowestIn, Places0
<1>4. /\ k = Cascade => p = 2
      /\ k # Cascade => p = 1 /\ j = k
  OBVIOUS
<1> HIDE DEF k, p, j
<1>5. asked' \in [Controllers -> SUBSET Places] /\ Cascade \notin asked'[1]
  BY <1>1, <1>3 DEF PicInv, PicShape, Controllers
<1>6. offset[1] = 32 /\ offset[2] = 40
  BY <1>1 DEF PicInv, Sequence
<1>7. /\ served' \in [Controllers -> SUBSET Places]
      /\ \/ code' = 32 + j /\ served'[1] = {j} /\ served'[2] = {}
         \/ code' = 40 + j /\ served'[1] = {Cascade} /\ served'[2] = {j}
  BY <1>1, <1>3, <1>4, <1>6 DEF Controllers
<1>8. code' # 0
  BY <1>3, <1>7 DEF Places
<1>9. Service'
  BY <1>1, <1>3, <1>7, <1>8 DEF Service
<1> QED BY <1>1, <1>5, <1>9 DEF PicInv, PicShape, Sequence, Masks

(* Both EOIs of a line of controller 2, one of a line of controller 1, are *)
(* what is in service.                                                     *)
LEMMA LegacyHandlerStep == ASSUME PicInv, LegacyHandler PROVE PicInv'
<1>1. /\ code # 0 /\ code' = 0 /\ writes = 12
      /\ UNCHANGED <<drivers, expected, offset, mask, asked, saved, writes, closed>>
      /\ code >= 32 /\ code < 48 => PIC_sendEOI(code - 32)
  BY DEF LegacyHandler, PicInv, Service
<1>2. PICK j \in Places :
        \/ code = 32 + j /\ served[1] = {j} /\ served[2] = {}
        \/ code = 40 + j /\ served[1] = {Cascade} /\ served[2] = {j}
  BY <1>1 DEF PicInv, Service
<1>3. code >= 32 /\ code < 48 /\ (code - 32 >= 8 <=> code = 40 + j)
  BY <1>2 DEF Places
<1>4. served' = [p \in Controllers |->
                   IF p = 1 \/ code - 32 >= 8 THEN EndOfInterrupt(p) ELSE served[p]]
  BY <1>1, <1>3 DEF PIC_sendEOI
<1>5. \A p \in Controllers, m \in Places : served[p] = {m} => EndOfInterrupt(p) = {}
  BY LowestOne DEF EndOfInterrupt
<1>6. served'[1] = {} /\ served'[2] = {}
  BY <1>2, <1>3, <1>4, <1>5, Places0 DEF Controllers, Places
<1>7. served' \in [Controllers -> SUBSET Places]
  BY <1>4, <1>6 DEF Controllers
<1> QED BY <1>1, <1>6, <1>7 DEF PicInv, PicShape, Sequence, Masks, Service

LEMMA PicNextInv == ASSUME PicInv, PicKernel \/ PicDrivers \/ PicDevices PROVE PicInv'
<1>1. CASE PicKernel
  BY <1>1, SaveMasksStep, InitWriteStep DEF PicKernel
<1>2. CASE PicDrivers
  BY <1>2, AllMasksStep, SetMaskStep, ClearMaskStep, AcknowledgeStep, LegacyHandlerStep DEF PicDrivers
<1>3. CASE PicDevices
  BY <1>3, RaiseStep DEF PicDevices
<1> QED BY <1>1, <1>2, <1>3

LEMMA PicKept == ASSUME PicInv, UNCHANGED picVars PROVE PicInv'
<1>1. PicShape' /\ Sequence'
  BY DEF picVars, PicInv, PicShape, Sequence
<1>2. Masks' /\ Service'
  BY DEF picVars, PicInv, Masks, Service
<1> QED BY <1>1, <1>2 DEF PicInv

(* init_pic is over when it has made its last write.                       *)
LEMMA AllWritten == ASSUME PicInv, InitDone PROVE writes = 12 /\ saved = <<>>
BY SavedMasks DEF InitDone, PicInv, PicShape

LEMMA DriversServedInv == ASSUME PicInv PROVE DriversServed
<1>1. NothingServed
  <2>1. ASSUME code = 0 PROVE served = <<{}, {}>>
    <3>1. served[1] = {} /\ served[2] = {} /\ served \in [{1, 2} -> SUBSET Places]
      BY <2>1 DEF PicInv, Service, Controllers
    <3>2. served = [q \in {1, 2} |-> {}]
      BY <3>1
    <3>3. <<{}, {}>> = [q \in {1, 2} |-> {}]
      OBVIOUS
    <3> QED BY <3>2, <3>3
  <2> QED BY <2>1 DEF NothingServed
<1>2. ASSUME InitDone, NEW l \in 0 .. 15
      PROVE  (Bit(mask[l \div 8 + 1], l % 8) = 1) <=> l \in closed
  <2>1. \A k \in Places : /\ Bit(mask[1], k) = 1 <=> k \in closed
                          /\ Bit(mask[2], k) = 1 <=> k + 8 \in closed
    BY <1>2, AllWritten DEF PicInv, Masks
  <2>2. CASE l < 8
    <3>1. l \div 8 + 1 = 1 /\ l % 8 = l /\ l \in Places
      BY <2>2 DEF Places
    <3> QED BY <2>1, <3>1
  <2>3. CASE ~(l < 8)
    <3>1. l \div 8 + 1 = 2 /\ l % 8 = l - 8 /\ l - 8 \in Places /\ (l - 8) + 8 = l
      BY <2>3 DEF Places
    <3> QED BY <2>1, <3>1
  <2> QED BY <2>2, <2>3
<1> QED BY <1>1, <1>2 DEF DriversServed, MasksAsAsked

(* Without drivers the masks stay as init_pic leaves them.                 *)
LEMMA NoneRequested == ASSUME PicInv, InitDone, closed = 0 .. 15 PROVE Requests(1) = {}
<1>1. \A k \in Places : Bit(mask[1], k) = 1
  <2>1. \A k \in Places : Bit(mask[1], k) = 1 <=> k \in closed
    BY AllWritten DEF PicInv, Masks
  <2>2. \A k \in Places : k \in closed
    BY DEF Places
  <2> QED BY <2>1, <2>2
<1>2. asked[1] \subseteq Places /\ Cascade \in Places
  BY Places0 DEF PicInv, PicShape
<1>3. Requests(1) \subseteq {k \in asked[1] \cup {Cascade} : Bit(mask[1], k) = 0}
  BY DEF Requests
<1> QED BY <1>1, <1>2, <1>3

LEMMA RemappedOffsets == ASSUME PicInv, InitDone PROVE offset[1] = 32 /\ offset[2] = 40
BY AllWritten DEF PicInv, Sequence
=============================================================================
