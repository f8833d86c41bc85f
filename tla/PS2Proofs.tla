----------------------------- MODULE PS2Proofs ------------------------------
(***************************************************************************)
(* init_ps2 under the discipline of PS2Discipline, whatever the firmware   *)
(* left, the tests find and the keyboard sends: every byte it reads is the *)
(* answer it waits for.  The invariant says for each step of init_ps2 what *)
(* it has just written, or what is still owed to it, by whom.              *)
(***************************************************************************)
EXTENDS PS2Discipline, SequenceTheorems, TLAPS

Items == [byte : Byte, of : Nat]
Registers == {"command", "data", "none"}
Variables ==
  [config : Byte, first : BOOLEAN, second : BOOLEAN, port : Ports, res : Byte,
   device : [1 .. 2 -> Byte]]

PS2Type ==
  /\ k \in Variables /\ irqs \subseteq Ports /\ running \in {None} \cup Ports
  /\ input \in [byte : Byte, register : Registers]
  /\ expect \in {"port_1", "port_2", "config"} /\ config \in Byte
  /\ answers \in Seq(Items) /\ queue \in [Ports -> Seq(Items)]
  /\ out \in [byte : Byte, of : Nat, port : 0 .. 2] /\ sent \in Nat

-----------------------------------------------------------------------------
(* What is owed *)

Waiting(p) == IF p = 0 THEN answers ELSE queue[p]

Matches(items, bytes) ==
  /\ Len(items) = Len(bytes)
  /\ \A i \in 1 .. Len(bytes) : items[i] = Item(bytes[i], sent)

(* The first byte may be in the output buffer.                             *)
Comes(items, bytes) ==
  \/ ~Full /\ Matches(items, bytes)
  \/ /\ Full /\ bytes # <<>> /\ out.byte = Head(bytes) /\ out.of = sent
     /\ Matches(items, Tail(bytes))

Free(x) == input = NoInput /\ expect = x

(* The controller, 0, or a device owes bytes, and nobody anything else.    *)
Owes(p, bytes) ==
  /\ Free("port_1") /\ Comes(Waiting(p), bytes)
  /\ \A other \in {0, 1, 2} \ {p} : Waiting(other) = <<>>
  /\ p = 0 => out.port # 2

Calm == ~Full /\ \A p \in {0, 1, 2} : Waiting(p) = <<>>
Rest == Calm /\ Free("port_1")

(* A byte was written and not taken yet.                                   *)
Wrote(register, b) == Calm /\ input = [byte |-> b, register |-> register]
Ordered(b) == Wrote("command", b)
Directed == IF k.port = 1 THEN "port_1" ELSE "port_2"
Asked(x, b) == Wrote("data", b) /\ expect = x

OwesByte == \E b \in Byte : Owes(0, <<b>>)

-----------------------------------------------------------------------------
(* Where init_ps2 is *)

Early == {"begin", "disable_1", "disable_2", "flush"}
Resting ==
  {"get_config", "set_config", "restore", "redisable", "test_2", "enable_1", "port_2", "detect",
   "direct", "identify", "scan_on", "get_config_2", "set_config_2"}
Configuring == {"out_config", "out_restore", "out_config_2"}
Configured == {"test", "dual"}
Switching == {"get_dual", "test_1", "enable_2", "reset_1"}
Disabled == {"get_config", "config", "set_config", "out_config"}
Enabling == {"get_config_2", "config_2", "set_config_2", "out_config_2"}
SecondRound == {"direct", "scan_on", "scan_on_ack", "done"} \cup Enabling
Detecting == {"detect", "scan_off", "scan_off_ack", "identify", "identify_ack", "id", "id_2"}

Firmware ==
  /\ \A p \in {0, 1, 2} : Waiting(p) = <<>>
  /\ out.port # 2 /\ expect = "port_1"
  /\ pc \in {"begin", "disable_1"} => input = NoInput
  /\ input # NoInput =>
       input = [byte |-> IF pc = "disable_2" THEN DISABLE_1 ELSE DISABLE_2,
                register |-> "command"]
  /\ pc = "flush" \/ (pc = "disable_2" /\ input = NoInput) => 4 \in config

Situation ==
  /\ pc \in Early => Firmware
  /\ pc \in Resting => Rest
  /\ pc \in Configuring => Ordered(SET_CONFIG) \/ (Calm /\ Free("config"))
  /\ pc \in Configured => Asked("config", k.config) \/ Rest
  /\ pc \in Switching => Rest \/ \E b \in {ENABLE_1, ENABLE_2, DISABLE_2} : Ordered(b)
  /\ pc = "reset_2" \/ (pc = "scan_off" /\ k.port = 2)
       => Ordered(TO_PORT_2) \/ (Calm /\ Free("port_2"))
  /\ pc = "scan_off" /\ k.port = 1 => Rest
  /\ pc \in {"config", "dual_config"} => Ordered(GET_CONFIG) \/ OwesByte
  /\ pc = "config_2" => Ordered(GET_CONFIG) \/ \E b \in Byte : 4 \notin b /\ Owes(0, <<b>>)
  /\ pc = "test_result" => Ordered(TEST) \/ OwesByte
  /\ pc = "works_1" => Ordered(TEST_1) \/ OwesByte
  /\ pc = "works_2" => Ordered(TEST_2) \/ OwesByte
  /\ pc = "ack_1" => Asked("port_1", RESET) \/ Owes(1, <<ACK, SELF_TEST_OK>>)
  /\ pc = "result_1" => Owes(1, <<SELF_TEST_OK>>)
  /\ pc = "ack_2" => Asked("port_2", RESET) \/ Owes(2, <<RESEND>>)
  /\ pc = "scan_off_ack" /\ k.port = 1 => Asked("port_1", SCAN_OFF) \/ Owes(1, <<ACK>>)
  /\ pc = "scan_off_ack" /\ k.port = 2 => Asked("port_2", SCAN_OFF) \/ Owes(2, <<RESEND>>)
  /\ pc = "identify_ack" =>
       Asked("port_1", IDENTIFY) \/ Owes(1, <<ACK, KEYBOARD_ID[1], KEYBOARD_ID[2]>>)
  /\ pc = "id" => Owes(1, <<KEYBOARD_ID[1], KEYBOARD_ID[2]>>)
  /\ pc = "id_2" => Owes(1, <<KEYBOARD_ID[2]>>) /\ k.res = KEYBOARD_ID[1]
  /\ pc = "scan_on_ack" => Asked("port_1", SCAN_ON) \/ (Owes(1, <<ACK>>) /\ 4 \notin config)
  /\ pc = "done" =>
       \/ input = [byte |-> k.config, register |-> "data"] /\ expect = "config"
       \/ input = NoInput /\ IRQS \subseteq config /\ 4 \notin config
  /\ pc # "result_2"

(* The first port is off until no interrupt is enabled; both are until the *)
(* last byte of init_ps2 is taken.                                         *)
Labels == Reads \cup Over \cup Early \cup Resting \cup Configuring \cup Configured \cup Switching
            \cup {"reset_2", "scan_off"}

Masks ==
  /\ pc \in Labels
  /\ pc \notin Over => irqs = {} /\ running = None
  /\ pc \in Disabled \/ (pc = "test" /\ input # NoInput) => 4 \in config
  /\ pc \notin Early \cup Disabled \cup Over /\ (pc # "test" \/ input = NoInput)
       => config \cap IRQS = {}
  /\ pc \in Enabling => 4 \notin config
  /\ pc \in {"set_config", "out_config", "test", "test_result", "restore", "out_restore", "dual"}
       => k.config \cap IRQS = {}
  /\ pc \in {"set_config_2", "out_config_2", "done"}
       => IRQS \subseteq k.config /\ 4 \notin k.config

Identities ==
  /\ pc \in SecondRound => k.port = 2
  /\ k.port = 2 => pc \in SecondRound \cup Detecting
  /\ k.port = 2 /\ k.first => k.device[1] = KEYBOARD_ID[1]

PS2Inv ==
  /\ PS2Type /\ Masks
  /\ IF pc \in {"absent", "failed"} THEN input = NoInput ELSE Situation /\ Identities

-----------------------------------------------------------------------------
(* What the bytes mean to the controller *)

LEMMA Bytes ==
  /\ ACK \in Byte /\ RESEND \in Byte /\ SELF_TEST_OK \in Byte /\ CONTROLLER_OK \in Byte
  /\ CONTROLLER_BAD \in Byte /\ KEYBOARD_ID[1] \in Byte /\ KEYBOARD_ID[2] \in Byte
  /\ {} \in Byte /\ {0} \in Byte /\ KEEP \in Byte /\ IRQS \in Byte
  /\ RESEND # ACK
<1>1. 2 \in RESEND /\ 2 \notin ACK
  BY DEF RESEND, ACK
<1>2. RESEND # ACK
  BY <1>1
<1> QED
  BY <1>2 DEF ACK, RESEND, SELF_TEST_OK, CONTROLLER_OK, CONTROLLER_BAD, KEYBOARD_ID, KEEP,
              IRQS, Byte

LEMMA Commands ==
  /\ DISABLE_1 \in Byte /\ DISABLE_2 \in Byte /\ ENABLE_1 \in Byte /\ ENABLE_2 \in Byte
  /\ GET_CONFIG \in Byte /\ SET_CONFIG \in Byte /\ TEST \in Byte /\ TEST_1 \in Byte
  /\ TEST_2 \in Byte /\ TO_PORT_2 \in Byte /\ RESET \in Byte /\ SCAN_OFF \in Byte
  /\ SCAN_ON \in Byte /\ IDENTIFY \in Byte
BY DEF DISABLE_1, DISABLE_2, ENABLE_1, ENABLE_2, GET_CONFIG, SET_CONFIG, TEST, TEST_1, TEST_2,
       TO_PORT_2, RESET, SCAN_OFF, SCAN_ON, IDENTIFY, Byte

(* The commands are different bytes: 0xAD 0xA7 0xAE 0xA8 0x20 0x60 0xAA    *)
(* 0xAB 0xA9 0xD4.                                                         *)
LEMMA CommandsDiffer ==
  /\ DISABLE_1 \notin {ENABLE_1, DISABLE_2, ENABLE_2, SET_CONFIG, TO_PORT_2, GET_CONFIG,
                       TEST, TEST_1, TEST_2}
  /\ ENABLE_1 \notin {DISABLE_2, ENABLE_2, SET_CONFIG, TO_PORT_2, GET_CONFIG,
                      TEST, TEST_1, TEST_2}
  /\ DISABLE_2 \notin {ENABLE_2, SET_CONFIG, TO_PORT_2, GET_CONFIG, TEST, TEST_1, TEST_2}
  /\ ENABLE_2 \notin {SET_CONFIG, TO_PORT_2, GET_CONFIG, TEST, TEST_1, TEST_2}
  /\ SET_CONFIG \notin {TO_PORT_2, GET_CONFIG, TEST, TEST_1, TEST_2}
  /\ TO_PORT_2 \notin {GET_CONFIG, TEST, TEST_1, TEST_2}
  /\ GET_CONFIG \notin {TEST, TEST_1, TEST_2}
  /\ TEST \notin {TEST_1, TEST_2} /\ TEST_1 # TEST_2
<1> DEFINE D == {1, 2, 3, 4, 6}
<1>1. /\ DISABLE_1 \cap D = {2, 3} /\ ENABLE_1 \cap D = {1, 2, 3}
      /\ DISABLE_2 \cap D = {1, 2} /\ ENABLE_2 \cap D = {3}
      /\ SET_CONFIG \cap D = {6} /\ TO_PORT_2 \cap D = {2, 4, 6}
      /\ GET_CONFIG \cap D = {} /\ TEST \cap D = {1, 3}
      /\ TEST_1 \cap D = {1, 3} /\ TEST_2 \cap D = {3}
  BY DEF DISABLE_1, DISABLE_2, ENABLE_1, ENABLE_2, GET_CONFIG, SET_CONFIG, TEST, TEST_1, TEST_2,
         TO_PORT_2
<1>2. 0 \in TEST_1 /\ 0 \notin TEST /\ 0 \in TEST_2 /\ 0 \notin ENABLE_2
  BY DEF TEST_1, TEST, TEST_2, ENABLE_2
<1> QED
  BY <1>1, <1>2

LEMMA TakesOrder ==
  ASSUME NEW b, TakesCommand(b)
  PROVE  /\ UNCHANGED <<queue, scanning>>
         /\ b \in {DISABLE_1, DISABLE_2, ENABLE_1, ENABLE_2}
              => UNCHANGED answers /\ expect' = "port_1"
         /\ b = DISABLE_1 => config' = config \cup {4}
         /\ b = ENABLE_1 => config' = config \ {4}
         /\ b = DISABLE_2 => config' = config \cup {5}
         /\ b = ENABLE_2 => config' = config \ {5}
         /\ b = SET_CONFIG => UNCHANGED <<config, answers>> /\ expect' = "config"
         /\ b = TO_PORT_2 => UNCHANGED <<config, answers>> /\ expect' = "port_2"
         /\ b \in {GET_CONFIG, TEST, TEST_1, TEST_2} => UNCHANGED config /\ expect' = "port_1"
         /\ b = GET_CONFIG => Answer(config)
         /\ b \in {TEST, TEST_1, TEST_2} => \E x \in Byte : Answer(x)
<1> USE CommandsDiffer, KeyboardOnly
<1>1. /\ b = DISABLE_1 => config' = config \cup {4}
      /\ b = ENABLE_1 => config' = config \ {4}
      /\ b = DISABLE_2 => config' = config \cup {5}
      /\ b = ENABLE_2 => config' = config \ {5}
  BY DEF TakesCommand
<1>2. b \in {SET_CONFIG, TO_PORT_2, GET_CONFIG, TEST, TEST_1, TEST_2} => UNCHANGED config
  BY DEF TakesCommand
<1>3. /\ b = SET_CONFIG => expect' = "config"
      /\ b = TO_PORT_2 => expect' = "port_2"
  BY DEF TakesCommand
<1>4. b \in {DISABLE_1, DISABLE_2, ENABLE_1, ENABLE_2, GET_CONFIG, TEST, TEST_1, TEST_2}
        => expect' = "port_1"
  BY DEF TakesCommand
<1>5. b \in {DISABLE_1, DISABLE_2, ENABLE_1, ENABLE_2, SET_CONFIG, TO_PORT_2}
        => UNCHANGED answers
  BY DEF TakesCommand
<1>6. /\ b = GET_CONFIG => Answer(config)
      /\ b \in {TEST, TEST_1, TEST_2} => \E x \in Byte : Answer(x)
  BY Bytes DEF TakesCommand
<1> QED BY <1>1, <1>2, <1>3, <1>4, <1>5, <1>6 DEF TakesCommand

-----------------------------------------------------------------------------
(* How what is owed comes through the output buffer *)

LEMMA WaitingType ==
  ASSUME PS2Type, NEW p \in {0, 1, 2}
  PROVE  Waiting(p) \in Seq(Items)
BY DEF PS2Type, Waiting, Ports

LEMMA OneByte ==
  ASSUME NEW b \in Byte
  PROVE  /\ <<b>> \in Seq(Byte) /\ <<b>> # <<>> /\ Head(<<b>>) = b /\ Tail(<<b>>) = <<>>
         /\ Len(<<b>>) = 1 /\ <<b>>[1] = b
OBVIOUS

LEMMA NothingOwed ==
  ASSUME PS2Type, NEW p \in {0, 1, 2}, Owes(p, <<>>)
  PROVE  Rest
<1>1. ~Full /\ Len(Waiting(p)) = 0 /\ Waiting(p) \in Seq(Items)
  BY WaitingType DEF Owes, Comes, Matches
<1>2. Waiting(p) = <<>>
  BY <1>1, EmptySeq
<1>3. \A x \in {0, 1, 2} : Waiting(x) = <<>>
  BY <1>2 DEF Owes
<1> QED BY <1>1, <1>3 DEF Owes, Rest, Calm

(* Reading takes the first byte that is owed.                              *)
LEMMA Taken ==
  ASSUME PS2Type, NEW p \in {0, 1, 2}, NEW bytes \in Seq(Byte), bytes # <<>>,
         Owes(p, bytes), Full,
         out' = NoOutput, UNCHANGED <<input, expect, answers, queue, sent>>
  PROVE  out.byte = Head(bytes) /\ out.of = sent /\ Owes(p, Tail(bytes))'
<1>1. /\ out.byte = Head(bytes) /\ out.of = sent
      /\ Matches(Waiting(p), Tail(bytes))
  BY DEF Owes, Comes
<1>2. ~Full' /\ out'.port # 2
  BY DEF Full, NoOutput
<1>3. \A x \in {0, 1, 2} : Waiting(x)' = Waiting(x)
  BY DEF Waiting
<1>4. Matches(Waiting(p), Tail(bytes))'
  BY <1>1, <1>3 DEF Matches
<1> QED BY <1>1, <1>2, <1>3, <1>4 DEF Owes, Comes, Free

(* The buffer is filled with the first byte that is owed, and nothing else.*)
LEMMA Filled ==
  ASSUME PS2Type, NEW p \in {0, 1, 2}, NEW bytes \in Seq(Byte), Owes(p, bytes),
         FillFromController \/ \E x \in Ports : FillFromDevice(x)
  PROVE  Owes(p, bytes)' /\ (p = 0 => out'.port # 2)
<1>1. Waiting(p) \in Seq(Items)
  BY WaitingType
<1>2. /\ ~Full /\ Waiting(p) # <<>>
      /\ out' = Output(IF p = 0 THEN 1 ELSE p, Head(Waiting(p)))
      /\ Waiting(p)' = Tail(Waiting(p)) /\ UNCHANGED <<input, expect, sent>>
      /\ \A x \in {0, 1, 2} \ {p} : Waiting(x)' = Waiting(x)
  <2>1. CASE FillFromController
    <3>1. p = 0
      BY <2>1 DEF FillFromController, Owes, Waiting
    <3> QED BY <2>1, <3>1 DEF FillFromController, Waiting
  <2>2. CASE \E x \in Ports : FillFromDevice(x)
    <3>1. PICK x \in Ports : FillFromDevice(x)
      BY <2>2
    <3>2. p = x
      BY <3>1 DEF FillFromDevice, Owes, Waiting, Ports
    <3> QED BY <3>1, <3>2 DEF FillFromDevice, Waiting, PS2Type, Ports
  <2> QED BY <2>1, <2>2
<1>3. Matches(Waiting(p), bytes)
  BY <1>2 DEF Owes, Comes
<1>4. Len(bytes) # 0 /\ bytes # <<>> /\ 1 \in 1 .. Len(bytes)
  BY <1>1, <1>2, <1>3, EmptySeq DEF Matches
<1>5. Head(Waiting(p)) = Item(Head(bytes), sent)
  BY <1>1, <1>2, <1>3, <1>4 DEF Matches
<1>6. out'.byte = Head(bytes) /\ out'.of = sent /\ (p = 0 => out'.port # 2)
  BY <1>2, <1>5 DEF Output, Item
<1>7. Full'
  BY <1>2 DEF Full, Output, NoOutput
<1>8. Matches(Tail(Waiting(p)), Tail(bytes))
  <2>1. /\ Len(Tail(Waiting(p))) = Len(Waiting(p)) - 1 /\ Len(Tail(bytes)) = Len(bytes) - 1
        /\ \A i \in 1 .. Len(Tail(bytes)) : Tail(bytes)[i] = bytes[i + 1]
        /\ \A i \in 1 .. Len(Tail(Waiting(p))) : Tail(Waiting(p))[i] = Waiting(p)[i + 1]
    BY <1>1, <1>2, <1>4, HeadTailProperties
  <2>2. \A i \in 1 .. Len(Tail(bytes)) : i + 1 \in 1 .. Len(bytes)
    BY <1>4, <2>1
  <2> QED BY <1>3, <2>1, <2>2 DEF Matches
<1>9. Matches(Waiting(p), Tail(bytes))'
  BY <1>2, <1>8 DEF Matches
<1> QED BY <1>2, <1>4, <1>6, <1>7, <1>9 DEF Owes, Comes, Free

LEMMA CalmHolds ==
  ASSUME Calm
  PROVE  ~FillFromController /\ ~\E x \in Ports : FillFromDevice(x)
BY DEF Calm, Waiting, FillFromController, FillFromDevice, Ports

(* The controller or a device answers a byte that was taken.               *)
LEMMA Answered ==
  ASSUME PS2Type, Calm, NEW b \in Byte, answers' = Append(answers, Item(b, sent)),
         UNCHANGED <<queue, out, sent>>, input' = NoInput, expect' = "port_1"
  PROVE  Owes(0, <<b>>)'
<1>1. answers = <<>> /\ queue[1] = <<>> /\ queue[2] = <<>> /\ ~Full /\ out = NoOutput
  BY DEF Calm, Waiting, Full
<1>2. answers' = <<Item(b, sent)>>
  BY <1>1
<1>3. Matches(answers, <<b>>)'
  <2>1. Len(answers') = 1 /\ answers'[1] = Item(b, sent)
    BY <1>2
  <2> DEFINE bytes == <<b>>
  <2>2. Len(bytes) = 1 /\ bytes[1] = b
    BY OneByte
  <2> HIDE DEF bytes
  <2>3. Matches(answers, bytes)'
    BY <2>1, <2>2 DEF Matches
  <2> QED BY <2>3 DEF bytes
<1> QED
  BY <1>1, <1>3 DEF Owes, Free, Comes, Waiting, Full, NoOutput

LEMMA DeviceAnswered ==
  ASSUME PS2Type, Calm, NEW p \in Ports, NEW b, NEW bytes \in Seq(Byte),
         queue' = [queue EXCEPT ![p] = Replies(Device(p), b)], Reply(Device(p), b) = bytes,
         UNCHANGED <<answers, out, sent>>, input' = NoInput, expect' = "port_1"
  PROVE  Owes(p, bytes)'
<1>1. answers = <<>> /\ queue[1] = <<>> /\ queue[2] = <<>> /\ ~Full
  BY DEF Calm, Waiting
<1>2. /\ queue'[p] = [i \in 1 .. Len(bytes) |-> Item(bytes[i], sent)]
      /\ \A x \in Ports \ {p} : queue'[x] = <<>>
  <2>1. Replies(Device(p), b) = [i \in 1 .. Len(bytes) |-> Item(bytes[i], sent)]
    BY DEF Replies
  <2>2. queue'[p] = Replies(Device(p), b) /\ \A x \in Ports \ {p} : queue'[x] = queue[x]
    BY DEF PS2Type
  <2> QED BY <1>1, <2>1, <2>2 DEF Ports
<1>3. Matches(queue[p], bytes)'
  <2>1. Len(bytes) \in Nat
    OBVIOUS
  <2>2. /\ Len(queue'[p]) = Len(bytes)
        /\ \A i \in 1 .. Len(bytes) : queue'[p][i] = Item(bytes[i], sent)
    BY <1>2, <2>1
  <2> QED BY <2>2 DEF Matches
<1> QED
  BY <1>1, <1>2, <1>3 DEF Owes, Free, Comes, Waiting, Full, Ports

LEMMA OneAndTwo ==
  ASSUME NEW a \in Byte, NEW b \in Byte, NEW d \in Byte
  PROVE  <<a>> \o <<b, d>> = <<a, b, d>>
<1> DEFINE x == <<a>>
           y == <<b, d>>
           z == <<a, b, d>>
<1>1. x \in Seq(Byte) /\ Len(x) = 1 /\ x[1] = a
  OBVIOUS
<1>2. y \in Seq(Byte) /\ Len(y) = 2 /\ y[1] = b /\ y[2] = d
  OBVIOUS
<1>3. z \in Seq(Byte) /\ Len(z) = 3 /\ z[1] = a /\ z[2] = b /\ z[3] = d
  OBVIOUS
<1> HIDE DEF x, y, z
<1>4. /\ x \o y \in Seq(Byte) /\ Len(x \o y) = 3
      /\ \A i \in 1 .. 3 : (x \o y)[i] = IF i <= 1 THEN x[i] ELSE y[i - 1]
  <2>1. /\ x \o y \in Seq(Byte) /\ Len(x \o y) = Len(x) + Len(y)
        /\ \A i \in 1 .. Len(x) + Len(y) :
             (x \o y)[i] = IF i <= Len(x) THEN x[i] ELSE y[i - Len(x)]
    BY <1>1, <1>2, ConcatProperties
  <2>2. Len(x) + Len(y) = 3
    BY <1>1, <1>2
  <2> QED BY <1>1, <2>1, <2>2
<1>5. \A i \in 1 .. 3 : (x \o y)[i] = z[i]
  BY <1>1, <1>2, <1>3, <1>4
<1>6. x \o y = z
  BY <1>3, <1>4, <1>5, SeqEqual
<1> QED BY <1>6 DEF x, y, z

LEMMA KeyboardReplies ==
  /\ Device(1) = "keyboard" /\ Device(2) = "nothing"
  /\ Reply("keyboard", RESET) = <<ACK, SELF_TEST_OK>>
  /\ Reply("keyboard", SCAN_OFF) = <<ACK>> /\ Reply("keyboard", SCAN_ON) = <<ACK>>
  /\ Reply("keyboard", IDENTIFY) = <<ACK, KEYBOARD_ID[1], KEYBOARD_ID[2]>>
  /\ \A b : Reply("nothing", b) = <<RESEND>>
<1>1. Device(1) = "keyboard" /\ Device(2) = "nothing"
  BY KeyboardOnly DEF Device
<1>2. \A b : Reply("nothing", b) = <<RESEND>>
  BY DEF Reply
<1>3. RESET \notin {IDENTIFY, SCAN_OFF, SCAN_ON} /\ IDENTIFY \notin {SCAN_OFF, SCAN_ON}
  <2>1. /\ 3 \in RESET /\ 3 \notin IDENTIFY /\ 3 \notin SCAN_OFF /\ 3 \notin SCAN_ON
        /\ 1 \in IDENTIFY /\ 1 \notin SCAN_OFF /\ 1 \notin SCAN_ON
    BY DEF RESET, IDENTIFY, SCAN_OFF, SCAN_ON
  <2> QED BY <2>1
<1>4. /\ Reply("keyboard", RESET) = <<ACK, SELF_TEST_OK>>
      /\ Reply("keyboard", SCAN_OFF) = <<ACK>> /\ Reply("keyboard", SCAN_ON) = <<ACK>>
  BY <1>3 DEF Reply
<1>5. Reply("keyboard", IDENTIFY) = <<ACK>> \o KEYBOARD_ID
  BY <1>3 DEF Reply
<1>6. <<ACK>> \o KEYBOARD_ID = <<ACK, KEYBOARD_ID[1], KEYBOARD_ID[2]>>
  <2>1. KEYBOARD_ID = <<KEYBOARD_ID[1], KEYBOARD_ID[2]>>
    BY DEF KEYBOARD_ID
  <2> DEFINE a == KEYBOARD_ID[1]
             b == KEYBOARD_ID[2]
  <2>2. KEYBOARD_ID = <<a, b>> /\ a \in Byte /\ b \in Byte /\ ACK \in Byte
    BY <2>1, Bytes
  <2> HIDE DEF a, b
  <2>3. <<ACK>> \o <<a, b>> = <<ACK, a, b>>
    BY <2>2, OneAndTwo
  <2>4. <<ACK>> \o KEYBOARD_ID = <<ACK, a, b>>
    BY <2>2, <2>3
  <2> QED BY <2>4 DEF a, b
<1> QED BY <1>1, <1>2, <1>4, <1>5, <1>6

-----------------------------------------------------------------------------
(* The steps of init_ps2 *)

LEMMA InitHolds == Init => PS2Inv
<1> SUFFICES ASSUME Init PROVE PS2Inv
  OBVIOUS
<1>1. PS2Type
  <2>1. /\ k = [config |-> {}, first |-> FALSE, second |-> FALSE, port |-> 1, res |-> {},
                device |-> <<{}, {}>>]
        /\ {} \in Byte /\ {0, 2, 6} \in Byte /\ {0, 2, 5, 6} \in Byte /\ {0, 1, 2, 6} \in Byte
        /\ ScanCodes \subseteq Byte
    BY PS2Assumption DEF Init, Byte, PS2Assumption
  <2>2. k \in Variables
    BY <2>1 DEF Variables, Ports
  <2>3. out \in [byte : Byte, of : Nat, port : 0 .. 2]
    <3>1. NoOutput \in [byte : Byte, of : Nat, port : 0 .. 2]
      BY <2>1 DEF NoOutput
    <3>2. \A b \in Byte : Output(1, Item(b, 0)) \in [byte : Byte, of : Nat, port : 0 .. 2]
      BY DEF Output, Item
    <3>3. ScanCodes \cup {{}} \subseteq Byte
      BY <2>1
    <3>4. out \in {NoOutput} \cup {Output(1, Item(b, 0)) : b \in ScanCodes \cup {{}}}
      BY DEF Init
    <3> QED BY <3>1, <3>2, <3>3, <3>4
  <2>4. input \in [byte : Byte, register : Registers] /\ config \in Byte
    BY <2>1 DEF Init, NoInput, Registers
  <2>5. answers \in Seq(Items) /\ queue \in [Ports -> Seq(Items)]
    BY DEF Init
  <2> QED BY <2>2, <2>3, <2>4, <2>5 DEF Init, PS2Type
<1>2. pc = "begin" /\ k.port = 1 /\ irqs = {} /\ running = None
  BY DEF Init
<1>3. Firmware
  BY DEF Init, Firmware, Waiting, Ports, NoOutput, Output, Item
<1>4. Masks
  BY <1>2 DEF Masks, Labels, Early, Over, Disabled, Enabling
<1>5. Situation /\ Identities
  BY <1>2, <1>3
  DEF Situation, Identities, Early, Resting, Configuring, Configured, Switching, SecondRound,
      Detecting, Enabling
<1> QED BY <1>1, <1>2, <1>4, <1>5 DEF PS2Inv

USE DEF Early, Resting, Configuring, Configured, Switching, Disabled, Enabling, SecondRound,
        Detecting, Labels, Reads, Over

LEMMA StepType ==
  ASSUME PS2Type, InitPs2
  PROVE  PS2Type'
<1> USE DEF Configure, TestPorts, ResetDevices, DetectDevice, EnableInterrupts, SendIf,
            SendCommand, SendData, ReadTo, SkipPort, Goto, Read, Outb, Step
<1>1. /\ data \in Byte /\ k \in Variables
      /\ \A b \in Byte :
           [byte |-> b, register |-> "command"] \in [byte : Byte, register : Registers]
      /\ \A b \in Byte : [byte |-> b, register |-> "data"] \in [byte : Byte, register : Registers]
      /\ NoOutput \in [byte : Byte, of : Nat, port : 0 .. 2]
  BY Bytes DEF PS2Type, data, Registers, NoOutput
<1>2. UNCHANGED <<irqs, expect, config, answers, queue>> /\ running' = running
  BY DEF InitPs2, controller
<1>3. sent' \in Nat
  BY DEF InitPs2, PS2Type
<1>4. out' \in [byte : Byte, of : Nat, port : 0 .. 2]
  BY <1>1 DEF InitPs2, PS2Type
<1>5. input' \in [byte : Byte, register : Registers]
  <2>1. k.config \in Byte
    BY <1>1 DEF Variables
  <2> QED BY <1>1, <2>1, Commands DEF InitPs2, PS2Type
<1>6. k' \in Variables
  <2>1. \/ UNCHANGED k
        \/ k' = [k EXCEPT !.config = data \cap KEEP] \/ k' = [k EXCEPT !.config = data \cup IRQS]
        \/ k' = [k EXCEPT !.first = (data = {})] \/ k' = [k EXCEPT !.second = (data = {})]
        \/ k' = [k EXCEPT !.port = 2] \/ k' = [k EXCEPT !.res = data]
        \/ k' = [k EXCEPT !.device[k.port] = k.res, !.port = 2]
    BY DEF InitPs2
  <2>2. data \cap KEEP \in Byte /\ data \cup IRQS \in Byte /\ 2 \in Ports
    BY <1>1, Bytes DEF Byte, Ports
  <2>3. CASE k' = [k EXCEPT !.device[k.port] = k.res, !.port = 2]
    <3>1. k.device \in [1 .. 2 -> Byte] /\ k.res \in Byte /\ k.port \in 1 .. 2
      BY <1>1 DEF Variables, Ports
    <3>2. [k.device EXCEPT ![k.port] = k.res] \in [1 .. 2 -> Byte]
      BY <3>1
    <3>3. k' = [[k EXCEPT !.device = [k.device EXCEPT ![k.port] = k.res]] EXCEPT !.port = 2]
      BY <1>1, <2>3 DEF Variables
    <3> QED BY <1>1, <2>2, <3>2, <3>3 DEF Variables
  <2>4. CASE k' = [k EXCEPT !.first = (data = {})] \/ k' = [k EXCEPT !.second = (data = {})]
    BY <1>1, <2>4 DEF Variables
  <2>5. CASE \/ k' = [k EXCEPT !.config = data \cap KEEP]
             \/ k' = [k EXCEPT !.config = data \cup IRQS]
    BY <1>1, <2>2, <2>5 DEF Variables
  <2>6. CASE k' = [k EXCEPT !.port = 2] \/ k' = [k EXCEPT !.res = data]
    BY <1>1, <2>2, <2>6 DEF Variables
  <2> QED BY <1>1, <2>1, <2>3, <2>4, <2>5, <2>6
<1> QED BY <1>2, <1>3, <1>4, <1>5, <1>6 DEF PS2Type

(* Reading the only byte that is owed leaves nothing owed.                 *)
LEMMA LastByte ==
  ASSUME PS2Type, NEW p \in {0, 1, 2}, NEW b \in Byte, Owes(p, <<b>>), Full, out' = NoOutput,
         UNCHANGED <<input, expect, answers, queue, sent>>, PS2Type'
  PROVE  data = b /\ out.of = sent /\ Rest'
<1>1. data = b /\ out.of = sent /\ Owes(p, <<>>)'
  BY OneByte, Taken DEF data
<1>2. ~Full' /\ Len(Waiting(p)') = 0 /\ Waiting(p)' \in Seq(Items)
  BY <1>1, WaitingType DEF Owes, Comes, Matches, PS2Type, Waiting, Ports
<1>3. Waiting(p)' = <<>>
  BY <1>2, EmptySeq
<1>4. \A x \in {0, 1, 2} : Waiting(x)' = <<>>
  BY <1>1, <1>3 DEF Owes
<1> QED BY <1>1, <1>2, <1>4 DEF Owes, Rest, Calm

LEMMA ConfigureKeeps ==
  ASSUME PS2Inv, Configure
  PROVE  PS2Inv'
<1> USE DEF Step, controller, PS2Inv, Masks, Situation, Identities, Waiting, Calm, Rest, Free,
            Full
<1>t. PS2Type /\ PS2Type'
  BY StepType DEF InitPs2
<1>p. Prompt
  BY QuickController
<1>1. CASE Goto("begin", TRUE, "disable_1") \/ Goto("begin", TRUE, "absent")
  BY <1>1, <1>t DEF Goto, Firmware
<1>2. CASE Outb("disable_1", "command", DISABLE_1, "disable_2")
  BY <1>2, <1>t DEF Outb, Firmware, NoInput
<1>3. CASE Outb("disable_2", "command", DISABLE_2, "flush")
  BY <1>3, <1>p, <1>t DEF Outb, Firmware, NoInput
<1>4. CASE Goto("flush", ~Full, "get_config")
  BY <1>4, <1>p, <1>t DEF Goto, Firmware
<1>5. CASE Read("flush", IF data = {} THEN "get_config" ELSE "flush", k)
  BY <1>5, <1>p, <1>t DEF Read, Firmware, NoOutput
<1>6. CASE SendCommand("get_config", GET_CONFIG, "config")
  BY <1>6, <1>t DEF SendCommand, Outb, Ordered, Wrote
<1>7. CASE Read("config", "set_config", [k EXCEPT !.config = data \cap KEEP])
  <2>1. Full /\ pc = "config" /\ pc' = "set_config" /\ out' = NoOutput /\ OwesByte
    BY <1>7 DEF Read, Ordered, Wrote
  <2>2. Rest'
    BY <1>7, <1>t, <2>1, LastByte DEF Read, OwesByte
  <2>3. k'.config \cap IRQS = {} /\ k'.port = k.port /\ k'.first = k.first /\ k'.device = k.device
    BY <1>7, <1>t DEF Read, PS2Type, Variables, KEEP, IRQS
  <2> QED BY <1>7, <1>t, <2>1, <2>2, <2>3 DEF Read
<1>8. CASE SendCommand("set_config", SET_CONFIG, "out_config")
  BY <1>8, <1>t DEF SendCommand, Outb, Ordered, Wrote
<1>9. CASE Outb("out_config", "data", k.config, "test")
  BY <1>9, <1>p, <1>t DEF Outb, Ordered, Wrote, Asked, NoInput
<1> QED
  BY <1>1, <1>2, <1>3, <1>4, <1>5, <1>6, <1>7, <1>8, <1>9 DEF Configure

LEMMA TestPortsKeeps ==
  ASSUME PS2Inv, TestPorts
  PROVE  PS2Inv'
<1> USE DEF Step, controller, PS2Inv, Masks, Situation, Identities, Waiting, Calm, Rest, Free,
            Full
<1>t. PS2Type /\ PS2Type'
  BY StepType DEF InitPs2
<1>p. Prompt
  BY QuickController
<1>1. CASE SendCommand("test", TEST, "test_result")
  BY <1>1, <1>t DEF SendCommand, Outb, Ordered, Wrote, Asked, NoInput
<1>2. CASE Read("test_result", IF data = CONTROLLER_OK THEN "restore" ELSE "failed", k)
  <2>1. Full /\ pc = "test_result" /\ out' = NoOutput /\ OwesByte
    BY <1>2 DEF Read, Ordered, Wrote
  <2>2. Rest'
    BY <1>2, <1>t, <2>1, LastByte DEF Read, OwesByte
  <2> QED BY <1>2, <1>t, <2>1, <2>2 DEF Read
<1>3. CASE SendCommand("restore", SET_CONFIG, "out_restore")
  BY <1>3, <1>t DEF SendCommand, Outb, Ordered, Wrote
<1>4. CASE Outb("out_restore", "data", k.config, "dual")
  BY <1>4, <1>p, <1>t DEF Outb, Ordered, Wrote, Asked, NoInput
<1>5. CASE SendIf(5 \in k.config, "dual", ENABLE_2, "get_dual", "test_1")
  BY <1>5, <1>p, <1>t DEF SendIf, Goto, SendCommand, Outb, Ordered, Wrote, Asked, NoInput
<1>6. CASE SendCommand("get_dual", GET_CONFIG, "dual_config")
  BY <1>6, <1>p, <1>t DEF SendCommand, Outb, Ordered, Wrote, NoInput
<1>7. CASE Read("dual_config", IF 5 \in data THEN "test_1" ELSE "redisable", k)
  <2>1. Full /\ pc = "dual_config" /\ out' = NoOutput /\ OwesByte
    BY <1>7 DEF Read, Ordered, Wrote
  <2>2. Rest'
    BY <1>7, <1>t, <2>1, LastByte DEF Read, OwesByte
  <2> QED BY <1>7, <1>t, <2>1, <2>2 DEF Read
<1>8. CASE SendCommand("redisable", DISABLE_2, "test_1")
  BY <1>8, <1>t DEF SendCommand, Outb, Ordered, Wrote
<1>9. CASE SendCommand("test_1", TEST_1, "works_1")
  BY <1>9, <1>t DEF SendCommand, Outb, Ordered, Wrote, NoInput
<1>10. CASE Read("works_1", "test_2", [k EXCEPT !.first = (data = {})])
  <2>1. Full /\ pc = "works_1" /\ pc' = "test_2" /\ out' = NoOutput /\ OwesByte
    BY <1>10 DEF Read, Ordered, Wrote
  <2>2. Rest'
    BY <1>10, <1>t, <2>1, LastByte DEF Read, OwesByte
  <2>3. k'.port = k.port /\ k'.config = k.config
    BY <1>10, <1>t DEF Read, PS2Type, Variables
  <2> QED BY <1>10, <1>t, <2>1, <2>2, <2>3 DEF Read
<1>11. CASE SendCommand("test_2", TEST_2, "works_2")
  BY <1>11, <1>t DEF SendCommand, Outb, Ordered, Wrote
<1>12. CASE Read("works_2", "enable_1", [k EXCEPT !.second = (data = {})])
  <2>1. Full /\ pc = "works_2" /\ pc' = "enable_1" /\ out' = NoOutput /\ OwesByte
    BY <1>12 DEF Read, Ordered, Wrote
  <2>2. Rest'
    BY <1>12, <1>t, <2>1, LastByte DEF Read, OwesByte
  <2>3. k'.port = k.port /\ k'.config = k.config
    BY <1>12, <1>t DEF Read, PS2Type, Variables
  <2> QED BY <1>12, <1>t, <2>1, <2>2, <2>3 DEF Read
<1>13. CASE SendIf(k.first, "enable_1", ENABLE_1, "enable_2", "enable_2")
  BY <1>13, <1>t DEF SendIf, Goto, SendCommand, Outb, Ordered, Wrote
<1>14. CASE SendIf(k.second, "enable_2", ENABLE_2, "reset_1", "reset_1")
  BY <1>14, <1>p, <1>t DEF SendIf, Goto, SendCommand, Outb, Ordered, Wrote, NoInput
<1> QED
  BY <1>1, <1>2, <1>3, <1>4, <1>5, <1>6, <1>7, <1>8, <1>9, <1>10, <1>11, <1>12, <1>13, <1>14
  DEF TestPorts

LEMMA FirstOfTwo ==
  ASSUME PS2Type, NEW p \in {0, 1, 2}, NEW a \in Byte, NEW b \in Byte, Owes(p, <<a, b>>), Full,
         out' = NoOutput, UNCHANGED <<input, expect, answers, queue, sent>>
  PROVE  data = a /\ out.of = sent /\ Owes(p, <<b>>)'
<1> DEFINE bytes == <<a, b>>
<1>1. bytes \in Seq(Byte) /\ bytes # <<>> /\ Head(bytes) = a /\ Tail(bytes) = <<b>>
  OBVIOUS
<1>2. Owes(p, bytes)
  OBVIOUS
<1> HIDE DEF bytes
<1>3. data = Head(bytes) /\ out.of = sent /\ Owes(p, Tail(bytes))'
  BY <1>1, <1>2, Taken DEF data
<1> QED BY <1>1, <1>3

LEMMA FirstOfThree ==
  ASSUME PS2Type, NEW p \in {0, 1, 2}, NEW a \in Byte, NEW b \in Byte, NEW d \in Byte,
         Owes(p, <<a, b, d>>), Full, out' = NoOutput,
         UNCHANGED <<input, expect, answers, queue, sent>>
  PROVE  out.of = sent /\ Owes(p, <<b, d>>)'
<1> DEFINE bytes == <<a, b, d>>
<1>1. bytes \in Seq(Byte) /\ bytes # <<>> /\ Tail(bytes) = <<b, d>>
  OBVIOUS
<1>2. Owes(p, bytes)
  OBVIOUS
<1> HIDE DEF bytes
<1>3. out.of = sent /\ Owes(p, Tail(bytes))'
  BY <1>1, <1>2, Taken
<1> QED BY <1>1, <1>3

LEMMA ResetDevicesKeeps ==
  ASSUME PS2Inv, ResetDevices
  PROVE  PS2Inv'
<1> USE DEF Step, controller, PS2Inv, Masks, Situation, Identities, Waiting, Calm, Rest, Free,
            Full
<1>t. PS2Type /\ PS2Type'
  BY StepType DEF InitPs2
<1>p. Prompt
  BY QuickController
<1>1. CASE SendData("reset_1", RESET, "ack_1")
  BY <1>1, <1>t DEF SendData, Outb, Ordered, Wrote, Asked, NoInput
<1>2. CASE Read("ack_1", IF data = ACK THEN "result_1" ELSE "port_2", k)
  <2>1. Full /\ pc = "ack_1" /\ out' = NoOutput /\ Owes(1, <<ACK, SELF_TEST_OK>>)
    BY <1>2 DEF Read, Asked, Wrote
  <2>2. data = ACK /\ Owes(1, <<SELF_TEST_OK>>)'
    BY <1>2, <1>t, <2>1, FirstOfTwo, Bytes DEF Read
  <2> QED BY <1>2, <1>t, <2>1, <2>2 DEF Read
<1>3. CASE ReadTo("result_1", "port_2")
  <2>1. Full /\ pc = "result_1" /\ out' = NoOutput /\ Owes(1, <<SELF_TEST_OK>>)
    BY <1>3 DEF ReadTo, Read
  <2>2. Rest'
    BY <1>3, <1>t, <2>1, LastByte, Bytes DEF ReadTo, Read
  <2> QED BY <1>3, <1>t, <2>1, <2>2 DEF ReadTo, Read
<1>4. CASE SendCommand("port_2", TO_PORT_2, "reset_2")
  BY <1>4, <1>t DEF SendCommand, Outb, Ordered, Wrote
<1>5. CASE SendData("reset_2", RESET, "ack_2")
  BY <1>5, <1>t DEF SendData, Outb, Ordered, Wrote, Asked, NoInput
<1>6. CASE Read("ack_2", IF data = ACK THEN "result_2" ELSE "detect", k)
  <2>1. Full /\ pc = "ack_2" /\ out' = NoOutput /\ Owes(2, <<RESEND>>)
    BY <1>6 DEF Read, Asked, Wrote
  <2>2. data # ACK /\ Rest'
    BY <1>6, <1>t, <2>1, LastByte, Bytes DEF Read
  <2> QED BY <1>6, <1>t, <2>1, <2>2 DEF Read
<1>7. ~ReadTo("result_2", "detect")
  BY DEF ReadTo, Read
<1> QED
  BY <1>1, <1>2, <1>3, <1>4, <1>5, <1>6, <1>7 DEF ResetDevices

LEMMA DetectDeviceKeeps ==
  ASSUME PS2Inv, DetectDevice
  PROVE  PS2Inv'
<1> USE DEF Step, controller, PS2Inv, Masks, Situation, Identities, Waiting, Calm, Rest, Free,
            Full
<1>t. PS2Type /\ PS2Type'
  BY StepType DEF InitPs2
<1>p. Prompt /\ k.port \in {1, 2}
  BY <1>t, QuickController DEF PS2Type, Variables, Ports
<1>1. CASE SkipPort
  <2>1. /\ pc = "detect" /\ (k.port = 1 => pc' = "detect" /\ ~k.first)
        /\ (k.port = 2 => pc' = "scan_on")
        /\ k'.port = 2 /\ k'.first = k.first /\ k'.device = k.device
    BY <1>1, <1>t DEF SkipPort, NextPort, Works, PS2Type, Variables
  <2> QED BY <1>1, <1>p, <1>t, <2>1 DEF SkipPort
<1>2. CASE Goto("detect", Works, IF k.port = 2 THEN "direct" ELSE "scan_off")
  BY <1>2, <1>p, <1>t DEF Goto
<1>3. CASE SendCommand("direct", TO_PORT_2, "scan_off")
  BY <1>3, <1>p, <1>t DEF SendCommand, Outb, Ordered, Wrote
<1>4. CASE SendData("scan_off", SCAN_OFF, "scan_off_ack")
  BY <1>4, <1>p, <1>t DEF SendData, Outb, Ordered, Wrote, Asked, NoInput
<1>5. CASE ReadTo("scan_off_ack", "identify")
  <2>1. /\ Full /\ pc = "scan_off_ack" /\ out' = NoOutput
        /\ Owes(k.port, <<IF k.port = 1 THEN ACK ELSE RESEND>>)
    BY <1>5, <1>p DEF ReadTo, Read, Asked, Wrote
  <2>2. Rest'
    BY <1>5, <1>p, <1>t, <2>1, LastByte, Bytes DEF ReadTo, Read
  <2> QED BY <1>5, <1>p, <1>t, <2>1, <2>2 DEF ReadTo, Read
<1>6. CASE SendData("identify", IDENTIFY, "identify_ack")
  BY <1>6, <1>t DEF SendData, Outb, Ordered, Wrote, Asked, NoInput
<1>7. CASE ReadTo("identify_ack", "id")
  <2>1. /\ Full /\ pc = "identify_ack" /\ out' = NoOutput
        /\ Owes(1, <<ACK, KEYBOARD_ID[1], KEYBOARD_ID[2]>>)
    BY <1>7 DEF ReadTo, Read, Asked, Wrote
  <2>2. Owes(1, <<KEYBOARD_ID[1], KEYBOARD_ID[2]>>)'
    BY <1>7, <1>t, <2>1, FirstOfThree, Bytes DEF ReadTo, Read
  <2> QED BY <1>7, <1>t, <2>1, <2>2 DEF ReadTo, Read
<1>8. CASE Read("id", "id_2", [k EXCEPT !.res = data])
  <2>1. Full /\ pc = "id" /\ out' = NoOutput /\ Owes(1, <<KEYBOARD_ID[1], KEYBOARD_ID[2]>>)
    BY <1>8 DEF Read
  <2>2. data = KEYBOARD_ID[1] /\ Owes(1, <<KEYBOARD_ID[2]>>)'
    BY <1>8, <1>t, <2>1, FirstOfTwo, Bytes DEF Read
  <2>3. /\ k'.res = data /\ k'.port = k.port /\ k'.first = k.first /\ k'.device = k.device
    BY <1>8, <1>t DEF Read, PS2Type, Variables
  <2> QED BY <1>8, <1>p, <1>t, <2>1, <2>2, <2>3 DEF Read
<1>9. CASE Read("id_2", NextPort, [k EXCEPT !.device[k.port] = k.res, !.port = 2])
  <2>1. /\ Full /\ pc = "id_2" /\ out' = NoOutput /\ Owes(1, <<KEYBOARD_ID[2]>>)
        /\ k.res = KEYBOARD_ID[1]
    BY <1>9 DEF Read
  <2>2. Rest'
    BY <1>9, <1>t, <2>1, LastByte, Bytes DEF Read
  <2>3. /\ k'.port = 2 /\ k'.first = k.first /\ k'.device = [k.device EXCEPT ![k.port] = k.res]
    BY <1>9, <1>t DEF Read, PS2Type, Variables
  <2>4. k'.first => k'.device[1] = KEYBOARD_ID[1]
    BY <1>p, <1>t, <2>1, <2>3 DEF PS2Type, Variables
  <2> QED BY <1>9, <1>p, <1>t, <2>1, <2>2, <2>3, <2>4 DEF Read, NextPort
<1> QED
  BY <1>1, <1>2, <1>3, <1>4, <1>5, <1>6, <1>7, <1>8, <1>9 DEF DetectDevice

LEMMA EnableInterruptsKeeps ==
  ASSUME PS2Inv, EnableInterrupts
  PROVE  PS2Inv'
<1> USE DEF Step, controller, PS2Inv, Masks, Situation, Identities, Waiting, Calm, Rest, Free,
            Full
<1>t. PS2Type /\ PS2Type'
  BY StepType DEF InitPs2
<1>p. Prompt
  BY QuickController
<1>1. CASE SendData("scan_on", SCAN_ON, "scan_on_ack")
  BY <1>1, <1>t DEF SendData, Outb, Ordered, Wrote, Asked, NoInput
<1>2. CASE ReadTo("scan_on_ack", "get_config_2")
  <2>1. Full /\ pc = "scan_on_ack" /\ out' = NoOutput /\ Owes(1, <<ACK>>) /\ 4 \notin config
    BY <1>2 DEF ReadTo, Read, Asked, Wrote
  <2>2. Rest'
    BY <1>2, <1>t, <2>1, LastByte, Bytes DEF ReadTo, Read
  <2> QED BY <1>2, <1>t, <2>1, <2>2 DEF ReadTo, Read
<1>3. CASE SendCommand("get_config_2", GET_CONFIG, "config_2")
  BY <1>3, <1>t DEF SendCommand, Outb, Ordered, Wrote
<1>4. CASE Read("config_2", "set_config_2", [k EXCEPT !.config = data \cup IRQS])
  <2>1. /\ Full /\ pc = "config_2" /\ pc' = "set_config_2" /\ out' = NoOutput
        /\ \E b \in Byte : 4 \notin b /\ Owes(0, <<b>>)
    BY <1>4 DEF Read, Ordered, Wrote
  <2>2. Rest' /\ 4 \notin data
    BY <1>4, <1>t, <2>1, LastByte DEF Read
  <2>3. /\ k'.config = data \cup IRQS /\ k'.port = k.port /\ k'.first = k.first
        /\ k'.device = k.device
    BY <1>4, <1>t DEF Read, PS2Type, Variables
  <2>4. 4 \notin IRQS
    BY DEF IRQS
  <2> QED BY <1>4, <1>t, <2>1, <2>2, <2>3, <2>4 DEF Read
<1>5. CASE SendCommand("set_config_2", SET_CONFIG, "out_config_2")
  BY <1>5, <1>t DEF SendCommand, Outb, Ordered, Wrote
<1>6. CASE Outb("out_config_2", "data", k.config, "done")
  BY <1>6, <1>p, <1>t DEF Outb, Ordered, Wrote, Asked, NoInput
<1> QED
  BY <1>1, <1>2, <1>3, <1>4, <1>5, <1>6 DEF EnableInterrupts

-----------------------------------------------------------------------------
(* The steps of the controller and of the devices *)

LEMMA Masked ==
  ASSUME RaiseLines, irqs = {},
         \/ config' \cap IRQS = {}
         \/ 4 \in config' /\ out'.port # 2
         \/ UNCHANGED out /\ config \subseteq config' /\ config' \ config \subseteq {4, 5}
  PROVE  irqs' = {}
BY DEF RaiseLines, Lines, IRQS, Ports

(* The controller takes a command.                                         *)
LEMMA TakeOrder ==
  ASSUME PS2Inv, TakeInput, NEW b \in Byte,
         input = [byte |-> b, register |-> "command"]
  PROVE  /\ TakesCommand(b) /\ input' = NoInput /\ RaiseLines
         /\ UNCHANGED <<pc, k, running, out, sent, queue, scanning>>
         /\ PS2Type' /\ pc \notin Over
<1>1. TakesCommand(b) /\ input' = NoInput /\ UNCHANGED <<pc, k, running, out, sent>> /\ RaiseLines
  BY DEF TakeInput
<1>2. UNCHANGED <<queue, scanning>>
  BY <1>1 DEF TakesCommand
<1>3. PS2Type
  BY DEF PS2Inv
<1>4. config' \in Byte /\ expect' \in {"port_1", "port_2", "config"}
  BY <1>1, <1>3 DEF TakesCommand, PS2Type, Byte
<1>5. answers' \in Seq(Items)
  <2>1. \A x \in Byte : Append(answers, Item(x, sent)) \in Seq(Items)
    BY <1>3 DEF PS2Type, Items, Item
  <2>2. UNCHANGED answers \/ \E x \in Byte : Answer(x)
    BY <1>1, <1>3, Bytes DEF TakesCommand, PS2Type
  <2> QED BY <1>3, <2>1, <2>2 DEF Answer, PS2Type
<1>6. irqs' \subseteq Ports
  BY <1>1, <1>3 DEF RaiseLines, Lines, PS2Type
<1>7. input' \in [byte : Byte, register : Registers]
  BY <1>1, Bytes DEF NoInput, Registers
<1>8. PS2Type'
  BY <1>1, <1>2, <1>3, <1>4, <1>5, <1>6, <1>7 DEF PS2Type
<1>9. pc \notin Over
  BY DEF PS2Inv, Situation, NoInput
<1> QED BY <1>1, <1>2, <1>8, <1>9

LEMMA TakeSilentOrder ==
  ASSUME PS2Inv, TakeInput, input.register = "command",
         pc \in Early \cup Configuring \cup Switching \cup {"reset_2", "scan_off"}
  PROVE  PS2Inv'
<1> USE DEF PS2Inv, Masks, Situation, Identities, Waiting, Calm, Rest, Free, Full, Ordered,
            Wrote, Asked
<1>p. k.port \in {1, 2} /\ input # NoInput
  BY DEF PS2Type, Variables, Ports, NoInput
<1>1. CASE pc \in Early
  <2>1. PICK b \in {DISABLE_1, DISABLE_2} :
          /\ input = [byte |-> b, register |-> "command"]
          /\ b = IF pc = "disable_2" THEN DISABLE_1 ELSE DISABLE_2
    BY <1>1, <1>p DEF Firmware
  <2>2. TakesCommand(b) /\ input' = NoInput /\ RaiseLines /\ PS2Type'
        /\ UNCHANGED <<pc, k, running, out, sent, queue, scanning>>
    BY <2>1, TakeOrder, Commands
  <2>3. /\ UNCHANGED answers /\ expect' = "port_1"
        /\ b = DISABLE_1 => config' = config \cup {4}
        /\ b = DISABLE_2 => config' = config \cup {5}
    BY <2>1, <2>2, TakesOrder
  <2>4. irqs' = {}
    BY <1>1, <2>1, <2>2, <2>3, Masked
  <2> QED BY <1>1, <2>1, <2>2, <2>3, <2>4 DEF Firmware
<1>2. CASE pc \in Configuring
  <2>1. input = [byte |-> SET_CONFIG, register |-> "command"]
    BY <1>2, <1>p
  <2>2. TakesCommand(SET_CONFIG) /\ input' = NoInput /\ RaiseLines /\ PS2Type'
        /\ UNCHANGED <<pc, k, running, out, sent, queue, scanning>>
    BY <2>1, TakeOrder, Commands
  <2>3. UNCHANGED <<config, answers>> /\ expect' = "config"
    BY <2>2, TakesOrder
  <2>4. irqs' = {}
    BY <1>2, <2>2, <2>3 DEF RaiseLines, Lines
  <2> QED BY <1>2, <2>1, <2>2, <2>3, <2>4
<1>3. CASE pc \in Switching
  <2>1. PICK b \in {ENABLE_1, ENABLE_2, DISABLE_2} :
          input = [byte |-> b, register |-> "command"]
    BY <1>3, <1>p
  <2>2. TakesCommand(b) /\ input' = NoInput /\ RaiseLines /\ PS2Type'
        /\ UNCHANGED <<pc, k, running, out, sent, queue, scanning>>
    BY <2>1, TakeOrder, Commands
  <2>3. /\ UNCHANGED answers /\ expect' = "port_1"
        /\ config' \in {config \ {4}, config \ {5}, config \cup {5}}
    BY <2>1, <2>2, TakesOrder
  <2>4. config' \cap IRQS = {}
    BY <1>3, <2>3 DEF IRQS
  <2>5. irqs' = {}
    BY <1>3, <2>2, <2>4, Masked
  <2> QED BY <1>3, <2>1, <2>2, <2>3, <2>4, <2>5
<1>4. CASE pc \in {"reset_2", "scan_off"}
  <2>1. input = [byte |-> TO_PORT_2, register |-> "command"] /\ (pc = "reset_2" \/ k.port = 2)
    BY <1>4, <1>p
  <2>2. TakesCommand(TO_PORT_2) /\ input' = NoInput /\ RaiseLines /\ PS2Type'
        /\ UNCHANGED <<pc, k, running, out, sent, queue, scanning>>
    BY <2>1, TakeOrder, Commands
  <2>3. UNCHANGED <<config, answers>> /\ expect' = "port_2"
    BY <2>2, TakesOrder
  <2>4. irqs' = {}
    BY <1>4, <2>2, <2>3 DEF RaiseLines, Lines
  <2> QED BY <1>4, <2>1, <2>2, <2>3, <2>4
<1> QED BY <1>1, <1>2, <1>3, <1>4

LEMMA TakeQuestion ==
  ASSUME PS2Inv, TakeInput, input.register = "command",
         pc \notin Early \cup Configuring \cup Switching \cup {"reset_2", "scan_off"}
  PROVE  PS2Inv'
<1>0. input # NoInput /\ input.register # "data"
  BY DEF NoInput
<1>a. /\ ~Free("port_1") /\ ~Rest /\ \A p, bytes : ~Owes(p, bytes)
      /\ \A x, b : ~Asked(x, b)
  BY <1>0 DEF Free, Rest, Owes, Asked, Wrote
<1>b. pc \notin Over /\ Situation
  <2>1. pc \notin {"absent", "failed"} /\ Situation
    BY <1>0 DEF PS2Inv
  <2>2. pc # "done"
    BY <1>0, <2>1 DEF Situation
  <2> QED BY <2>1, <2>2
<1>c. pc \in Labels
  BY DEF PS2Inv, Masks
<1>d. /\ pc \in {"config", "dual_config", "config_2"} => Ordered(GET_CONFIG)
      /\ pc = "test_result" => Ordered(TEST)
      /\ pc = "works_1" => Ordered(TEST_1)
      /\ pc = "works_2" => Ordered(TEST_2)
  BY <1>a, <1>b DEF Situation, OwesByte
<1>e. pc \notin Resting \cup Configured \cup {"result_1", "id", "id_2", "result_2"}
  BY <1>a, <1>b DEF Situation
<1>f. pc \notin {"ack_1", "ack_2", "scan_off_ack", "identify_ack", "scan_on_ack"}
  <2>1. k.port \in {1, 2}
    BY DEF PS2Inv, PS2Type, Variables, Ports
  <2> QED BY <1>a, <1>b, <2>1 DEF Situation
<1>1. /\ input # NoInput /\ pc \notin Over
      /\ pc \in {"config", "dual_config", "config_2", "test_result", "works_1", "works_2"}
      /\ pc \in {"config", "dual_config", "config_2"} => Ordered(GET_CONFIG)
      /\ pc = "test_result" => Ordered(TEST)
      /\ pc = "works_1" => Ordered(TEST_1)
      /\ pc = "works_2" => Ordered(TEST_2)
  BY <1>0, <1>b, <1>c, <1>d, <1>e, <1>f
<1> USE DEF PS2Inv, Masks, Situation, Identities, Waiting, Calm, Rest, Free, Full, Ordered, Wrote,
            Asked
<1>2. PICK b \in {GET_CONFIG, TEST, TEST_1, TEST_2} :
        /\ Ordered(b) /\ (pc \in {"config", "dual_config", "config_2"} => b = GET_CONFIG)
  BY <1>1
<1>3. TakesCommand(b) /\ input' = NoInput /\ RaiseLines /\ PS2Type'
      /\ UNCHANGED <<pc, k, running, out, sent, queue, scanning>>
  BY <1>2, TakeOrder, Commands
<1>4. UNCHANGED config /\ expect' = "port_1" /\ Calm /\ PS2Type
  BY <1>2, <1>3, TakesOrder
<1>5. PICK x \in Byte : Answer(x) /\ (b = GET_CONFIG => x = config)
  BY <1>2, <1>3, <1>4, TakesOrder DEF PS2Type
<1>6. Owes(0, <<x>>)'
  BY <1>3, <1>4, <1>5, Answered DEF Answer
<1>7. irqs' = {}
  BY <1>1, <1>3, <1>4 DEF RaiseLines, Lines
<1>8. OwesByte'
  BY <1>6 DEF OwesByte
<1>9. pc = "config_2" => 4 \notin x
  BY <1>2, <1>5
<1> QED BY <1>1, <1>3, <1>4, <1>6, <1>7, <1>8, <1>9

LEMMA ShortReplies ==
  ASSUME NEW a \in Byte, NEW b \in Byte, NEW d \in Byte
  PROVE  <<a>> \in Seq(Byte) /\ <<a, b>> \in Seq(Byte) /\ <<a, b, d>> \in Seq(Byte)
OBVIOUS

LEMMA ReplyType ==
  ASSUME NEW p \in Ports, NEW b
  PROVE  Reply(Device(p), b) \in Seq(Byte)
<1>1. /\ <<ACK>> \in Seq(Byte) /\ <<RESEND>> \in Seq(Byte)
      /\ <<ACK, SELF_TEST_OK>> \in Seq(Byte)
      /\ <<ACK, KEYBOARD_ID[1], KEYBOARD_ID[2]>> \in Seq(Byte)
  BY Bytes, ShortReplies
<1>2. Reply("nothing", b) \in Seq(Byte)
  <2>1. Reply("nothing", b) = <<RESEND>>
    BY KeyboardReplies
  <2> QED BY <1>1, <2>1
<1>3. Reply("keyboard", b) \in Seq(Byte)
  <2>1. CASE b \notin {RESET, SCAN_OFF, SCAN_ON, IDENTIFY}
    <3>1. Reply("keyboard", b) = <<RESEND>>
      BY <2>1 DEF Reply
    <3> QED BY <1>1, <3>1
  <2>2. CASE b \in {RESET, SCAN_OFF, SCAN_ON, IDENTIFY}
    <3>1. Reply("keyboard", b) \in
            {<<ACK>>, <<ACK, SELF_TEST_OK>>, <<ACK, KEYBOARD_ID[1], KEYBOARD_ID[2]>>}
      BY <2>2, KeyboardReplies
    <3> QED BY <1>1, <3>1
  <2> QED BY <2>1, <2>2
<1>4. Device(p) \in {"keyboard", "nothing"}
  BY KeyboardReplies DEF Ports
<1> QED BY <1>2, <1>3, <1>4

LEMMA RepliesType ==
  ASSUME PS2Type, NEW p \in Ports, NEW b
  PROVE  Replies(Device(p), b) \in Seq(Items)
<1> DEFINE bytes == Reply(Device(p), b)
<1>1. bytes \in Seq(Byte)
  BY ReplyType
<1>2. Replies(Device(p), b) = [i \in 1 .. Len(bytes) |-> Item(bytes[i], sent)]
  BY <1>1 DEF Replies
<1> HIDE DEF bytes
<1>3. Len(bytes) \in Nat /\ \A i \in 1 .. Len(bytes) : bytes[i] \in Byte
  BY <1>1
<1>4. \A i \in 1 .. Len(bytes) : Item(bytes[i], sent) \in Items
  BY <1>3 DEF PS2Type, Items, Item
<1> QED BY <1>2, <1>3, <1>4

(* The controller takes a data byte.                                       *)
LEMMA TakeDatumType ==
  ASSUME PS2Inv, TakeInput, NEW b \in Byte, input = [byte |-> b, register |-> "data"]
  PROVE  /\ TakesData(b) /\ input' = NoInput /\ RaiseLines
         /\ UNCHANGED <<pc, k, running, out, sent, answers>> /\ expect' = "port_1"
         /\ PS2Type'
<1>1. /\ TakesData(b) /\ input' = NoInput /\ UNCHANGED <<pc, k, running, out, sent>>
      /\ RaiseLines
  BY DEF TakeInput
<1>2. UNCHANGED answers /\ expect' = "port_1"
  BY <1>1 DEF TakesData
<1>3. PS2Type
  BY DEF PS2Inv
<1>4. config' \in Byte
  BY <1>1, <1>3 DEF TakesData, SendsToDevice, PS2Type, Byte
<1>5. queue' \in [Ports -> Seq(Items)]
  <2>1. \A p \in Ports : SendsToDevice(p, b) => queue' \in [Ports -> Seq(Items)]
    <3> SUFFICES ASSUME NEW p \in Ports, SendsToDevice(p, b)
                 PROVE  queue' \in [Ports -> Seq(Items)]
      OBVIOUS
    <3> DEFINE reply == Replies(Device(p), b)
    <3>1. reply \in Seq(Items) /\ queue[p] \in Seq(Items)
      BY <1>3, RepliesType DEF PS2Type
    <3>2. queue' = [queue EXCEPT ![p] = reply] \/ queue' = [queue EXCEPT ![p] = queue[p] \o reply]
      BY <1>3 DEF SendsToDevice, PS2Type
    <3> HIDE DEF reply
    <3>3. queue[p] \o reply \in Seq(Items)
      BY <3>1
    <3> QED BY <1>3, <3>1, <3>2, <3>3 DEF PS2Type
  <2> QED BY <1>1, <1>3, <2>1 DEF TakesData, PS2Type, Ports
<1>6. irqs' \subseteq Ports
  BY <1>1, <1>3 DEF RaiseLines, Lines, PS2Type
<1>7. input' \in [byte : Byte, register : Registers]
  BY <1>1, Bytes DEF NoInput, Registers
<1> QED
  BY <1>1, <1>2, <1>3, <1>4, <1>5, <1>6, <1>7 DEF PS2Type

(* A device that has nothing left to send is asked and answers.            *)
LEMMA DeviceAsked ==
  ASSUME PS2Inv, TakeInput, NEW p \in Ports, NEW b \in Byte, NEW bytes \in Seq(Byte),
         Asked(IF p = 1 THEN "port_1" ELSE "port_2", b), Reply(Device(p), b) = bytes
  PROVE  /\ Owes(p, bytes)' /\ config' = config \ {p + 3}
         /\ UNCHANGED <<pc, k, running>> /\ PS2Type' /\ RaiseLines
<1>1. /\ TakesData(b) /\ input' = NoInput /\ RaiseLines /\ PS2Type' /\ PS2Type /\ Calm
      /\ UNCHANGED <<pc, k, running, out, sent, answers>> /\ expect' = "port_1"
      /\ expect = IF p = 1 THEN "port_1" ELSE "port_2"
  BY TakeDatumType DEF Asked, Wrote, PS2Inv
<1>2. SendsToDevice(p, b)
  BY <1>1 DEF TakesData, Ports
<1> DEFINE reply == Replies(Device(p), b)
<1>3. queue[p] = <<>> /\ reply \in Seq(Items)
  BY <1>1, RepliesType DEF Calm, Waiting, Ports
<1>4. queue' = [queue EXCEPT ![p] = reply] \/ queue' = [queue EXCEPT ![p] = queue[p] \o reply]
  BY <1>1, <1>2 DEF SendsToDevice, PS2Type
<1>5. queue' = [queue EXCEPT ![p] = reply]
  <2> HIDE DEF reply
  <2>1. queue[p] \o reply = reply
    BY <1>3, ConcatEmptySeq
  <2> QED BY <1>4, <2>1
<1>6. Owes(p, bytes)'
  BY <1>1, <1>5, DeviceAnswered
<1> QED BY <1>1, <1>2, <1>6 DEF SendsToDevice

LEMMA TakeConfig ==
  ASSUME PS2Inv, TakeInput, input.register = "data", pc \in Configured \cup {"done"}
  PROVE  PS2Inv'
<1> USE DEF PS2Inv, Masks, Situation, Identities
<1>1. /\ PS2Type /\ input = [byte |-> k.config, register |-> "data"] /\ expect = "config"
      /\ k.config \in Byte /\ (pc # "done" => Calm)
  BY DEF Asked, Wrote, Rest, Free, NoInput, PS2Type, Variables
<1>2. /\ TakesData(k.config) /\ input' = NoInput /\ RaiseLines /\ PS2Type'
      /\ UNCHANGED <<pc, k, running, out, sent, answers>> /\ expect' = "port_1"
  BY <1>1, TakeDatumType
<1>3. config' = k.config /\ UNCHANGED queue
  BY <1>1, <1>2 DEF TakesData
<1>4. pc \in Configured => irqs' = {} /\ config' \cap IRQS = {}
  BY <1>2, <1>3, Masked
<1>5. pc \in Configured => Rest'
  BY <1>1, <1>2, <1>3 DEF Rest, Calm, Free, Waiting, Full
<1> QED BY <1>1, <1>2, <1>3, <1>4, <1>5

LEMMA TakeForDevice ==
  ASSUME PS2Inv, TakeInput, input.register = "data", pc \notin Configured \cup {"done"}
  PROVE  PS2Inv'
<1> DEFINE Sends == {"ack_1", "ack_2", "scan_off_ack", "identify_ack", "scan_on_ack"}
<1>0. input # NoInput /\ input.register # "command"
  BY DEF NoInput
<1>a. /\ ~Free("port_1") /\ ~Free("port_2") /\ ~Free("config") /\ ~Rest
      /\ \A p, bytes : ~Owes(p, bytes)
      /\ \A b : ~Ordered(b)
  BY <1>0 DEF Free, Rest, Owes, Ordered, Wrote
<1>b. /\ PS2Type /\ pc \in Labels /\ pc \notin {"absent", "failed"} /\ Situation /\ Identities
      /\ k.port \in {1, 2}
  BY <1>0 DEF PS2Inv, Masks, PS2Type, Variables, Ports
<1>c. pc \notin Early
  BY <1>0, <1>b DEF Situation, Firmware
<1>d. /\ pc \notin Resting \cup Configuring \cup Switching
      /\ pc \notin {"reset_2", "scan_off", "config", "dual_config", "config_2", "test_result",
                    "works_1", "works_2", "result_1", "id", "id_2", "result_2"}
  BY <1>a, <1>b DEF Situation, OwesByte
<1>1. pc \in Sends
  BY <1>b, <1>c, <1>d
<1>2. /\ pc = "ack_1" => Asked("port_1", RESET)
      /\ pc = "ack_2" => Asked("port_2", RESET)
      /\ pc = "scan_off_ack" /\ k.port = 1 => Asked("port_1", SCAN_OFF)
      /\ pc = "scan_off_ack" /\ k.port = 2 => Asked("port_2", SCAN_OFF)
      /\ pc = "identify_ack" => Asked("port_1", IDENTIFY)
      /\ pc = "scan_on_ack" => Asked("port_1", SCAN_ON)
  BY <1>a, <1>b DEF Situation
<1> DEFINE Owed(p) == CASE p = 2 -> <<RESEND>>
                        [] p # 2 /\ pc = "ack_1" -> <<ACK, SELF_TEST_OK>>
                        [] p # 2 /\ pc = "identify_ack" ->
                             <<ACK, KEYBOARD_ID[1], KEYBOARD_ID[2]>>
                        [] OTHER -> <<ACK>>
<1>p. PICK p \in Ports : p = IF pc = "ack_2" \/ (pc = "scan_off_ack" /\ k.port = 2) THEN 2 ELSE 1
  BY DEF Ports
<1>o. PICK bytes \in Seq(Byte) : bytes = Owed(p)
  <2>1. Owed(p) \in {<<ACK>>, <<RESEND>>, <<ACK, SELF_TEST_OK>>,
                     <<ACK, KEYBOARD_ID[1], KEYBOARD_ID[2]>>}
    OBVIOUS
  <2>2. /\ <<ACK>> \in Seq(Byte) /\ <<RESEND>> \in Seq(Byte)
        /\ <<ACK, SELF_TEST_OK>> \in Seq(Byte)
        /\ <<ACK, KEYBOARD_ID[1], KEYBOARD_ID[2]>> \in Seq(Byte)
    BY Bytes, ShortReplies
  <2> HIDE DEF Owed
  <2> QED BY <2>1, <2>2
<1>3. /\ Owes(p, bytes)' /\ config' = config \ {p + 3}
      /\ UNCHANGED <<pc, k, running>> /\ PS2Type' /\ RaiseLines
  <2>1. PICK b \in {RESET, SCAN_OFF, SCAN_ON, IDENTIFY} :
          /\ Asked(IF p = 1 THEN "port_1" ELSE "port_2", b)
          /\ Reply(Device(p), b) = bytes
    <3>1. CASE p = 2
      BY <1>2, <1>o, <1>p, <3>1, KeyboardReplies
    <3>2. CASE p = 1
      BY <1>1, <1>2, <1>b, <1>o, <1>p, <3>2, KeyboardReplies
    <3> QED BY <3>1, <3>2 DEF Ports
  <2> QED BY <2>1, DeviceAsked, Commands
<1>4. config \cap IRQS = {} /\ irqs = {} /\ running = None
  BY <1>1 DEF PS2Inv, Masks
<1>5. config' \cap IRQS = {}
  BY <1>3, <1>4
<1>6. irqs' = {}
  BY <1>3, <1>4, <1>5, Masked
<1>7. Masks'
  BY <1>1, <1>3, <1>4, <1>5, <1>6 DEF PS2Inv, Masks
<1>8. Situation'
  <2>1. CASE pc = "ack_1"
    BY <1>3, <1>o, <1>p, <2>1 DEF Situation
  <2>2. CASE pc = "ack_2"
    BY <1>3, <1>o, <1>p, <2>2 DEF Situation
  <2>3. CASE pc = "scan_off_ack"
    BY <1>b, <1>3, <1>o, <1>p, <2>3 DEF Situation
  <2>4. CASE pc = "identify_ack"
    BY <1>3, <1>o, <1>p, <2>4 DEF Situation
  <2>5. CASE pc = "scan_on_ack"
    <3>1. Owes(1, <<ACK>>)' /\ 4 \notin config'
      BY <1>3, <1>o, <1>p, <2>5
    <3> QED BY <1>3, <2>5, <3>1 DEF Situation
  <2> QED BY <1>1, <2>1, <2>2, <2>3, <2>4, <2>5
<1> QED BY <1>1, <1>3, <1>7, <1>8, <1>b DEF PS2Inv, Identities

LEMMA TakeInputKeeps ==
  ASSUME PS2Inv, TakeInput
  PROVE  PS2Inv'
BY TakeSilentOrder, TakeQuestion, TakeConfig, TakeForDevice DEF TakeInput

(* When init_ps2 is over only the input buffer and the configuration count.*)
LEMMA OverKeeps ==
  ASSUME PS2Inv, pc \in Over, PS2Type', UNCHANGED <<pc, k, input, expect, config>>
  PROVE  PS2Inv'
BY DEF PS2Inv, Masks, Situation, Identities, NoInput

LEMMA FillType ==
  ASSUME PS2Type, FillFromController \/ \E p \in Ports : FillFromDevice(p)
  PROVE  PS2Type' /\ RaiseLines /\ UNCHANGED <<pc, k, running, input, expect, config, sent>>
<1>1. /\ UNCHANGED <<pc, k, running, input, expect, config, sent>> /\ RaiseLines
      /\ irqs' \subseteq Ports
  BY DEF FillFromController, FillFromDevice, RaiseLines, Lines, PS2Type
<1>2. /\ answers' \in Seq(Items) /\ queue' \in [Ports -> Seq(Items)]
      /\ out' \in [byte : Byte, of : Nat, port : 0 .. 2]
  <2>1. \A x \in Items, p \in Ports : Output(p, x) \in [byte : Byte, of : Nat, port : 0 .. 2]
    BY DEF Items, Output, Ports
  <2>2. CASE FillFromController
    <3>1. answers \in Seq(Items) /\ answers # <<>> /\ 1 \in Ports
      BY <2>2 DEF PS2Type, FillFromController, Ports
    <3>2. Head(answers) \in Items /\ Tail(answers) \in Seq(Items)
      BY <3>1
    <3> QED BY <2>1, <2>2, <3>1, <3>2 DEF FillFromController, PS2Type
  <2>3. CASE \E p \in Ports : FillFromDevice(p)
    <3>1. PICK p \in Ports : FillFromDevice(p)
      BY <2>3
    <3>2. queue[p] \in Seq(Items) /\ queue[p] # <<>>
      BY <3>1 DEF PS2Type, FillFromDevice
    <3>3. Head(queue[p]) \in Items /\ Tail(queue[p]) \in Seq(Items)
      BY <3>2
    <3> QED BY <2>1, <3>1, <3>2, <3>3 DEF FillFromDevice, PS2Type
  <2> QED BY <2>2, <2>3
<1> QED BY <1>1, <1>2 DEF PS2Type

LEMMA FillKeeps ==
  ASSUME PS2Inv, FillFromController \/ \E p \in Ports : FillFromDevice(p)
  PROVE  PS2Inv'
<1>1. /\ PS2Type /\ PS2Type' /\ RaiseLines
      /\ UNCHANGED <<pc, k, running, input, expect, config, sent>>
  BY FillType DEF PS2Inv
<1>2. CASE pc \in Over
  BY <1>1, <1>2, OverKeeps
<1>3. CASE pc \notin Over
  <2>1. ~Calm /\ ~Rest
    BY CalmHolds DEF Rest
  <2>2. /\ Situation /\ Identities /\ pc \in Labels /\ irqs = {} /\ running = None
        /\ k.port \in {1, 2}
    BY <1>3 DEF PS2Inv, Masks, PS2Type, Variables, Ports
  <2>3. pc \notin Early
    <3>1. CASE pc \in Early
      <4>1. \A p \in {0, 1, 2} : Waiting(p) = <<>>
        BY <2>2, <3>1 DEF Situation, Firmware
      <4> QED BY <4>1 DEF FillFromController, FillFromDevice, Waiting, Ports
    <3> QED BY <3>1
  <2>4. /\ pc \notin Resting \cup Configuring \cup Configured \cup Switching
        /\ pc \notin {"reset_2", "scan_off"}
    BY <2>1, <2>2 DEF Situation, Ordered, Asked, Wrote
  <2>5. \A p \in {0, 1, 2}, bytes \in Seq(Byte) :
          Owes(p, bytes) => Owes(p, bytes)' /\ (p = 0 => out'.port # 2)
    BY <1>1, Filled
  <2>6. \A b \in Byte : Owes(0, <<b>>) => Owes(0, <<b>>)' /\ out'.port # 2
    BY <2>5, ShortReplies
  <2>7. OwesByte => OwesByte' /\ out'.port # 2
    BY <2>6 DEF OwesByte
  <2>8. \A p \in {1, 2} :
          /\ Owes(p, <<ACK, SELF_TEST_OK>>) => Owes(p, <<ACK, SELF_TEST_OK>>)'
          /\ Owes(p, <<SELF_TEST_OK>>) => Owes(p, <<SELF_TEST_OK>>)'
          /\ Owes(p, <<RESEND>>) => Owes(p, <<RESEND>>)'
          /\ Owes(p, <<ACK>>) => Owes(p, <<ACK>>)'
          /\ Owes(p, <<ACK, KEYBOARD_ID[1], KEYBOARD_ID[2]>>)
               => Owes(p, <<ACK, KEYBOARD_ID[1], KEYBOARD_ID[2]>>)'
          /\ Owes(p, <<KEYBOARD_ID[1], KEYBOARD_ID[2]>>)
               => Owes(p, <<KEYBOARD_ID[1], KEYBOARD_ID[2]>>)'
          /\ Owes(p, <<KEYBOARD_ID[2]>>) => Owes(p, <<KEYBOARD_ID[2]>>)'
    BY <2>5, Bytes, ShortReplies
  <2>9. irqs' = {}
    <3>1. CASE pc = "config"
      <4>1. OwesByte
        BY <2>1, <2>2, <3>1 DEF Situation, Ordered, Wrote
      <4>2. 4 \in config
        BY <3>1 DEF PS2Inv, Masks
      <4> QED BY <1>1, <2>2, <2>7, <4>1, <4>2, Masked
    <3>2. CASE pc # "config"
      <4>1. config \cap IRQS = {}
        BY <1>3, <2>3, <2>4, <3>2 DEF PS2Inv, Masks
      <4> QED BY <1>1, <2>2, <4>1, Masked
    <3> QED BY <3>1, <3>2
  <2>10. Masks' /\ Identities'
    BY <1>1, <2>2, <2>9 DEF PS2Inv, Masks, Identities
  <2>11. Situation'
    <3>1. CASE pc \in {"config", "dual_config", "config_2", "test_result", "works_1", "works_2"}
      <4>1. /\ pc # "config_2" => OwesByte
            /\ pc = "config_2" => \E b \in Byte : 4 \notin b /\ Owes(0, <<b>>)
        BY <2>1, <2>2, <3>1 DEF Situation, Ordered, Wrote
      <4>2. /\ pc # "config_2" => OwesByte'
            /\ pc = "config_2" => \E b \in Byte : 4 \notin b /\ Owes(0, <<b>>)'
        BY <2>6, <2>7, <4>1
      <4> QED BY <1>1, <3>1, <4>2 DEF Situation
    <3>2. CASE pc \in {"ack_1", "result_1", "ack_2", "scan_off_ack", "identify_ack", "id",
                       "id_2", "scan_on_ack"}
      <4>1. /\ pc = "ack_1" => Owes(1, <<ACK, SELF_TEST_OK>>)
            /\ pc = "result_1" => Owes(1, <<SELF_TEST_OK>>)
            /\ pc = "ack_2" => Owes(2, <<RESEND>>)
            /\ pc = "scan_off_ack" /\ k.port = 1 => Owes(1, <<ACK>>)
            /\ pc = "scan_off_ack" /\ k.port = 2 => Owes(2, <<RESEND>>)
            /\ pc = "identify_ack" => Owes(1, <<ACK, KEYBOARD_ID[1], KEYBOARD_ID[2]>>)
            /\ pc = "id" => Owes(1, <<KEYBOARD_ID[1], KEYBOARD_ID[2]>>)
            /\ pc = "id_2" => Owes(1, <<KEYBOARD_ID[2]>>) /\ k.res = KEYBOARD_ID[1]
            /\ pc = "scan_on_ack" => Owes(1, <<ACK>>) /\ 4 \notin config
        BY <2>1, <2>2 DEF Situation, Asked, Wrote
      <4>2. /\ pc = "ack_1" => Owes(1, <<ACK, SELF_TEST_OK>>)'
            /\ pc = "result_1" => Owes(1, <<SELF_TEST_OK>>)'
            /\ pc = "ack_2" => Owes(2, <<RESEND>>)'
            /\ pc = "scan_off_ack" /\ k.port = 1 => Owes(1, <<ACK>>)'
            /\ pc = "scan_off_ack" /\ k.port = 2 => Owes(2, <<RESEND>>)'
            /\ pc = "identify_ack" => Owes(1, <<ACK, KEYBOARD_ID[1], KEYBOARD_ID[2]>>)'
            /\ pc = "id" => Owes(1, <<KEYBOARD_ID[1], KEYBOARD_ID[2]>>)'
            /\ pc = "id_2" => Owes(1, <<KEYBOARD_ID[2]>>)' /\ k.res = KEYBOARD_ID[1]
            /\ pc = "scan_on_ack" => Owes(1, <<ACK>>)' /\ 4 \notin config
        BY <2>8, <4>1
      <4> QED BY <1>1, <3>2, <4>2 DEF Situation
    <3> QED BY <1>3, <2>2, <2>3, <2>4, <3>1, <3>2 DEF Situation
  <2> QED BY <1>1, <1>3, <2>10, <2>11 DEF PS2Inv
<1> QED BY <1>2, <1>3

(* Keys and interrupts come only when init_ps2 is over.                    *)
LEMMA PressKeyKeeps ==
  ASSUME PS2Inv, NEW s \in ScanCodes, PressKey(s)
  PROVE  PS2Inv'
<1>1. pc = "done" /\ PS2Type
  BY PatientUser DEF PressKey, PS2Inv
<1>2. Append(queue[1], Item(s, 0)) \in Seq(Items)
  BY <1>1, PS2Assumption DEF PS2Assumption, PS2Type, Items, Item, Ports
<1>3. queue' \in [Ports -> Seq(Items)]
  BY <1>1, <1>2 DEF PressKey, PS2Type, Ports
<1>4. PS2Type'
  BY <1>1, <1>3 DEF PressKey, PS2Type
<1> QED BY <1>1, <1>4, OverKeeps DEF PressKey

LEMMA InterruptKeeps ==
  ASSUME PS2Inv, Interrupt
  PROVE  PS2Inv'
<1>1. pc \in Over /\ PS2Type
  BY DEF PS2Inv, Masks, Interrupt, Handle, TakeInterrupt
<1>2. UNCHANGED <<pc, k, input, expect, config>>
  BY DEF Interrupt, Handle, TakeInterrupt, controller
<1>3. PS2Type'
  <2>1. CASE Handle
    <3>1. out' \in [byte : Byte, of : Nat, port : 0 .. 2]
      <4>1. NoOutput \in [byte : Byte, of : Nat, port : 0 .. 2]
        BY Bytes DEF NoOutput
      <4> QED BY <1>1, <2>1, <4>1 DEF Handle, PS2Type
    <3> QED BY <1>1, <2>1, <3>1 DEF Handle, PS2Type, controller
  <2>2. CASE \E p \in Ports : TakeInterrupt(p)
    BY <1>1, <2>2 DEF TakeInterrupt, PS2Type, controller
  <2> QED BY <2>1, <2>2 DEF Interrupt
<1> QED BY <1>1, <1>2, <1>3, OverKeeps

LEMMA StutterKeeps ==
  ASSUME PS2Inv, UNCHANGED vars
  PROVE  PS2Inv'
<1>0. PS2Type'
  BY DEF PS2Inv, PS2Type, vars
<1>1. Masks' /\ (Identities => Identities')
  <2>1. UNCHANGED <<pc, k, irqs, running, input, config>>
    BY DEF vars
  <2> QED BY <2>1 DEF PS2Inv, Masks, Identities
<1>2. /\ Firmware' = Firmware /\ Rest' = Rest /\ Calm' = Calm
      /\ \A x : Free(x)' = Free(x)
      /\ \A b : Ordered(b)' = Ordered(b) /\ \A x : Asked(x, b)' = Asked(x, b)
  BY DEF Firmware, Rest, Calm, Full, Free, Waiting, Ordered, Asked, Wrote, vars
<1>3. \A p, bytes : Owes(p, bytes) => Owes(p, bytes)'
  <2> SUFFICES ASSUME NEW p, NEW bytes, Owes(p, bytes) PROVE Owes(p, bytes)'
    OBVIOUS
  <2> QED BY DEF Owes, Free, Comes, Matches, Waiting, Full, vars
<1>4. Situation => Situation'
  BY <1>2, <1>3 DEF Situation, OwesByte, vars
<1> QED BY <1>0, <1>1, <1>4 DEF PS2Inv, vars

LEMMA NextKeeps == PS2Inv /\ [Next]_vars => PS2Inv'
BY ConfigureKeeps, TestPortsKeeps, ResetDevicesKeeps, DetectDeviceKeeps, EnableInterruptsKeeps,
   TakeInputKeeps, FillKeeps, InterruptKeeps, PressKeyKeeps, StutterKeeps
DEF Next, InitPs2, Controller

-----------------------------------------------------------------------------
(* The theorems *)

LEMMA PS2Invariant == Spec => []PS2Inv
BY InitHolds, NextKeeps, PTL DEF Spec

(* The reads of init_ps2 are as many as the answers, in every branch: what *)
(* read_ps2_data takes while it waits is an answer to the last byte that   *)
(* was written, and never the rest of an earlier one or a key.             *)
THEOREM AnswersStayInStep == Spec => []AnswersInStep
<1>1. PS2Inv => AnswersInStep
  <2> SUFFICES ASSUME PS2Inv, pc \in Reads, Full PROVE out.of = sent
    BY DEF AnswersInStep
  <2>1. Situation /\ k.port \in {1, 2} /\ pc # "result_2"
    BY DEF PS2Inv, PS2Type, Situation, Variables, Ports
  <2>2. \A b : ~Ordered(b) /\ \A x : ~Asked(x, b)
    BY DEF Ordered, Asked, Wrote, Calm
  <2>3. \E p \in {0, 1, 2} : \E bytes : Owes(p, bytes)
    BY <2>1, <2>2 DEF Situation, OwesByte
  <2> QED BY <2>3 DEF Owes, Comes
<1> QED BY <1>1, PS2Invariant, PTL

(* init_ps2 ends with the first port enabled and with both interrupts on:  *)
(* the configuration byte it writes last was read after the device of the  *)
(* first port had been sent a byte, which enables it.                      *)
THEOREM BothInterruptsOn == Spec => []InterruptsEnabled
<1>1. PS2Inv => InterruptsEnabled
  BY DEF PS2Inv, Situation, InterruptsEnabled, NoInput
<1> QED BY <1>1, PS2Invariant, PTL

(* detect_ps2_device finds the keyboard on a first port that works: the    *)
(* two bytes it reads after the acknowledgement are the identity.          *)
THEOREM KeyboardFound == Spec => []KeyboardIdentified
<1>1. PS2Inv => KeyboardIdentified
  BY DEF PS2Inv, Identities, KeyboardIdentified
<1> QED BY <1>1, PS2Invariant, PTL

-----------------------------------------------------------------------------
(* No poll waits in vain: a device that has bytes to send may send them    *)
(* while init_ps2 runs, and when it is over a byte in the output buffer    *)
(* has an interrupt request of the keyboard behind it.                     *)
Open == \A p \in Ports : pc \notin Over /\ queue[p] # <<>> => p + 3 \notin config

Aftermath ==
  /\ pc \in Over => /\ answers = <<>> /\ queue[2] = <<>>
                    /\ irqs \subseteq {1} /\ running \in {None, 1}
  /\ pc \in {"absent", "failed"} => irqs = {} /\ running = None /\ queue[1] = <<>>
  /\ pc = "done" =>
       /\ Full => out.port = 1
       /\ input # NoInput => irqs = {} /\ running = None /\ config \cap IRQS = {}
       /\ input = NoInput => /\ Full <=> 1 \in irqs \/ running = 1
                             /\ ~(1 \in irqs /\ running = 1)

Served == PS2Inv /\ Open /\ Aftermath

LEMMA InitStep ==
  ASSUME InitPs2
  PROVE  /\ UNCHANGED <<controller, irqs, running>> /\ irqs = {} /\ running = None
         /\ pc \in Labels \ Over
<1>1. \/ Configure \/ TestPorts \/ ResetDevices \/ DetectDevice \/ EnableInterrupts
  BY DEF InitPs2
<1> USE DEF Goto, Read, ReadTo, Outb, SendCommand, SendData, SendIf, SkipPort, Step, controller
<1>2. CASE Configure
  BY <1>2 DEF Configure
<1>3. CASE TestPorts
  BY <1>3 DEF TestPorts
<1>4. CASE ResetDevices
  BY <1>4 DEF ResetDevices
<1>5. CASE DetectDevice
  BY <1>5 DEF DetectDevice
<1>6. CASE EnableInterrupts
  BY <1>6 DEF EnableInterrupts
<1> QED BY <1>1, <1>2, <1>3, <1>4, <1>5, <1>6

(* The ways in which init_ps2 ends                                         *)
LEMMA LastStep ==
  ASSUME InitPs2, pc' \in Over
  PROVE  \/ /\ pc = "begin" /\ pc' = "absent"
         \/ /\ pc = "test_result" /\ pc' = "failed" /\ Full /\ out' = NoOutput
            /\ UNCHANGED <<input, sent>>
         \/ /\ pc = "out_config_2" /\ pc' = "done" /\ UNCHANGED out
            /\ input' = [byte |-> k.config, register |-> "data"]
<1>1. \/ Configure \/ TestPorts \/ ResetDevices \/ DetectDevice \/ EnableInterrupts
  BY DEF InitPs2
<1> USE DEF Goto, Read, ReadTo, Outb, SendCommand, SendData, SendIf, SkipPort, Step
<1>2. CASE Configure
  BY <1>2 DEF Configure
<1>3. CASE TestPorts
  BY <1>3 DEF TestPorts
<1>4. CASE ResetDevices
  BY <1>4 DEF ResetDevices
<1>5. CASE DetectDevice
  BY <1>5 DEF DetectDevice, NextPort
<1>6. CASE EnableInterrupts
  BY <1>6 DEF EnableInterrupts
<1> QED BY <1>1, <1>2, <1>3, <1>4, <1>5, <1>6

(* A byte that init_ps2 has written finds no other on its way.             *)
LEMMA WrittenAlone ==
  ASSUME PS2Inv, pc \notin Over, input # NoInput
  PROVE  answers = <<>> /\ queue[1] = <<>> /\ queue[2] = <<>>
<1>1. /\ \A x : ~Free(x)
      /\ ~Rest /\ \A p, bytes : ~Owes(p, bytes)
  BY DEF Free, Rest, Owes
<1>2. ~OwesByte /\ \A b : ~Owes(0, <<b>>)
  BY <1>1 DEF OwesByte
<1>3. /\ Situation /\ pc \in Labels /\ k.port \in {1, 2} /\ pc \notin {"absent", "failed"}
  BY DEF PS2Inv, Masks, PS2Type, Variables, Ports
<1>4. CASE pc \in Early
  BY <1>3, <1>4 DEF Situation, Firmware, Waiting
<1>5. CASE pc \notin Early
  <2>1. /\ \A b : Ordered(b) => Calm
        /\ \A x, b : Asked(x, b) => Calm
    BY DEF Ordered, Asked, Wrote
  <2>2. CASE pc \in Resting \cup Configuring \cup Configured \cup Switching
    BY <1>1, <1>3, <2>1, <2>2 DEF Situation, Calm, Waiting
  <2>3. CASE pc \in {"reset_2", "scan_off"}
    BY <1>1, <1>3, <2>1, <2>3 DEF Situation, Calm, Waiting
  <2>4. CASE pc \in Reads
    <3>1. Calm
      BY <1>1, <1>2, <1>3, <2>1, <2>4 DEF Situation
    <3> QED BY <3>1 DEF Calm, Waiting
  <2> QED BY <1>3, <1>5, <2>2, <2>3, <2>4
<1> QED BY <1>4, <1>5

LEMMA InitServed ==
  ASSUME Served, InitPs2
  PROVE  Open' /\ Aftermath'
<1>1. /\ UNCHANGED <<controller, irqs, running>> /\ irqs = {} /\ running = None
      /\ pc \in Labels \ Over
  BY InitStep
<1>2. Open'
  BY <1>1 DEF Served, Open, controller
<1>3. PS2Type /\ PS2Type' /\ Situation /\ pc \notin {"absent", "failed"}
  BY <1>1, StepType DEF Served, PS2Inv
<1>4. CASE pc' \notin Over
  BY <1>2, <1>4 DEF Aftermath
<1>5. CASE pc = "begin" /\ pc' = "absent"
  <2>1. answers = <<>> /\ queue[1] = <<>> /\ queue[2] = <<>>
    BY <1>3, <1>5 DEF Situation, Firmware, Waiting
  <2> QED BY <1>1, <1>2, <1>5, <2>1 DEF Aftermath, controller
<1>6. CASE /\ pc = "test_result" /\ pc' = "failed" /\ Full /\ out' = NoOutput
           /\ UNCHANGED <<input, sent>>
  <2>1. PICK b \in Byte : Owes(0, <<b>>)
    BY <1>3, <1>6 DEF Situation, OwesByte, Ordered, Wrote, Calm
  <2>2. UNCHANGED <<input, expect, answers, queue, sent>>
    BY <1>1, <1>6 DEF controller
  <2>3. Rest'
    BY <1>3, <1>6, <2>1, <2>2, LastByte
  <2> QED BY <1>1, <1>2, <1>6, <2>3 DEF Aftermath, Rest, Calm, Waiting
<1>7. CASE /\ pc = "out_config_2" /\ pc' = "done" /\ UNCHANGED out
           /\ input' = [byte |-> k.config, register |-> "data"]
  <2>1. Calm
    BY <1>3, <1>7 DEF Situation, Ordered, Wrote
  <2>2. config \cap IRQS = {}
    BY <1>7 DEF Served, PS2Inv, Masks
  <2>3. answers = <<>> /\ queue[2] = <<>> /\ ~Full'
    BY <1>7, <2>1 DEF Calm, Waiting, Full
  <2>4. input' # NoInput
    BY <1>7 DEF NoInput
  <2> QED BY <1>1, <1>2, <1>7, <2>2, <2>3, <2>4 DEF Aftermath, controller
<1> QED BY <1>2, <1>4, <1>5, <1>6, <1>7, LastStep

(* What TakeInput may change: only the queue of a device that it enables.  *)
LEMMA TakesOne ==
  ASSUME TakeInput, PS2Type
  PROVE  /\ UNCHANGED <<pc, k, running, out, sent, keys>> /\ input' = NoInput
         /\ \A p \in Ports : queue'[p] # queue[p] => p + 3 \notin config'
<1>1. CASE input.register = "command" /\ TakesCommand(input.byte)
  BY <1>1 DEF TakeInput, TakesCommand
<1>2. CASE input.register = "data" /\ TakesData(input.byte)
  <2>1. CASE UNCHANGED queue
    BY <1>2, <2>1 DEF TakeInput
  <2>2. CASE \E p \in Ports : SendsToDevice(p, input.byte)
    <3>1. PICK p \in Ports : SendsToDevice(p, input.byte)
      BY <2>2
    <3>2. p + 3 \notin config' /\ \A q \in Ports \ {p} : queue'[q] = queue[q]
      BY <3>1 DEF SendsToDevice, PS2Type, Ports
    <3> QED BY <1>2, <3>2 DEF TakeInput
  <2> QED BY <1>2, <2>1, <2>2 DEF TakesData, Ports
<1> QED BY <1>1, <1>2 DEF TakeInput

LEMMA TakeServed ==
  ASSUME Served, TakeInput
  PROVE  Open' /\ Aftermath'
<1>1. /\ UNCHANGED <<pc, k, running, out, sent, keys>> /\ input' = NoInput /\ RaiseLines
      /\ PS2Type /\ input # NoInput
  BY TakesOne DEF Served, PS2Inv, TakeInput
<1>2. CASE pc \notin Over
  <2>1. Open'
    BY <1>1, <1>2, TakesOne, WrittenAlone DEF Served, Open, Ports
  <2> QED BY <1>1, <1>2, <2>1 DEF Aftermath
<1>3. CASE pc \in Over
  <2>1. pc = "done" /\ Situation
    BY <1>1, <1>3 DEF Served, PS2Inv
  <2>2. /\ input = [byte |-> k.config, register |-> "data"] /\ expect = "config"
        /\ IRQS \subseteq k.config /\ 4 \notin k.config
    BY <1>1, <2>1 DEF Situation, Served, PS2Inv, Masks
  <2>3. config' = k.config /\ UNCHANGED <<queue, answers>>
    BY <2>2 DEF TakeInput, TakesData
  <2>4. /\ irqs = {} /\ running = None /\ config \cap IRQS = {}
        /\ Full => out.port = 1
        /\ answers = <<>> /\ queue[2] = <<>>
    BY <1>1, <2>1 DEF Served, Aftermath
  <2>5. Lines(config, out) = {}
    BY <2>4 DEF Lines, IRQS, Ports
  <2>6. Lines(config', out') = IF Full THEN {1} ELSE {}
    <3>1. ~Full => out.port = 0
      BY DEF Full, NoOutput
    <3>2. 0 \in config' /\ 4 \notin config' /\ out' = out
      BY <1>1, <2>2, <2>3 DEF IRQS
    <3> QED BY <2>4, <3>1, <3>2 DEF Lines, Ports
  <2>7. irqs' = IF Full THEN {1} ELSE {}
    BY <1>1, <2>4, <2>5, <2>6 DEF RaiseLines
  <2>8. Full' = Full
    BY <1>1 DEF Full
  <2>9. Open'
    BY <1>1, <2>1 DEF Open
  <2> QED BY <1>1, <2>1, <2>3, <2>4, <2>7, <2>8, <2>9 DEF Aftermath, None
<1> QED BY <1>2, <1>3

LEMMA FillServed ==
  ASSUME Served, FillFromController \/ \E p \in Ports : FillFromDevice(p)
  PROVE  Open' /\ Aftermath'
<1>1. /\ UNCHANGED <<pc, k, running, input, expect, config, sent>> /\ RaiseLines
      /\ PS2Type /\ ~Full
  BY FillType DEF Served, PS2Inv, FillFromController, FillFromDevice
<1>2. \A p \in Ports : queue'[p] # <<>> => queue[p] # <<>>
  BY <1>1 DEF FillFromController, FillFromDevice, PS2Type
<1>3. Open'
  BY <1>1, <1>2 DEF Served, Open
<1>4. CASE pc \notin Over
  BY <1>1, <1>3, <1>4 DEF Aftermath
<1>5. CASE pc \in Over
  <2>1. answers = <<>> /\ queue[2] = <<>> /\ irqs \subseteq {1} /\ running \in {None, 1}
    BY <1>5 DEF Served, Aftermath
  <2>2. FillFromDevice(1) /\ pc = "done"
    BY <1>5, <2>1 DEF FillFromController, FillFromDevice, Ports, Served, Aftermath
  <2>3. out' = Output(1, Head(queue[1])) /\ UNCHANGED answers /\ queue'[2] = <<>>
    BY <1>1, <2>1, <2>2 DEF FillFromDevice, PS2Type, Ports
  <2>4. out'.port = 1 /\ Full'
    BY <2>3 DEF Output, Full, NoOutput
  <2>5. Lines(config, out) = {}
    BY <1>1 DEF Full, NoOutput, Lines, Ports
  <2>6. CASE input # NoInput
    <3>1. irqs = {} /\ running = None /\ config \cap IRQS = {}
      BY <2>2, <2>6 DEF Served, Aftermath
    <3>2. irqs' = {}
      BY <1>1, <3>1, Masked
    <3> QED BY <1>1, <1>3, <2>1, <2>2, <2>3, <2>4, <2>6, <3>1, <3>2 DEF Aftermath
  <2>7. CASE input = NoInput
    <3>1. IRQS \subseteq config /\ 4 \notin config
      BY <2>2, <2>7 DEF Served, PS2Inv, Situation, NoInput
    <3>2. Lines(config', out') = {1}
      BY <1>1, <2>4, <3>1 DEF Lines, IRQS, Ports
    <3>3. irqs' = irqs \cup {1}
      BY <1>1, <2>5, <3>2 DEF RaiseLines
    <3>4. running # 1
      BY <1>1, <2>2, <2>7 DEF Served, Aftermath
    <3> QED BY <1>1, <1>3, <2>1, <2>2, <2>3, <2>4, <2>7, <3>3, <3>4 DEF Aftermath
  <2> QED BY <2>6, <2>7
<1> QED BY <1>4, <1>5

LEMMA InterruptServed ==
  ASSUME Served, Interrupt
  PROVE  Open' /\ Aftermath'
<1>1. UNCHANGED <<pc, input, config, answers, queue>>
  BY DEF Interrupt, Handle, TakeInterrupt, controller
<1>2. Open'
  BY <1>1 DEF Served, Open
<1>3. pc = "done" /\ irqs \subseteq {1} /\ running \in {None, 1} /\ input = NoInput
  <2>1. pc \in Over /\ (irqs # {} \/ running # None)
    BY DEF Served, PS2Inv, Masks, Interrupt, Handle, TakeInterrupt
  <2> QED BY <2>1 DEF Served, Aftermath
<1>4. CASE Handle
  <2>1. running = 1 /\ running' = None /\ out' = NoOutput /\ UNCHANGED irqs /\ 1 \notin irqs
    BY <1>3, <1>4 DEF Handle, Served, Aftermath
  <2> QED BY <1>1, <1>2, <1>3, <2>1 DEF Served, Aftermath, Full, None
<1>5. CASE \E p \in Ports : TakeInterrupt(p)
  <2>1. /\ 1 \in irqs /\ running = None /\ running' = 1 /\ irqs' = irqs \ {1} /\ UNCHANGED out
    BY <1>3, <1>5 DEF TakeInterrupt
  <2> QED BY <1>1, <1>2, <1>3, <2>1 DEF Served, Aftermath, Full, None
<1> QED BY <1>4, <1>5 DEF Interrupt

LEMMA KeyServed ==
  ASSUME Served, NEW s \in ScanCodes, PressKey(s)
  PROVE  Open' /\ Aftermath'
<1>1. pc = "done" /\ UNCHANGED <<pc, irqs, running, input, config, answers, out>>
  BY PatientUser DEF PressKey
<1>2. queue'[2] = queue[2]
  BY DEF PressKey, Served, PS2Inv, PS2Type, Ports
<1> QED BY <1>1, <1>2 DEF Served, Open, Aftermath, Full

LEMMA StutterServed ==
  ASSUME Served, UNCHANGED vars
  PROVE  Open' /\ Aftermath'
<1>1. UNCHANGED <<pc, irqs, running, input, config, answers, queue, out>>
  BY DEF vars
<1> QED BY <1>1 DEF Served, Open, Aftermath, Full

LEMMA InvariantServed == Spec => []Served
<1>1. Init => Served
  BY InitHolds DEF Init, Served, Open, Aftermath, Ports
<1>2. Served /\ [Next]_vars => Served'
  <2> SUFFICES ASSUME Served, [Next]_vars PROVE Served'
    OBVIOUS
  <2>1. PS2Inv'
    BY NextKeeps DEF Served
  <2>2. Open' /\ Aftermath'
    BY InitServed, TakeServed, FillServed, InterruptServed, KeyServed, StutterServed
    DEF Next, Controller
  <2> QED BY <2>1, <2>2 DEF Served
<1> QED BY <1>1, <1>2, PTL DEF Spec

(* While a byte is owed one is there or can come.                          *)
LEMMA OwedComes ==
  ASSUME PS2Inv, Open, pc \notin Over, NEW p \in {0, 1, 2}, NEW bytes, Len(bytes) > 0,
         Owes(p, bytes)
  PROVE  Coming
<1>1. Full \/ Len(Waiting(p)) = Len(bytes)
  BY DEF Owes, Comes, Matches
<1>2. Full \/ Waiting(p) # <<>>
  BY <1>1
<1> QED BY <1>2 DEF Waiting, Coming, Open, Ports

(* No poll of the driver waits in vain, although none has a timeout: where *)
(* init_ps2 reads, the answer is there or can come; the handler, which     *)
(* polls with interrupts off, was called for a byte that is still there;   *)
(* and afterwards every byte has its request, so that none stays behind.   *)
THEOREM PollsAreAnswered == Spec => []NothingWaitsInVain
<1>1. Served => NothingWaitsInVain
  <2> SUFFICES ASSUME Served PROVE NothingWaitsInVain
    OBVIOUS
  <2>1. running = 1 => Full
    <3> SUFFICES ASSUME running = 1 PROVE Full
      OBVIOUS
    <3>1. pc \in Over /\ running # None
      BY DEF Served, PS2Inv, Masks, None
    <3> QED BY <3>1 DEF Served, Aftermath
  <2>2. pc = "done" /\ input = NoInput /\ Full => out.port \in irqs \cup {running}
    BY DEF Served, Aftermath
  <2>3. ASSUME pc \in Reads, input = NoInput
        PROVE  Coming
    <3>1. Situation /\ k.port \in {1, 2} /\ pc # "result_2"
      BY <2>3 DEF Served, PS2Inv, PS2Type, Situation, Variables, Ports
    <3>2. \A b \in Byte : ~Ordered(b) /\ \A x : ~Asked(x, b)
      BY <2>3 DEF Ordered, Asked, Wrote, NoInput
    <3>3. PICK p \in {0, 1, 2}, b \in Byte :
            \/ Owes(p, <<b>>)
            \/ \E d \in Byte : Owes(p, <<b, d>>)
            \/ \E d, e \in Byte : Owes(p, <<b, d, e>>)
      BY <2>3, <3>1, <3>2, Bytes, Commands DEF Situation, OwesByte
    <3>4. \E bytes : Len(bytes) > 0 /\ Owes(p, bytes)
      <4>1. Len(<<b>>) > 0 /\ \A d, e \in Byte : Len(<<b, d>>) > 0 /\ Len(<<b, d, e>>) > 0
        OBVIOUS
      <4> QED BY <3>3, <4>1
    <3> QED BY <2>3, <3>4, OwedComes DEF Served
  <2> QED BY <2>1, <2>2, <2>3 DEF NothingWaitsInVain
<1> QED BY <1>1, InvariantServed, PTL

-----------------------------------------------------------------------------
(* Every step that is not a key of the user makes this number smaller: the *)
(* steps init_ps2 has left, with the bytes and requests under way.  A byte *)
(* that is written makes at most four others, the first port's devices are *)
(* detected before the second port's.                                      *)
Rank ==
  [done |-> 0, failed |-> 0, absent |-> 0, out_config_2 |-> 1, set_config_2 |-> 2,
   config_2 |-> 3, get_config_2 |-> 4, scan_on_ack |-> 5, scan_on |-> 6, id_2 |-> 7, id |-> 8,
   identify_ack |-> 9, identify |-> 10, scan_off_ack |-> 11, scan_off |-> 12, direct |-> 13,
   detect |-> 14, result_2 |-> 23, ack_2 |-> 24, reset_2 |-> 25, port_2 |-> 26,
   result_1 |-> 27, ack_1 |-> 28, reset_1 |-> 29, enable_2 |-> 30, enable_1 |-> 31,
   works_2 |-> 32, test_2 |-> 33, works_1 |-> 34, test_1 |-> 35, redisable |-> 36,
   dual_config |-> 37, get_dual |-> 38, dual |-> 39, out_restore |-> 40, restore |-> 41,
   test_result |-> 42, test |-> 43, out_config |-> 44, set_config |-> 45, config |-> 46,
   get_config |-> 47, flush |-> 48, disable_2 |-> 49, disable_1 |-> 50, begin |-> 51]

Ones(condition) == IF condition THEN 1 ELSE 0
Stage == Rank[pc] + 8 * Ones(k.port = 1)
Size(p) == Len(Waiting(p))
UnderWay == Size(0) + Size(1) + Size(2)
Requests == Ones(1 \in irqs) + Ones(2 \in irqs)

WorkLeft ==
  21 * Stage + 20 * Ones(input # NoInput) + 5 * UnderWay + Ones(Full) + 2 * Requests
    + Ones(running # None)

LEMMA InitAdvances ==
  ASSUME InitPs2, PS2Type
  PROVE  \/ Stage \in Nat /\ Stage' \in Nat /\ Stage' < Stage
         \/ UNCHANGED <<pc, k, input>> /\ Full /\ ~Full' /\ Stage' = Stage /\ Stage \in Nat
<1>1. \/ Configure \/ TestPorts \/ ResetDevices \/ DetectDevice \/ EnableInterrupts
  BY DEF InitPs2
<1>0. k \in Variables /\ k.port \in {1, 2}
  BY DEF PS2Type, Variables, Ports
<1> USE DEF Goto, Read, ReadTo, Outb, SendCommand, SendData, SendIf, SkipPort, Step, Stage, Ones
<1>2. CASE Configure
  <2>1. CASE Read("flush", IF data = {} THEN "get_config" ELSE "flush", k)
    <3>1. /\ Full /\ ~Full' /\ UNCHANGED <<k, input>>
          /\ pc = "flush" /\ pc' \in {"flush", "get_config"}
      BY <2>1 DEF Full
    <3> QED BY <1>0, <3>1 DEF Rank
  <2>2. CASE Read("config", "set_config", [k EXCEPT !.config = data \cap KEEP])
    BY <1>0, <2>2 DEF Rank, Variables
  <2>3. CASE \/ Goto("begin", TRUE, "disable_1") \/ Goto("begin", TRUE, "absent")
             \/ Goto("flush", ~Full, "get_config")
    BY <1>0, <2>3 DEF Rank
  <2>4. CASE \/ Outb("disable_1", "command", DISABLE_1, "disable_2")
             \/ Outb("disable_2", "command", DISABLE_2, "flush")
             \/ SendCommand("get_config", GET_CONFIG, "config")
             \/ SendCommand("set_config", SET_CONFIG, "out_config")
             \/ Outb("out_config", "data", k.config, "test")
    BY <1>0, <2>4 DEF Rank
  <2> QED BY <1>2, <2>1, <2>2, <2>3, <2>4 DEF Configure
<1>3. CASE TestPorts
  BY <1>0, <1>3 DEF TestPorts, Rank, Variables
<1>4. CASE ResetDevices
  BY <1>0, <1>4 DEF ResetDevices, Rank
<1>5. CASE DetectDevice
  <2>1. CASE SkipPort
    <3>1. pc = "detect" /\ pc' = NextPort /\ k'.port = 2
      BY <1>0, <2>1 DEF Variables
    <3> QED BY <1>0, <3>1 DEF Rank, NextPort
  <2>2. CASE Goto("detect", Works, IF k.port = 2 THEN "direct" ELSE "scan_off")
    BY <1>0, <2>2 DEF Rank
  <2>3. CASE Read("id_2", NextPort, [k EXCEPT !.device[k.port] = k.res, !.port = 2])
    <3>1. pc = "id_2" /\ pc' = NextPort /\ k'.port = 2
      BY <1>0, <2>3 DEF Variables
    <3> QED BY <1>0, <3>1 DEF Rank, NextPort
  <2>4. CASE Read("id", "id_2", [k EXCEPT !.res = data])
    BY <1>0, <2>4 DEF Rank, Variables
  <2>5. CASE \/ SendCommand("direct", TO_PORT_2, "scan_off")
             \/ SendData("scan_off", SCAN_OFF, "scan_off_ack")
             \/ ReadTo("scan_off_ack", "identify")
             \/ SendData("identify", IDENTIFY, "identify_ack")
             \/ ReadTo("identify_ack", "id")
    BY <1>0, <2>5 DEF Rank
  <2> QED BY <1>5, <2>1, <2>2, <2>3, <2>4, <2>5 DEF DetectDevice
<1>6. CASE EnableInterrupts
  BY <1>0, <1>6 DEF EnableInterrupts, Rank, Variables
<1> QED BY <1>1, <1>2, <1>3, <1>4, <1>5, <1>6

LEMMA StepFills ==
  ASSUME InitPs2, PS2Type
  PROVE  Full' => Full
<1>1. out' \in {out, NoOutput}
  BY DEF InitPs2, Configure, TestPorts, ResetDevices, DetectDevice, EnableInterrupts, Goto, Read,
         ReadTo, Outb, SendCommand, SendData, SendIf, SkipPort
<1> QED BY <1>1 DEF Full

LEMMA ReplyLength ==
  ASSUME PS2Type, NEW p \in Ports, NEW b
  PROVE  Len(Replies(Device(p), b)) \in 0 .. 3
<1> DEFINE bytes == Reply(Device(p), b)
<1>1. bytes \in Seq(Byte)
  BY ReplyType
<1>2. Replies(Device(p), b) = [i \in 1 .. Len(bytes) |-> Item(bytes[i], sent)]
  BY <1>1 DEF Replies
<1>3. Len(bytes) \in 0 .. 3
  <2>1. bytes \in {<<ACK>>, <<RESEND>>, <<ACK, SELF_TEST_OK>>,
                   <<ACK, KEYBOARD_ID[1], KEYBOARD_ID[2]>>}
    <3>1. b \notin {RESET, SCAN_OFF, SCAN_ON, IDENTIFY} => Reply("keyboard", b) = <<RESEND>>
      BY DEF Reply
    <3> QED BY <3>1, KeyboardReplies DEF Ports
  <2> HIDE DEF bytes
  <2> QED BY <2>1
<1> HIDE DEF bytes
<1>4. [i \in 1 .. Len(bytes) |-> Item(bytes[i], sent)] \in Seq(Items)
  BY <1>2, RepliesType
<1> QED BY <1>2, <1>3, <1>4

LEMMA Counted ==
  ASSUME PS2Type
  PROVE  /\ \A p \in {0, 1, 2} : Size(p) \in Nat
         /\ UnderWay \in Nat /\ Requests \in 0 .. 2
<1>1. \A p \in {0, 1, 2} : Size(p) \in Nat
  <2> SUFFICES ASSUME NEW p \in {0, 1, 2} PROVE Size(p) \in Nat
    OBVIOUS
  <2>1. Waiting(p) \in Seq(Items)
    BY WaitingType
  <2> QED BY <2>1 DEF Size
<1>2. UnderWay \in Nat
  BY <1>1 DEF UnderWay
<1>3. Requests \in 0 .. 2
  BY DEF Requests, Ones
<1> QED BY <1>1, <1>2, <1>3

LEMMA RankType == pc \in Labels => Rank[pc] \in Nat
BY DEF Rank

LEMMA WorkType ==
  ASSUME PS2Inv
  PROVE  Stage \in Nat /\ WorkLeft \in Nat
<1>1. PS2Type /\ pc \in Labels
  BY DEF PS2Inv, Masks
<1>2. Stage \in Nat
  BY <1>1, RankType DEF Stage, Ones
<1> QED BY <1>1, <1>2, Counted DEF WorkLeft, Ones

LEMMA Lighter ==
  ASSUME NEW a \in Nat, NEW b \in Nat, a < b
  PROVE  21 * a + 21 <= 21 * b /\ 21 * a \in Nat /\ 21 * b \in Nat
OBVIOUS

LEMMA InitCounts ==
  ASSUME PS2Inv, InitPs2
  PROVE  WorkLeft' < WorkLeft
<1>1. UnderWay' = UnderWay /\ Requests' = Requests /\ UNCHANGED running
  BY InitStep DEF UnderWay, Size, Waiting, Requests, Ones, controller
<1>2. UnderWay \in Nat /\ Requests \in Nat
  BY Counted DEF PS2Inv
<1>3. CASE Stage \in Nat /\ Stage' \in Nat /\ Stage' < Stage
  <2>1. 21 * Stage' + 21 <= 21 * Stage /\ 21 * Stage' \in Nat /\ 21 * Stage \in Nat
    BY <1>3, Lighter
  <2>2. Full' => Full
    BY StepFills DEF PS2Inv
  <2>3. /\ Ones(Full)' <= Ones(Full) /\ Ones(Full)' \in 0 .. 1 /\ Ones(Full) \in 0 .. 1
        /\ Ones(input # NoInput)' \in 0 .. 1 /\ Ones(input # NoInput) \in 0 .. 1
        /\ Ones(running # None)' = Ones(running # None) /\ Ones(running # None) \in 0 .. 1
    BY <1>1, <2>2 DEF Ones
  <2> QED BY <1>1, <1>2, <1>3, <2>1, <2>3 DEF WorkLeft
<1>4. CASE UNCHANGED <<pc, k, input>> /\ Full /\ ~Full' /\ Stage' = Stage /\ Stage \in Nat
  BY <1>1, <1>2, <1>4 DEF WorkLeft, Ones
<1> QED BY <1>3, <1>4, InitAdvances DEF PS2Inv

(* A byte that is taken from the input buffer makes at most three others.  *)
LEMMA TakeAdds ==
  ASSUME PS2Type, TakeInput
  PROVE  UnderWay' \in Nat /\ UnderWay' <= UnderWay + 3
<1>1. CASE input.register = "command" /\ TakesCommand(input.byte)
  <2>1. UNCHANGED queue /\ (UNCHANGED answers \/ \E x : Answer(x))
    BY <1>1 DEF TakesCommand
  <2>2. \A x : Answer(x) => Size(0)' = Size(0) + 1
    BY DEF Answer, PS2Type, Size, Waiting
  <2>3. Size(1)' = Size(1) /\ Size(2)' = Size(2) /\ Size(0)' \in {Size(0), Size(0) + 1}
    BY <2>1, <2>2 DEF Size, Waiting
  <2> QED BY <2>3, Counted DEF UnderWay
<1>2. CASE input.register = "data" /\ TakesData(input.byte)
  <2>1. Size(0)' = Size(0)
    BY <1>2 DEF TakesData, Size, Waiting
  <2>2. CASE UNCHANGED queue
    <3>1. Size(1)' = Size(1) /\ Size(2)' = Size(2)
      BY <2>2 DEF Size, Waiting
    <3> QED BY <2>1, <3>1, Counted DEF UnderWay
  <2>3. CASE \E p \in Ports : SendsToDevice(p, input.byte)
    <3>1. PICK p \in Ports : SendsToDevice(p, input.byte)
      BY <2>3
    <3> DEFINE reply == Replies(Device(p), input.byte)
    <3>2. reply \in Seq(Items) /\ Len(reply) \in 0 .. 3
      BY RepliesType, ReplyLength
    <3>3. queue[p] \in Seq(Items) /\ p \in {1, 2}
      BY DEF PS2Type, Ports
    <3>4. queue' = [queue EXCEPT ![p] = reply] \/ queue' = [queue EXCEPT ![p] = queue[p] \o reply]
      BY <3>1 DEF SendsToDevice, PS2Type
    <3> HIDE DEF reply
    <3>5. Len(queue[p] \o reply) = Len(queue[p]) + Len(reply)
      BY <3>2, <3>3
    <3>6. queue'[p] \in {reply, queue[p] \o reply} /\ \A q \in Ports \ {p} : queue'[q] = queue[q]
      BY <3>4 DEF PS2Type
    <3>7. Size(p)' = Len(reply) \/ Size(p)' = Size(p) + Len(reply)
      <4>1. Size(p)' = Len(queue'[p]) /\ Size(p) = Len(queue[p])
        BY <3>3 DEF Size, Waiting
      <4> QED BY <3>5, <3>6, <4>1
    <3>8. Size(p) \in Nat
      BY <3>3, Counted
    <3>9. Size(p)' \in Nat /\ Size(p)' <= Size(p) + 3
      <4>1. PICK n \in 0 .. 3 : n = Len(reply)
        BY <3>2
      <4> QED BY <3>7, <3>8, <4>1
    <3>10. \A q \in {1, 2} \ {p} : Size(q)' = Size(q)
      BY <3>6 DEF Size, Waiting, Ports
    <3> QED BY <2>1, <3>3, <3>9, <3>10, Counted DEF UnderWay
  <2> QED BY <1>2, <2>2, <2>3 DEF TakesData, Ports
<1> QED BY <1>1, <1>2 DEF TakeInput

LEMMA TakeWeighed ==
  ASSUME NEW s \in Nat, NEW b \in Nat, NEW a \in Nat, a <= b + 3, NEW r \in 0 .. 2,
         NEW q \in 0 .. 2, NEW n \in 0 .. 2
  PROVE  21 * s + 5 * a + 2 * q + n < 21 * s + 20 + 5 * b + 2 * r + n
OBVIOUS

LEMMA TakeCounts ==
  ASSUME PS2Inv, TakeInput
  PROVE  WorkLeft' < WorkLeft
<1>1. /\ UNCHANGED <<pc, k, running, out, sent, keys>> /\ input # NoInput /\ input' = NoInput
      /\ PS2Type /\ Stage \in Nat
  BY TakesOne, WorkType DEF PS2Inv, TakeInput
<1>2. Stage' = Stage /\ Full' = Full
  BY <1>1 DEF Stage, Full
<1>3. UnderWay \in Nat /\ Requests \in 0 .. 2 /\ Requests' \in 0 .. 2
  BY <1>1, Counted DEF Requests, Ones
<1>4. UnderWay' \in Nat /\ UnderWay' <= UnderWay + 3
  BY <1>1, TakeAdds
<1>5. PICK rest \in 0 .. 2 : /\ rest = Ones(Full) + Ones(running # None)
                            /\ rest = Ones(Full)' + Ones(running # None)'
  BY <1>1, <1>2 DEF Ones
<1>6. /\ WorkLeft = 21 * Stage + 20 + 5 * UnderWay + 2 * Requests + rest
      /\ WorkLeft' = 21 * Stage + 5 * UnderWay' + 2 * Requests' + rest
  BY <1>1, <1>2, <1>3, <1>4, <1>5 DEF WorkLeft, Ones
<1> QED BY <1>1, <1>3, <1>4, <1>6, TakeWeighed

LEMMA FillCounts ==
  ASSUME PS2Inv, FillFromController \/ \E p \in Ports : FillFromDevice(p)
  PROVE  WorkLeft' < WorkLeft
<1>1. /\ UNCHANGED <<pc, k, running, input, expect, config, sent>> /\ RaiseLines
      /\ PS2Type /\ ~Full /\ Stage \in Nat
  BY FillType, WorkType DEF PS2Inv, FillFromController, FillFromDevice
<1>2. Stage' = Stage
  BY <1>1 DEF Stage
<1>3. UnderWay \in Nat /\ UnderWay' = UnderWay - 1
  <2>1. PICK p \in {0, 1, 2} : /\ Waiting(p) # <<>> /\ Waiting(p)' = Tail(Waiting(p))
                              /\ \A q \in {0, 1, 2} \ {p} : Waiting(q)' = Waiting(q)
    <3>1. CASE FillFromController
      BY <3>1 DEF FillFromController, Waiting
    <3>2. CASE \E p \in Ports : FillFromDevice(p)
      BY <1>1, <3>2 DEF FillFromDevice, Waiting, PS2Type, Ports
    <3> QED BY <3>1, <3>2
  <2>2. Waiting(p) \in Seq(Items)
    BY <1>1, WaitingType
  <2>3. Size(p)' = Size(p) - 1 /\ \A q \in {0, 1, 2} \ {p} : Size(q)' = Size(q)
    BY <2>1, <2>2 DEF Size
  <2> QED BY <1>1, <2>3, Counted DEF UnderWay
<1>4. Requests \in 0 .. 2 /\ Requests' \in 0 .. 2 /\ Requests' <= Requests + 1
  <2>1. Lines(config', out') = {} \/ \E p \in Ports : Lines(config', out') = {p}
    BY DEF Lines
  <2>2. irqs' \subseteq irqs \cup Lines(config', out') /\ irqs \subseteq irqs'
    BY <1>1 DEF RaiseLines
  <2> QED BY <2>1, <2>2 DEF Requests, Ones, Ports
<1>5. /\ Ones(input # NoInput)' = Ones(input # NoInput) /\ Ones(input # NoInput) \in 0 .. 1
      /\ Ones(Full)' \in 0 .. 1 /\ Ones(Full) = 0
      /\ Ones(running # None)' = Ones(running # None) /\ Ones(running # None) \in 0 .. 1
  BY <1>1 DEF Ones
<1> QED BY <1>1, <1>2, <1>3, <1>4, <1>5 DEF WorkLeft

LEMMA InterruptCounts ==
  ASSUME PS2Inv, Interrupt
  PROVE  WorkLeft' < WorkLeft
<1>1. /\ UNCHANGED <<pc, k, input, answers, queue>> /\ PS2Type /\ Stage \in Nat
      /\ UnderWay \in Nat /\ Requests \in 0 .. 2
  BY WorkType, Counted DEF PS2Inv, Interrupt, Handle, TakeInterrupt, controller
<1>2. Stage' = Stage /\ UnderWay' = UnderWay
  BY <1>1 DEF Stage, UnderWay, Size, Waiting
<1>3. CASE Handle
  <2>1. Requests' = Requests /\ running # None /\ running' = None /\ (Full' => Full)
    BY <1>3 DEF Handle, Requests, Full
  <2> QED BY <1>1, <1>2, <2>1 DEF WorkLeft, Ones
<1>4. CASE \E p \in Ports : TakeInterrupt(p)
  <2>1. PICK p \in Ports : TakeInterrupt(p)
    BY <1>4
  <2>2. Requests' = Requests - 1 /\ running = None /\ Full' = Full
    BY <2>1 DEF TakeInterrupt, Requests, Ones, Full, Ports
  <2> QED BY <1>1, <1>2, <2>2 DEF WorkLeft, Ones
<1> QED BY <1>3, <1>4 DEF Interrupt

(* init_ps2 has no loop that can go on for ever, and the controller and    *)
(* the devices make no bytes of their own: between two keys the driver     *)
(* takes finitely many steps, each of which leaves less to do.             *)
Counts == WorkLeft' < WorkLeft \/ \E s \in ScanCodes : PressKey(s)

THEOREM EveryStepCounts == Spec => [](WorkLeft \in Nat) /\ [][Counts]_vars
<1>1. PS2Inv => WorkLeft \in Nat
  BY WorkType
<1>2. PS2Inv /\ [Next]_vars => [Counts]_vars
  BY InitCounts, TakeCounts, FillCounts, InterruptCounts DEF Next, Controller, Counts
<1> QED BY <1>1, <1>2, PS2Invariant, PTL DEF Spec
=============================================================================
