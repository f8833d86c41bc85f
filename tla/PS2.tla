-------------------------------- MODULE PS2 --------------------------------
(***************************************************************************)
(* The PS/2 driver of pekOS, devices/ps2.c: init_ps2 talks to the 8042     *)
(* controller and, through it, to the devices on its two ports; afterwards *)
(* the keyboard interrupt handler takes what the keyboard sends.           *)
(*                                                                         *)
(* Every byte is the set of its bits that are 1, so that & and | are \cap  *)
(* and \cup.  The hardware: a one-byte input buffer (status bit 1), a      *)
(* one-byte output buffer (status bit 0) that the controller refills from  *)
(* its own answers and from the two devices, one configuration byte with   *)
(* interrupt enable bits 0 and 1 and port disable bits 4 and 5.  A byte    *)
(* that is sent to a device enables its port.                              *)
(***************************************************************************)
EXTENDS Naturals, Sequences

CONSTANTS
  Port2,         \* what is plugged into the second port: "nothing" or "mouse"
  DualChannel,   \* the controller has a second port
  Prompt,        \* the controller takes a byte before the next instruction
  EarlyKeys,     \* keys may be pressed before init_ps2 is over
  ScanCodes,     \* the bytes the keyboard sends for its keys
  MaxKeys        \* bound: keys pressed

None == 0
Ports == {1, 2}
Byte == SUBSET (0 .. 7)

ASSUME PS2Assumption ==
  /\ Port2 \in {"nothing", "mouse"} /\ DualChannel \in BOOLEAN
  /\ ~DualChannel => Port2 = "nothing"
  /\ Prompt \in BOOLEAN /\ EarlyKeys \in BOOLEAN
  /\ ScanCodes \subseteq Byte \ {{}} /\ MaxKeys \in Nat

(* The bytes in play *)
ACK == {7, 6, 5, 4, 3, 1}          \* 0xFA
RESEND == {7, 6, 5, 4, 3, 2, 1}    \* 0xFE
SELF_TEST_OK == {7, 5, 3, 1}       \* 0xAA, of a device
CONTROLLER_OK == {6, 4, 2, 0}      \* 0x55
CONTROLLER_BAD == {7, 6, 5, 4, 3, 2}  \* 0xFC
KEYBOARD_ID == <<{7, 5, 3, 1, 0}, {7, 1, 0}>>  \* 0xAB 0x83
MOUSE_ID == <<{}>>                 \* 0x00
KEEP == {7, 5, 4, 3, 2}            \* 0xBC
IRQS == {0, 1}                     \* 3

VARIABLES
  pc,        \* the next step of init_ps2
  k,         \* its variables
  irqs,      \* interrupt requests of the ports, on their way to the processor
  running,   \* the port whose interrupt is handled, or None
  input,     \* the byte in the input buffer, with its register, or none
  expect,    \* what the controller takes the next data byte for
  config,    \* the configuration byte
  answers,   \* answers of the controller that wait for the output buffer
  queue,     \* bytes that each device has yet to send
  scanning,  \* the keyboard reports keys
  out,       \* the output buffer: a byte, its port and the write it answers
  sent,      \* history: writes to the devices or the controller so far
  keys       \* for the bound

vars == <<pc, k, irqs, running, input, expect, config, answers, queue,
          scanning, out, sent, keys>>
controller == <<expect, config, answers, queue, scanning>>

Item(b, n) == [byte |-> b, of |-> n]
Output(p, x) == [byte |-> x.byte, of |-> x.of, port |-> p]
NoInput == [byte |-> {}, register |-> "none"]
NoOutput == [byte |-> {}, of |-> 0, port |-> 0]

(* Full is bit 0 of the status register.                                   *)
Full == out # NoOutput

(* Interrupt lines that are up                                             *)
Lines(cfg, o) == {p \in Ports : o.port = p /\ p - 1 \in cfg /\ p + 3 \notin cfg}
RaiseLines == irqs' = irqs \cup (Lines(config', out') \ Lines(config, out))

Init ==
  /\ pc = "begin"
  /\ k = [config |-> {}, first |-> FALSE, second |-> FALSE, port |-> 1,
          res |-> {}, device |-> <<{}, {}>>]
  /\ irqs = {} /\ running = None
  /\ input = NoInput /\ expect = "port_1"
  /\ config \in {{0, 2, 6}, {0, 2, 5, 6}, {0, 1, 2, 6}}  \* left by the firmware
  /\ answers = <<>> /\ queue = [p \in Ports |-> <<>>]
  /\ scanning = TRUE
  /\ out \in {NoOutput} \cup {Output(1, Item(b, 0)) : b \in ScanCodes \cup {{}}}
  /\ sent = 0 /\ keys = 0

-----------------------------------------------------------------------------
(* The processor.  A handler runs with interrupts off, and a request is    *)
(* taken before the next step of init_ps2.                                 *)
(* Names that end in capitals are faulty variants of the definition that   *)
(* follows; nothing uses them.                                             *)

Step(from, to) ==
  /\ running = None /\ irqs = {} /\ (Prompt => input = NoInput)
  /\ pc = from /\ pc' = to
  /\ UNCHANGED running

(* outb, which does not look whether the input buffer is free              *)
Outb(from, register, b, to) ==
  /\ Step(from, to)
  /\ input' = [byte |-> b, register |-> register]
  /\ sent' = sent + 1
  /\ UNCHANGED <<k, irqs, controller, out, keys>>

(* send_ps2_command and send_device_data *)
SendCommand(from, b, to) == input = NoInput /\ Outb(from, "command", b, to)
SendData(from, b, to) == input = NoInput /\ Outb(from, "data", b, to)

Goto(from, condition, to) ==
  /\ condition /\ Step(from, to)
  /\ UNCHANGED <<k, irqs, input, controller, out, sent, keys>>

SendIf(condition, from, b, to, else) ==
  IF condition THEN SendCommand(from, b, to) ELSE Goto(from, TRUE, else)

(* read_ps2_data: to and store say what init_ps2 does with data, the byte. *)
data == out.byte

Read(from, to, store) ==
  /\ Full
  /\ Step(from, to)
  /\ k' = store
  /\ out' = NoOutput
  /\ UNCHANGED <<irqs, input, controller, sent, keys>>

ReadTo(from, to) == Read(from, to, k)

(* The commands *)
DISABLE_1 == {7, 5, 3, 2, 0}       \* 0xAD
DISABLE_2 == {7, 5, 2, 1, 0}       \* 0xA7
ENABLE_1 == {7, 5, 3, 2, 1}        \* 0xAE
ENABLE_2 == {7, 5, 3}              \* 0xA8
GET_CONFIG == {5}                  \* 0x20
SET_CONFIG == {6, 5}               \* 0x60
TEST == {7, 5, 3, 1}               \* 0xAA
TEST_1 == {7, 5, 3, 1, 0}          \* 0xAB
TEST_2 == {7, 5, 3, 0}             \* 0xA9
TO_PORT_2 == {7, 6, 4, 2}          \* 0xD4
RESET == 0 .. 7                    \* 0xFF
SCAN_OFF == {7, 6, 5, 4, 2, 0}     \* 0xF5
SCAN_ON == {7, 6, 5, 4, 2}         \* 0xF4
IDENTIFY == {7, 6, 5, 4, 1}        \* 0xF2

(* init_ps2 up to the self-test: what the firmware left is flushed and the *)
(* configuration byte loses its interrupt bits.                            *)
Configure ==
  \/ Goto("begin", TRUE, "disable_1") \/ Goto("begin", TRUE, "absent")
  \/ Outb("disable_1", "command", DISABLE_1, "disable_2")
  \/ Outb("disable_2", "command", DISABLE_2, "flush")
  \/ Goto("flush", ~Full, "get_config")
  \/ Read("flush", IF data = {} THEN "get_config" ELSE "flush", k)
  \/ SendCommand("get_config", GET_CONFIG, "config")
  \/ Read("config", "set_config", [k EXCEPT !.config = data \cap KEEP])
  \/ SendCommand("set_config", SET_CONFIG, "out_config")
  \/ Outb("out_config", "data", k.config, "test")

TestPorts ==
  \/ SendCommand("test", TEST, "test_result")
  \/ Read("test_result", IF data = CONTROLLER_OK THEN "restore" ELSE "failed", k)
  \/ SendCommand("restore", SET_CONFIG, "out_restore")
  \/ Outb("out_restore", "data", k.config, "dual")
  \/ SendIf(5 \in k.config, "dual", ENABLE_2, "get_dual", "test_1")
  \/ SendCommand("get_dual", GET_CONFIG, "dual_config")
  \/ Read("dual_config", IF 5 \in data THEN "test_1" ELSE "redisable", k)
  \/ SendCommand("redisable", DISABLE_2, "test_1")
  \/ SendCommand("test_1", TEST_1, "works_1")
  \/ Read("works_1", "test_2", [k EXCEPT !.first = (data = {})])
  \/ SendCommand("test_2", TEST_2, "works_2")
  \/ Read("works_2", "enable_1", [k EXCEPT !.second = (data = {})])
  \/ SendIf(k.first, "enable_1", ENABLE_1, "enable_2", "enable_2")
  \/ SendIf(k.second, "enable_2", ENABLE_2, "reset_1", "reset_1")

ResetDevices_ONE_ANSWER ==
  \/ SendData("reset_1", RESET, "ack_1")
  \/ ReadTo("ack_1", "port_2")
  \/ SendCommand("port_2", TO_PORT_2, "reset_2")
  \/ SendData("reset_2", RESET, "ack_2")
  \/ ReadTo("ack_2", "detect")

ResetDevices_NO_TEST ==
  \/ SendData("reset_1", RESET, "ack_1")
  \/ ReadTo("ack_1", "result_1")
  \/ ReadTo("result_1", "port_2")
  \/ SendCommand("port_2", TO_PORT_2, "reset_2")
  \/ SendData("reset_2", RESET, "ack_2")
  \/ ReadTo("ack_2", "result_2")
  \/ ReadTo("result_2", "detect")

ResetDevices ==
  \/ SendData("reset_1", RESET, "ack_1")
  \/ Read("ack_1", IF data = ACK THEN "result_1" ELSE "port_2", k)
  \/ ReadTo("result_1", "port_2")
  \/ SendCommand("port_2", TO_PORT_2, "reset_2")
  \/ SendData("reset_2", RESET, "ack_2")
  \/ Read("ack_2", IF data = ACK THEN "result_2" ELSE "detect", k)
  \/ ReadTo("result_2", "detect")

(* detect_ps2_device for both ports.  Only the first of its two commands   *)
(* is directed to the second port.                                         *)
Works == IF k.port = 1 THEN k.first ELSE k.second
NextPort == IF k.port = 1 THEN "detect" ELSE "scan_on"

SkipPort ==
  /\ ~Works /\ Step("detect", NextPort)
  /\ k' = [k EXCEPT !.port = 2]
  /\ UNCHANGED <<irqs, input, controller, out, sent, keys>>

DetectDevice_SECOND_BYTE ==
  \/ SkipPort
  \/ Goto("detect", Works, IF k.port = 2 THEN "direct" ELSE "scan_off")
  \/ SendCommand("direct", TO_PORT_2, "scan_off")
  \/ SendData("scan_off", SCAN_OFF, "scan_off_ack")
  \/ ReadTo("scan_off_ack", "identify")
  \/ SendData("identify", IDENTIFY, "identify_ack")
  \/ ReadTo("identify_ack", "id")
  \/ ReadTo("id", "id_2")
  \/ Read("id_2", NextPort,
          [k EXCEPT !.device[k.port] = data, !.port = 2])

DetectDevice ==
  \/ SkipPort
  \/ Goto("detect", Works, IF k.port = 2 THEN "direct" ELSE "scan_off")
  \/ SendCommand("direct", TO_PORT_2, "scan_off")
  \/ SendData("scan_off", SCAN_OFF, "scan_off_ack")
  \/ ReadTo("scan_off_ack", "identify")
  \/ SendData("identify", IDENTIFY, "identify_ack")
  \/ ReadTo("identify_ack", "id")
  \/ Read("id", "id_2", [k EXCEPT !.res = data])
  \/ Read("id_2", NextPort,
          [k EXCEPT !.device[k.port] = k.res, !.port = 2])

EnableInterrupts_MASKED ==
  \/ SendData("scan_on", SCAN_ON, "scan_on_ack")
  \/ ReadTo("scan_on_ack", "get_config_2")
  \/ SendCommand("get_config_2", GET_CONFIG, "config_2")
  \/ Read("config_2", "set_config_2", [k EXCEPT !.config = data \cap IRQS])
  \/ SendCommand("set_config_2", SET_CONFIG, "out_config_2")
  \/ Outb("out_config_2", "data", k.config, "done")

EnableInterrupts ==
  \/ SendData("scan_on", SCAN_ON, "scan_on_ack")
  \/ ReadTo("scan_on_ack", "get_config_2")
  \/ SendCommand("get_config_2", GET_CONFIG, "config_2")
  \/ Read("config_2", "set_config_2", [k EXCEPT !.config = data \cup IRQS])
  \/ SendCommand("set_config_2", SET_CONFIG, "out_config_2")
  \/ Outb("out_config_2", "data", k.config, "done")

InitPs2 == Configure \/ TestPorts \/ ResetDevices \/ DetectDevice \/ EnableInterrupts

TakeInterrupt(p) ==
  /\ running = None /\ p \in irqs
  /\ running' = p /\ irqs' = irqs \ {p}
  /\ UNCHANGED <<pc, k, input, controller, out, sent, keys>>

(* test_kbd_interrupt reads one byte; the handler of any other device's    *)
(* interrupt, exception_handler_code, reads none.                          *)
Handle_NO_READ ==
  /\ running # None
  /\ running' = None
  /\ UNCHANGED <<pc, k, irqs, input, controller, out, sent, keys>>

Handle ==
  /\ running # None /\ (running = 1 => Full)
  /\ running' = None
  /\ out' = IF running = 1 THEN NoOutput ELSE out
  /\ UNCHANGED <<pc, k, irqs, input, controller, sent, keys>>

-----------------------------------------------------------------------------
(* The controller *)

Answer(b) == answers' = Append(answers, Item(b, sent))

TakesCommand(b) ==
  /\ config' = CASE b = DISABLE_1 -> config \cup {4}
                 [] b = ENABLE_1 -> config \ {4}
                 [] b = DISABLE_2 /\ DualChannel -> config \cup {5}
                 [] b = ENABLE_2 /\ DualChannel -> config \ {5}
                 [] OTHER -> config
  /\ expect' = CASE b = SET_CONFIG -> "config"
                 [] b = TO_PORT_2 /\ DualChannel -> "port_2"
                 [] OTHER -> "port_1"
  /\ \/ b = GET_CONFIG /\ Answer(config)
     \/ b = TEST /\ \E result \in {CONTROLLER_OK, CONTROLLER_BAD} : Answer(result)
     \/ /\ b = TEST_1 \/ (b = TEST_2 /\ DualChannel)
        /\ \E fault \in {{}, {0}} : Answer(fault)
     \/ /\ b \notin {GET_CONFIG, TEST, TEST_1}
        /\ b = TEST_2 => ~DualChannel
        /\ UNCHANGED answers
  /\ UNCHANGED <<queue, scanning>>

Device(p) == IF p = 1 THEN "keyboard" ELSE Port2

(* What a device sends back; for a port with nothing behind it the         *)
(* controller reports a transmission error.                                *)
Reply(device, b) ==
  CASE device = "nothing" -> <<RESEND>>
    [] device # "nothing" /\ b = RESET ->
         IF device = "mouse" THEN <<ACK, SELF_TEST_OK>> \o MOUSE_ID
         ELSE <<ACK, SELF_TEST_OK>>
    [] device # "nothing" /\ b = IDENTIFY ->
         <<ACK>> \o (IF device = "mouse" THEN MOUSE_ID ELSE KEYBOARD_ID)
    [] device # "nothing" /\ b \in {SCAN_ON, SCAN_OFF} -> <<ACK>>
    [] OTHER -> <<RESEND>>

Replies(device, b) == [i \in DOMAIN Reply(device, b) |-> Item(Reply(device, b)[i], sent)]

(* Two commands clear what the device had yet to send.                     *)
SendsToDevice(p, b) ==
  /\ config' = config \ {p + 3}
  /\ queue' = [queue EXCEPT ![p] =
                 IF b \in {RESET, SCAN_OFF} THEN Replies(Device(p), b) ELSE @ \o Replies(Device(p), b)]
  /\ scanning' = IF p = 1 /\ b \in {RESET, SCAN_ON} THEN TRUE
                 ELSE IF p = 1 /\ b = SCAN_OFF THEN FALSE ELSE scanning

TakesData(b) ==
  /\ expect' = "port_1"
  /\ \/ /\ expect = "config" /\ config' = b
        /\ UNCHANGED <<queue, scanning>>
     \/ expect = "port_1" /\ SendsToDevice(1, b)
     \/ expect = "port_2" /\ SendsToDevice(2, b)
  /\ UNCHANGED answers

TakeInput ==
  /\ input # NoInput /\ input' = NoInput
  /\ \/ input.register = "command" /\ TakesCommand(input.byte)
     \/ input.register = "data" /\ TakesData(input.byte)
  /\ UNCHANGED <<pc, k, running, out, sent, keys>>
  /\ RaiseLines

FillFromController ==
  /\ ~Full /\ answers # <<>>
  /\ out' = Output(1, Head(answers)) /\ answers' = Tail(answers)
  /\ UNCHANGED <<pc, k, running, input, expect, config, queue, scanning, sent, keys>>
  /\ RaiseLines

FillFromDevice(p) ==
  /\ ~Full /\ queue[p] # <<>> /\ p + 3 \notin config
  /\ out' = Output(p, Head(queue[p])) /\ queue' = [queue EXCEPT ![p] = Tail(@)]
  /\ UNCHANGED <<pc, k, running, input, expect, config, answers, scanning, sent, keys>>
  /\ RaiseLines

PressKey(s) ==
  /\ scanning /\ keys < MaxKeys /\ (EarlyKeys \/ pc = "done")
  /\ queue' = [queue EXCEPT ![1] = Append(@, Item(s, 0))]
  /\ keys' = keys + 1
  /\ UNCHANGED <<pc, k, irqs, running, input, expect, config, answers, scanning, out, sent>>

Controller == TakeInput \/ FillFromController \/ \E p \in Ports : FillFromDevice(p)

Interrupt == Handle \/ \E p \in Ports : TakeInterrupt(p)

Next == InitPs2 \/ Interrupt \/ Controller \/ \E s \in ScanCodes : PressKey(s)

Fairness == WF_vars(InitPs2) /\ WF_vars(Interrupt) /\ WF_vars(Controller)

Spec == Init /\ [][Next]_vars /\ Fairness

-----------------------------------------------------------------------------
(* Properties *)

Reads == {"config", "test_result", "dual_config", "works_1", "works_2", "ack_1",
          "result_1", "ack_2", "result_2", "scan_off_ack", "identify_ack", "id",
          "id_2", "scan_on_ack", "config_2"}
Over == {"done", "failed", "absent"}

(* Every byte that init_ps2 takes for an answer answers the last byte it   *)
(* wrote: nothing tells a stale byte or a scan code from an answer, so the *)
(* reads must be as many as the answers, in every branch.                  *)
AnswersInStep == pc \in Reads /\ Full => out.of = sent

(* "enable interrupts" (ps2.c:146): when init_ps2 is over the first port   *)
(* is on, and both interrupts are.                                         *)
InterruptsEnabled ==
  pc = "done" /\ input = NoInput => IRQS \subseteq config /\ 4 \notin config

(* The keyboard on the first port was recognised: device_1 is the first    *)
(* byte of its identity (ps2.c:212).                                       *)
KeyboardIdentified ==
  pc = "done" /\ k.first => k.device[1] = KEYBOARD_ID[1]

(* Nothing in ps2.c has a timeout, so no poll may wait for a byte that     *)
(* will not come: while init_ps2 polls for an answer there is one, or one  *)
(* that can still pass; the handler, which polls with interrupts off       *)
(* (exception_handler.c:48), finds a byte; and no byte stays behind whose  *)
(* edge has gone by, since it would keep all others out of the buffer.     *)
Coming == \/ Full \/ answers # <<>>
          \/ \E p \in Ports : queue[p] # <<>> /\ p + 3 \notin config

NothingWaitsInVain ==
  /\ pc \in Reads /\ input = NoInput => Coming
  /\ running = 1 => Full
  /\ pc = "done" /\ input = NoInput /\ Full => out.port \in irqs \cup {running}

(* init_ps2, which has no timeout, does not wait for ever.                 *)
InitEnds == <>(pc \in Over)

(* What the keyboard sends after that is read: a byte that stays in the    *)
(* output buffer would keep all others, of both devices, out of it.        *)
KeysRead == pc = "done" ~> queue[1] = <<>> /\ ~Full
=============================================================================
