------------------------------- MODULE Serial -------------------------------
(***************************************************************************)
(* The serial port (kernel/arch/i386/devices/serial.c): init_serial with   *)
(* its loop-back test, and polled output.  The UART is modelled as far as  *)
(* the driver can tell: the divisor latch hides behind the data and the    *)
(* interrupt-enable register, in loop-back what is sent comes back instead *)
(* of going out, and a byte that is written before the transmitter is      *)
(* empty replaces the one that waits.                                      *)
(***************************************************************************)
EXTENDS Integers, Sequences

CONSTANT Chips   \* what may be at 0x3F8

(* "prompt": what is sent in loop-back is there at once; "slow": only after*)
(* the time a byte takes; "faulty": it is wrong; "absent": no chip, every  *)
(* register reads 0xFF.                                                    *)
ASSUME SerialAssumption == Chips \subseteq {"prompt", "slow", "faulty", "absent"}

VARIABLES
  chip,
  latch,      \* DLAB
  divisor,    \* low and high byte
  irqEnable,  \* interrupt enable register
  modem,      \* modem control register
  receiver,   \* the byte received
  waiting,    \* bytes the transmitter holds, at most one
  line,       \* what has gone out
  accesses,   \* accesses init_serial has made
  text,       \* what write_string_serial has yet to write
  sent        \* history: what it has written since the port is in operation

serialVars == <<chip, latch, divisor, irqEnable, modem, receiver, waiting, line,
                accesses, text, sent>>

PATTERN == 174     \* 0xAE
BAUD_RATE == 12
LOOP == 30         \* 0x1E
OPERATION == 15    \* 0x0F
Greeting == <<"I", "NL">>

(* The registers and values that init_serial writes before the test; 1 and *)
(* 0 as values of register 3 stand for its highest bit.                    *)
(* Names that end in capitals are faulty variants of the definition that   *)
(* follows; nothing uses them.                                             *)
Setup_LATCH_LEFT ==
  << <<1, 0>>, <<3, 1>>, <<0, BAUD_RATE>>, <<1, 0>>, <<2, 199>>,
     <<4, 11>>, <<4, LOOP>>, <<0, PATTERN>> >>

Setup ==
  << <<1, 0>>, <<3, 1>>, <<0, BAUD_RATE>>, <<1, 0>>, <<3, 0>>, <<2, 199>>,
     <<4, 11>>, <<4, LOOP>>, <<0, PATTERN>> >>

SerialInit ==
  /\ chip \in Chips
  /\ latch = FALSE /\ divisor = <<1, 0>> /\ irqEnable \in {0, 1}  \* left by the firmware
  /\ modem = 0 /\ receiver = 0 /\ waiting = <<>> /\ line = <<>>
  /\ accesses = 0 /\ text = <<>> /\ sent = <<>>

-----------------------------------------------------------------------------
(* outb to a register of the chip *)
Out(reg, value) ==
  /\ latch' = IF reg = 3 THEN value = 1 ELSE latch
  /\ divisor' = IF latch /\ reg \in {0, 1} THEN [divisor EXCEPT ![reg + 1] = value] ELSE divisor
  /\ irqEnable' = IF ~latch /\ reg = 1 THEN value ELSE irqEnable
  /\ modem' = IF reg = 4 THEN value ELSE modem
  /\ LET data == ~latch /\ reg = 0
     IN /\ receiver' = IF data /\ modem = LOOP
                       THEN CASE chip = "prompt" -> value [] chip = "faulty" -> 0
                              [] OTHER -> receiver
                       ELSE receiver
        /\ waiting' = IF data /\ modem # LOOP /\ chip # "absent" THEN <<value>> ELSE waiting

WriteSetup ==
  /\ accesses < Len(Setup)
  /\ LET w == Setup[accesses + 1] IN Out(w[1], w[2])
  /\ accesses' = accesses + 1
  /\ UNCHANGED <<chip, line, text, sent>>

Received == IF chip = "absent" THEN 255 ELSE receiver

(* The result is 1, and ignored, when another byte comes back.             *)
Test ==
  /\ accesses = Len(Setup)
  /\ accesses' = accesses + 1
  /\ IF Received # PATTERN
     THEN UNCHANGED <<latch, divisor, irqEnable, modem, receiver, waiting, text>>
     ELSE Out(4, OPERATION) /\ text' = Greeting
  /\ UNCHANGED <<chip, line, sent>>

Initialised == accesses > Len(Setup)
SerialIdle == Initialised /\ text = <<>>

(* write_string_serial begins *)
WriteString(s) ==
  /\ SerialIdle /\ text' = s
  /\ UNCHANGED <<chip, latch, divisor, irqEnable, modem, receiver, waiting, line, accesses, sent>>

TransmitEmpty_INVERTED == waiting # <<>>

(* is_transmit_empty.  A chip in loop-back empties its transmitter into    *)
(* its receiver.                                                           *)
TransmitEmpty == chip = "absent" \/ waiting = <<>>

Write ==
  /\ text # <<>>
  /\ Out(0, Head(text))
  /\ text' = Tail(text)
  /\ sent' = IF modem = OPERATION THEN Append(sent, Head(text)) ELSE sent
  /\ UNCHANGED <<chip, line, accesses>>

WriteSerial_NO_POLL == Write

(* write_serial: the loop ends when the transmitter is empty.              *)
WriteSerial == TransmitEmpty /\ Write

(* The chip sends the byte that waits.                                     *)
Transmit ==
  /\ waiting # <<>>
  /\ line' = Append(line, Head(waiting)) /\ waiting' = <<>>
  /\ UNCHANGED <<chip, latch, divisor, irqEnable, modem, receiver, accesses, text, sent>>

SerialDriver == WriteSetup \/ Test \/ WriteSerial

-----------------------------------------------------------------------------
(* Properties *)

(* Nothing that is written to a port in operation is lost or goes out      *)
(* twice, however slow the chip, and nothing goes out before.              *)
LineCarriesText == line \o waiting = sent

(* "If serial is not faulty set it in normal operation mode" (serial.c:29):*)
(* a chip that answers the test is in operation afterwards, one that fails *)
(* it is not, and on every chip the divisor is the driver's, the latch is  *)
(* off again and interrupts are disabled, each write having reached the    *)
(* register it was meant for.  Of the mode of a chip that is "slow" this   *)
(* says nothing: it is not faulty, but the test does not wait for its      *)
(* answer and leaves it in loop-back, against the comment.                 *)
ChipConfigured ==
  Initialised =>
    /\ chip = "prompt" => modem = OPERATION
    /\ chip \in {"faulty", "absent"} => modem # OPERATION
    /\ chip # "absent" => divisor = <<BAUD_RATE, 0>> /\ ~latch /\ irqEnable = 0
=============================================================================
