--------------------------- MODULE Controller8042 ---------------------------
(***************************************************************************)
(* The initialisation of the keyboard controller by kernel/kbd.S, called   *)
(* from init_kbd_handler while interrupts are still off: a dialogue with   *)
(* the 8042 and, through it, with the keyboard.  Every wait of the driver  *)
(* counts down and then goes on as if it had been answered.                *)
(*                                                                         *)
(* The controller and the keyboard are external: they take what is in the  *)
(* input buffer and answer in the output buffer in order, when they like   *)
(* and perhaps never.  Keys may be typed before and during the dialogue,   *)
(* since nothing turns the keyboard off, and the keyboard may ask for a    *)
(* byte again.                                                             *)
(***************************************************************************)
EXTENDS Integers, Sequences

CONSTANTS
    CommandBytes,  \* what the firmware may have left in the command byte
    Keys,          \* bytes of scan codes
    MaxKeys,       \* bound: bytes typed
    MaxResends     \* bound: bytes the keyboard asks for again

Byte == 0 .. 255

ASSUME ControllerAssumption ==
    /\ CommandBytes \subseteq Byte
    /\ Keys \subseteq Byte
    /\ MaxKeys \in Nat
    /\ MaxResends \in Nat

\* The constants of kbd.S, in its names.
k_8042_read_cmd == 32
k_8042_write_cmd == 96
k_8042_self_test == 170
k_8042_self_test_res == 85
kb_led_cmd == 237
kb_scan_code == 240
kb_scan_2 == 2
kb_ack == 250
kb_resend == 254
SelfTestFailed == 252
None == 256      \* no byte

\* Bits of the command byte: the interrupt is on, the keyboard is off.
HasBit(v, bit) == (v \div bit) % 2 = 1
Cleared(v, bit) == IF HasBit(v, bit) THEN v - bit ELSE v
WithBit(v, bit) == Cleared(v, bit) + bit
KBD_INT == 1
KBD_OFF == 16

VARIABLES
    pc,        \* the step of the driver, Returned or Astray
    al,        \* the byte the driver read last
    in,        \* the input buffer: the port and the byte, or None as the byte
    out,       \* the output buffer and the bytes that wait to get into it
    last,      \* what port 0x60 holds when the output buffer is empty
    cb,        \* the command byte of the 8042
    writing,   \* does the 8042 wait for a new command byte?
    expects,   \* the command whose data the keyboard waits for
    works,     \* does the 8042 pass its self test?
    leds, set, \* the keyboard: its LEDs and its scan code set
    line,      \* the byte on its way to the keyboard, or None
    firmware,  \* history: the first command byte
    keys, resends,  \* history: how many so far
    gave_up    \* history: some wait has given up

driver == <<pc, al>>
keyboard == <<expects, leds, set>>
history == <<works, firmware, keys, resends, gave_up>>
vars == <<driver, in, out, last, cb, writing, keyboard, line, history>>

Command == 100  \* port 0x64
Data == 96      \* port 0x60

(***************************************************************************)
(* The driver, as the bytes it sends and the answers it reads.  An answer  *)
(* that is not the one wanted skips steps, or leads astray.                *)
(***************************************************************************)
Send(port, byte) == [do |-> "send", port |-> port, byte |-> byte]
\* The byte is sent without a wait for the input buffer.
SendNow(byte) == [do |-> "send now", port |-> Data, byte |-> byte]
\* The byte read last is sent, with the interrupt bit set or cleared.
SendBack(on) == [do |-> "send back", port |-> Data, on |-> on]
Read(want, skip) == [do |-> "read", want |-> want, skip |-> skip]
Any == Byte
Away == 100     \* skips behind the end of every program

\* Mutated form: the answer is not read.
read_command_byte_unread == <<Send(Command, k_8042_read_cmd)>>

read_command_byte == <<Send(Command, k_8042_read_cmd), Read(Any, 0)>>
write_command_byte(on) == <<Send(Command, k_8042_write_cmd), SendBack(on)>>

\* Mutated form: the data is sent without a look at the answer to the command.
send_command_and_data_to_kbd_wait_ack_blind(command, data) ==
    <<Send(Data, command), Send(Data, data), Read({kb_ack}, 0)>>

\* send_command_and_data_to_kbd_wait_ack: init_kbd_error, to which it jumps, is at
\* the same depth of the stack as its own ret, and returns to its caller.
send_command_and_data_to_kbd_wait_ack(command, data) ==
    <<Send(Data, command), Read({kb_ack}, 2), SendNow(data), Read({kb_ack}, 0)>>

select_scan_code_2 == send_command_and_data_to_kbd_wait_ack(kb_scan_code, kb_scan_2)

\* Of a failed self test, init_kbd_error returns to what is in ebx.
self_test == <<Send(Command, k_8042_self_test), Read({k_8042_self_test_res}, Away)>>

\* Mutated form: the LEDs stay on.
init_kbd_lit ==
    read_command_byte \o write_command_byte(FALSE) \o self_test
        \o send_command_and_data_to_kbd_wait_ack(kb_led_cmd, 7)
        \o select_scan_code_2
        \o read_command_byte \o write_command_byte(TRUE)

init_kbd ==
    read_command_byte \o write_command_byte(FALSE) \o self_test
        \o send_command_and_data_to_kbd_wait_ack(kb_led_cmd, 7)
        \o send_command_and_data_to_kbd_wait_ack(kb_led_cmd, 0)
        \o select_scan_code_2
        \o read_command_byte \o write_command_byte(TRUE)

enable_keyboard_int == read_command_byte \o write_command_byte(TRUE)

init_kbd_handler == init_kbd \o enable_keyboard_int

Returned == Len(init_kbd_handler) + 1
Astray == 0
Running == pc \in DOMAIN init_kbd_handler
step == init_kbd_handler[pc]

Init ==
    /\ pc = 1
    /\ al = 0
    /\ in = [port |-> Data, byte |-> None]
    /\ \E before \in {<<>>} \cup {<<k>> : k \in Keys} :
          /\ Len(before) \leq MaxKeys
          /\ out = before
          /\ keys = Len(before)
    /\ last = 0
    /\ cb \in CommandBytes
    /\ writing = FALSE
    /\ expects = None
    /\ works \in BOOLEAN
    /\ leds = 0
    /\ set \in {1, 2}
    /\ line = None
    /\ firmware = cb
    /\ resends = 0
    /\ gave_up = FALSE

InputFree == in.byte = None
OutputFull == out # <<>>

\* wait_for_ip_buf_free, then outb.  The count may run out with the buffer still full,
\* and the byte in it is lost.
wait_and_send ==
    /\ Running /\ step.do \in {"send", "send back", "send now"}
    /\ gave_up' = (gave_up \/ (~ InputFree /\ step.do # "send now"))
    /\ in' = [port |-> step.port,
              byte |-> IF step.do # "send back" THEN step.byte
                       ELSE IF step.on THEN WithBit(al, KBD_INT)
                       ELSE Cleared(al, KBD_INT)]
    /\ pc' = pc + 1
    /\ UNCHANGED <<al, out, last, cb, writing, keyboard, line, works, firmware, keys, resends>>

\* Mutated form: a wait without a count.
wait_and_read_forever ==
    /\ Running /\ step.do = "read"
    /\ OutputFull
    /\ al' = Head(out)
    /\ out' = Tail(out)
    /\ last' = al'
    /\ pc' = IF al' \in step.want THEN pc + 1
             ELSE IF step.skip = Away THEN Astray ELSE pc + 1 + step.skip
    /\ UNCHANGED <<in, cb, writing, keyboard, line, history>>

\* wait_for_data_in_output_buf, then inb.  When the count runs out, inb reads again
\* what was read before.
wait_and_read ==
    /\ Running /\ step.do = "read"
    /\ gave_up' = (gave_up \/ ~ OutputFull)
    /\ al' = IF OutputFull THEN Head(out) ELSE last
    /\ out' = IF OutputFull THEN Tail(out) ELSE out
    /\ last' = al'
    /\ pc' = IF al' \in step.want THEN pc + 1
             ELSE IF step.skip = Away THEN Astray ELSE pc + 1 + step.skip
    /\ UNCHANGED <<in, cb, writing, keyboard, line, works, firmware, keys, resends>>

Driver == wait_and_send \/ wait_and_read

(***************************************************************************)
(* The 8042 and the keyboard.                                              *)
(***************************************************************************)
Taken(port) == /\ in.port = port /\ in.byte # None
               /\ in' = [in EXCEPT !.byte = None]

TakeCommand ==
    /\ Taken(Command)
    /\ writing' = (in.byte = k_8042_write_cmd)
    /\ out' = CASE in.byte = k_8042_read_cmd -> Append(out, cb)
                [] in.byte = k_8042_self_test ->
                     Append(out, IF works THEN k_8042_self_test_res ELSE SelfTestFailed)
                [] OTHER -> out
    /\ UNCHANGED <<driver, last, cb, keyboard, line, history>>

TakeCommandByte ==
    /\ writing
    /\ Taken(Data)
    /\ cb' = in.byte
    /\ writing' = FALSE
    /\ UNCHANGED <<driver, out, last, keyboard, line, history>>

\* Any other data goes to the keyboard, and turns it on.
Forward ==
    /\ ~ writing
    /\ line = None
    /\ Taken(Data)
    /\ line' = in.byte
    /\ cb' = Cleared(cb, KBD_OFF)
    /\ UNCHANGED <<driver, out, last, writing, keyboard, history>>

\* The keyboard obeys, and acknowledges; what it does not know it asks for again.
Obey ==
    /\ line # None
    /\ line' = None
    /\ LET known == line \in {kb_led_cmd, kb_scan_code}
           data == expects \in {kb_led_cmd, kb_scan_code} /\ line \in 0 .. 7
       IN /\ expects' = IF known THEN line ELSE IF data THEN None ELSE expects
          /\ leds' = IF data /\ expects = kb_led_cmd THEN line ELSE leds
          /\ set' = IF data /\ expects = kb_scan_code THEN line ELSE set
          /\ out' = Append(out, IF known \/ data THEN kb_ack ELSE kb_resend)
    /\ UNCHANGED <<driver, in, last, cb, writing, history>>

\* The keyboard did not get the byte.
Resend ==
    /\ line # None
    /\ resends < MaxResends
    /\ resends' = resends + 1
    /\ line' = None
    /\ out' = Append(out, kb_resend)
    /\ UNCHANGED <<driver, in, last, cb, writing, keyboard, works, firmware, keys, gave_up>>

\* A key is typed.
Type ==
    /\ keys < MaxKeys
    /\ ~ HasBit(cb, KBD_OFF)
    /\ keys' = keys + 1
    /\ \E k \in Keys : out' = Append(out, k)
    /\ UNCHANGED <<driver, in, last, cb, writing, keyboard, line, works, firmware, resends,
                   gave_up>>

Next == Driver \/ TakeCommand \/ TakeCommandByte \/ Forward \/ Obey \/ Resend \/ Type

Spec == Init /\ [][Next]_vars

\* The processor keeps executing.  Nothing is assumed about the 8042.
FairSpec == Spec /\ WF_vars(Driver)

(***************************************************************************)
(* Properties.                                                             *)
(***************************************************************************)
TypeOK ==
    /\ pc \in 0 .. Returned
    /\ al \in Byte /\ last \in Byte /\ cb \in Byte
    /\ in \in [port : {Command, Data}, byte : Byte \cup {None}]
    /\ out \in Seq(Byte)
    /\ writing \in BOOLEAN
    /\ expects \in {None, kb_led_cmd, kb_scan_code}
    /\ line \in Byte \cup {None}
    /\ leds \in 0 .. 7 /\ set \in 0 .. 7
    /\ works \in BOOLEAN /\ gave_up \in BOOLEAN
    /\ firmware \in CommandBytes
    /\ keys \in 0 .. MaxKeys /\ resends \in 0 .. MaxResends

\* Nothing is typed and every answer comes in time.
Undisturbed == keys = 0 /\ ~ gave_up
Settled == InputFree /\ line = None

\* An answer is read as the answer to the byte it answers (kbd.S:205-218): when the
\* driver reads, it is the only one, and nothing it sent is still on its way, also when
\* the keyboard refuses a byte.
InStep ==
    Running /\ Undisturbed /\ step.do = "read" /\ OutputFull => Len(out) = 1 /\ Settled

\* init_kbd returns to its caller, unless the 8042 fails its self test: then, and
\* when some byte is taken for the answer to it (kbd.S:121), the ret of init_kbd_error
\* pops ebx.
ReturnsToCaller == pc = Astray => ~ works \/ ~ Undisturbed

\* When it has returned, and no wait has given up, the interrupt is on, whatever was
\* typed or refused meanwhile (kbd.S:275).  Undisturbed, the keyboard is on, the command
\* byte is otherwise the firmware's and the output buffer is empty for the first scan
\* code, and if the keyboard refused nothing the LEDs are off and scan code set 2 is
\* selected.
Initialised ==
    pc = Returned /\ ~ gave_up /\ Settled =>
        /\ HasBit(cb, KBD_INT)
        /\ Undisturbed =>
              cb = Cleared(WithBit(firmware, KBD_INT), KBD_OFF) /\ out = <<>>
        /\ Undisturbed /\ resends = 0 => leds = 0 /\ set = 2

\* The dialogue ends, with an 8042 that never answers too (kbd.S:188-198, 223-233).
Terminates == <>(pc \in {Returned, Astray})

=============================================================================
