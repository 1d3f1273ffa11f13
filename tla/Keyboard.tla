------------------------------ MODULE Keyboard ------------------------------
(***************************************************************************)
(* The keyboard driver, arch/i386/kernel/kbd-handler.c, and getc of        *)
(* clib.c.  kbd_isr puts every byte the keyboard sends into a ring; a      *)
(* thread that calls getc takes the bytes out again, inside a critical     *)
(* section, and feeds them to a state machine that finds the keys in them. *)
(*                                                                         *)
(* The keyboard sends scan code set 2, which init_kbd selects: a key is    *)
(* basic or extended, the two kinds share their codes, an extended key's   *)
(* is preceded by 0xE0, and 0xF0 in front of a code says release.  A key   *)
(* that is held down repeats until it is released or another is pressed.   *)
(***************************************************************************)
EXTENDS Integers, Sequences

CONSTANTS
    KBD_BUFFER_SIZE,
    Keys,        \* the keys there are: <<"basic", code>>, <<"extended", code>>
    Mapped,      \* those basic_keymap and extended_keymap know
    Printable,   \* those with a value that is a character
    MaxTyped     \* bound: presses and repeats

E0 == 224
F0 == 240
Codes == {k[2] : k \in Keys}
Bytes == Codes \cup {E0, F0}

ASSUME KeyboardAssumption ==
    /\ KBD_BUFFER_SIZE \in Nat /\ KBD_BUFFER_SIZE \geq 2
    /\ Codes \subseteq 1 .. 223
    /\ Keys \subseteq {"basic", "extended"} \X Codes
    /\ Mapped \subseteq Keys /\ Printable \subseteq Mapped
    /\ MaxTyped \in Nat

VARIABLES
    down,        \* the keys that are held down
    repeating,   \* the one that repeats, in a set, or {}
    wire,        \* the bytes the keyboard has yet to send
    key_buffer,  \* the ring
    head, tail,
    state,       \* of keyboard_state_machine
    IFlag,       \* the interrupt flag while the reader runs
    pc,          \* where the reader is
    byte,        \* the byte it gave to the state machine
    make,        \* the flags of read_key
    basic_key,
    typed,       \* history: the keys pressed or repeated
    got,         \* history: the keys read_key returned
    lost,        \* history: what was lost last: nothing, the oldest byte or all
    mixed        \* history: was an extended key down together with another key?

keyboard == <<down, repeating, wire, typed, mixed>>
ring == <<key_buffer, head, tail, lost>>
reader == <<state, IFlag, pc, byte, make, basic_key, got>>
vars == <<keyboard, ring, reader>>

Slots == 0 .. KBD_BUFFER_SIZE - 1
Succ(i) == IF i + 1 = KBD_BUFFER_SIZE THEN 0 ELSE i + 1

Init ==
    /\ down = {}
    /\ repeating = {}
    /\ wire = <<>>
    /\ key_buffer = [i \in Slots |-> 0]
    /\ head = 0 /\ tail = 0
    /\ state = "init"
    /\ IFlag = TRUE
    /\ pc = "out"
    /\ byte = E0
    /\ make = FALSE
    /\ basic_key = FALSE
    /\ typed = <<>>
    /\ got = <<>>
    /\ lost = "nothing"
    /\ mixed = FALSE

(***************************************************************************)
(* The keyboard.                                                           *)
(***************************************************************************)
Prefix(k) == IF k[1] = "extended" THEN <<E0>> ELSE <<>>
MakeCode(k) == Prefix(k) \o <<k[2]>>
BreakCode(k) == Prefix(k) \o <<F0, k[2]>>

Type(k) ==
    /\ Len(typed) < MaxTyped
    /\ typed' = Append(typed, k)
    /\ wire' = wire \o MakeCode(k)

\* More than one key is down, and not all are basic.
Mix(keys) == \E j, k \in keys : j # k /\ k[1] = "extended"

Press(k) ==
    /\ k \notin down
    /\ Type(k)
    /\ down' = down \cup {k}
    /\ repeating' = {k}
    /\ mixed' = (mixed \/ Mix(down'))
    /\ UNCHANGED <<ring, reader>>

Repeat(k) ==
    /\ k \in repeating
    /\ Type(k)
    /\ UNCHANGED <<down, repeating, mixed, ring, reader>>

Release(k) ==
    /\ k \in down
    /\ down' = down \ {k}
    /\ repeating' = repeating \ {k}
    /\ wire' = wire \o BreakCode(k)
    /\ UNCHANGED <<typed, mixed, ring, reader>>

(***************************************************************************)
(* kbd_isr: the byte goes to head, which moves on; when it meets tail the  *)
(* oldest byte is given up.                                                *)
(***************************************************************************)
kbd_isr ==
    /\ IFlag
    /\ wire # <<>>
    /\ wire' = Tail(wire)
    /\ key_buffer' = [key_buffer EXCEPT ![head] = Head(wire)]
    /\ head' = Succ(head)
    /\ tail' = IF head' = tail THEN Succ(tail) ELSE tail
    /\ lost' = IF head' = tail THEN "oldest" ELSE lost
    /\ UNCHANGED <<down, repeating, typed, mixed, reader>>

(***************************************************************************)
(* keyboard_state_machine: the state after byte i, and whether i is the    *)
(* code of a key that was pressed (basic in the first two states).         *)
(***************************************************************************)
States == {"init", "basic break expec", "basic break es", "ext make es",
           "ext break expec", "ext break es 1", "ext break es 2", "ignore"}

\* Mutated form: the code after a prefix that is out of place is not skipped.
NextState_no_skip(s, i) ==
    CASE s = "init" /\ i = F0 -> "ignore"
      [] s = "init" /\ i = E0 -> "ext make es"
      [] s = "init" /\ i \in Codes -> "basic break expec"
      [] s = "basic break expec" /\ i = F0 -> "basic break es"
      [] s = "basic break expec" /\ i # F0 -> "basic break expec"
      [] s \in {"ext make es", "ext break es 1"} /\ i \in Codes -> "ext break expec"
      [] s = "ext break expec" /\ i = E0 -> "ext break es 1"
      [] s = "ext break es 1" /\ i = F0 -> "ext break es 2"
      [] OTHER -> "init"

NextState(s, i) ==
    CASE s = "init" /\ i = F0 -> "ignore"
      [] s = "init" /\ i = E0 -> "ext make es"
      [] s = "init" /\ i \in Codes -> "basic break expec"
      [] s = "basic break expec" /\ i = F0 -> "basic break es"
      [] s = "basic break expec" /\ i # F0 -> "basic break expec"
      [] s \in {"ext make es", "ext break es 1"} /\ i \in Codes -> "ext break expec"
      [] s = "ext break expec" /\ i = E0 -> "ext break es 1"
      [] s = "ext break es 1" /\ i = F0 -> "ext break es 2"
      [] s \in {"basic break es", "ext break expec", "ext break es 2"} /\ i \in Codes
            -> "init"
      [] s = "ignore" -> "init"
      [] OTHER -> "ignore"

IsMake(s, i) == \/ s \in {"init", "ext make es", "ext break es 1"} /\ i \in Codes
                \/ s = "basic break expec" /\ i # F0

(***************************************************************************)
(* The reader: getc calls read_key until it gets a character.              *)
(***************************************************************************)
Goto(here, there) == pc = here /\ pc' = there

getc ==
    /\ Goto("out", "enter")
    /\ UNCHANGED <<keyboard, ring, state, IFlag, byte, make, basic_key, got>>

\* Mutated form: no critical section.
read_key_open ==
    /\ Goto("enter", "loop")
    /\ make' = FALSE /\ basic_key' = FALSE
    /\ UNCHANGED <<keyboard, ring, state, IFlag, byte, got>>

\* ENTER_CRITICAL_SECTION.
read_key ==
    /\ Goto("enter", "loop")
    /\ IFlag' = FALSE
    /\ make' = FALSE /\ basic_key' = FALSE
    /\ UNCHANGED <<keyboard, ring, state, byte, got>>

\* A turn of the parse loop: the byte at tail goes to the state machine ...
parse ==
    /\ tail # head
    /\ Goto("loop", "advance")
    /\ byte' = key_buffer[tail]
    /\ make' = IsMake(state, byte')
    /\ basic_key' = (state \in {"init", "basic break expec", "basic break es"})
    /\ state' = NextState(state, byte')
    /\ UNCHANGED <<keyboard, ring, IFlag, got>>

\* Mutated form: the loop goes on after a key.
advance_on ==
    /\ Goto("advance", "loop")
    /\ tail' = Succ(tail)
    /\ UNCHANGED <<keyboard, key_buffer, head, lost, state, IFlag, byte, make, basic_key, got>>

\* ... tail moves on, and the code of a key ends the loop.
advance ==
    /\ Goto("advance", IF make THEN "exit" ELSE "loop")
    /\ tail' = Succ(tail)
    /\ UNCHANGED <<keyboard, key_buffer, head, lost, state, IFlag, byte, make, basic_key, got>>

parse_end ==
    /\ tail = head
    /\ Goto("loop", "exit")
    /\ UNCHANGED <<keyboard, ring, state, IFlag, byte, make, basic_key, got>>

\* EXIT_CRITICAL_SECTION.
exit_critical_section ==
    /\ Goto("exit", "search")
    /\ IFlag' = TRUE
    /\ UNCHANGED <<keyboard, ring, state, byte, make, basic_key, got>>

\* binary_search_key finds the keys of the two maps, and getc returns a character.
binary_search_key ==
    LET k == <<IF basic_key THEN "basic" ELSE "extended", byte>> IN
    /\ Goto("search", IF make /\ k \in Printable THEN "out" ELSE "enter")
    /\ got' = IF make /\ k \in Mapped THEN Append(got, k) ELSE got
    /\ UNCHANGED <<keyboard, ring, state, IFlag, byte, make, basic_key>>

flush_kbd_buffer ==
    /\ pc = "out"
    /\ head' = 0 /\ tail' = 0
    /\ lost' = IF head = tail THEN lost ELSE "all"
    /\ UNCHANGED <<keyboard, key_buffer, reader>>

Reader == getc \/ read_key \/ parse \/ advance \/ parse_end
          \/ exit_critical_section \/ binary_search_key

Next == \/ \E k \in Keys : Press(k) \/ Repeat(k) \/ Release(k)
        \/ kbd_isr
        \/ Reader
        \/ flush_kbd_buffer

Spec == Init /\ [][Next]_vars

\* A pending interrupt is taken when IF allows it, however briefly (module
\* Scheduler: before the next instruction), and a thread keeps reading.
FairSpec == Spec /\ SF_vars(kbd_isr) /\ WF_vars(Reader)

(***************************************************************************)
(* Properties.                                                             *)
(***************************************************************************)
TypeOK ==
    /\ down \subseteq Keys /\ repeating \subseteq down
    /\ wire \in Seq(Bytes)
    /\ key_buffer \in [Slots -> Bytes \cup {0}]
    /\ head \in Slots /\ tail \in Slots
    /\ state \in States
    /\ IFlag \in BOOLEAN
    /\ pc \in {"out", "enter", "loop", "advance", "exit", "search"}
    /\ byte \in Bytes
    /\ make \in BOOLEAN /\ basic_key \in BOOLEAN
    /\ typed \in Seq(Keys) /\ got \in Seq(Keys)
    /\ lost \in {"nothing", "oldest", "all"} /\ mixed \in BOOLEAN

\* The bytes between tail and head; the one the parse loop is at was taken.
Length == (head - tail) % KBD_BUFFER_SIZE
Content == [n \in 1 .. Length |-> key_buffer[(tail + n - 1) % KBD_BUFFER_SIZE]]
Untaken == IF pc = "advance" THEN Tail(Content) ELSE Content

\* The ring is a queue of KBD_BUFFER_SIZE - 1 bytes that loses its oldest byte when
\* it overflows, whenever kbd_isr comes (kbd-handler.c:260-295, 324-344).
Queue == INSTANCE KeyQueue WITH queue <- Untaken, taken <- byte,
                                Capacity <- KBD_BUFFER_SIZE - 1
QueueSpec == Queue!Spec

IsPrefixOf(s, t) == Len(s) \leq Len(t) /\ s = SubSeq(t, 1, Len(s))

\* The keys of a sequence that the maps know.
KnownOf(s) ==
    LET known[n \in 0 .. Len(s)] ==
            IF n = 0 THEN <<>>
            ELSE IF s[n] \in Mapped THEN Append(known[n - 1], s[n]) ELSE known[n - 1]
    IN known[Len(s)]
MappedTyped == KnownOf(typed)

Clean == lost = "nothing" /\ ~ mixed

\* As long as no byte was lost and no extended key was down together with another,
\* read_key returns the keys that were pressed, repeats included, in their order and
\* each once, however their bytes and the calls interleave (kbd-handler.c:413-546).
InOrder == Clean => IsPrefixOf(got, MappedTyped)

\* However keys overlap, once they are all up and their bytes have been parsed the
\* state machine is back in its first state.
InSync == (down = {} /\ wire = <<>> /\ tail = head /\ pc # "advance" /\ lost = "nothing")
              => state = "init"

\* Every key is returned in the end, unless bytes are lost or extended keys overlap.
Reported ==
    \A n \in 1 .. MaxTyped : Len(MappedTyped) = n ~> Len(got) \geq n \/ ~ Clean
=============================================================================
