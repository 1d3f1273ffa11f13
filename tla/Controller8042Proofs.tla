----------------------- MODULE Controller8042Proofs -----------------------
(***************************************************************************)
(* Proofs about Controller8042, for any command byte the firmware leaves,  *)
(* any bytes of keys, and any number of keys typed and bytes refused.      *)
(***************************************************************************)
EXTENDS Controller8042, SequenceTheorems, TLAPS

(***************************************************************************)
(* The inductive invariant.                                                *)
(***************************************************************************)

\* The places of the dialogue, by what the driver has sent last.
IdleAt == {Astray, 1, 3, 7, 9, 11, 13, 15, 17, 19, 21, 25}  \* nothing, or it was answered
AskedAt == {2, 20, 24}          \* for the command byte
WritingAt == {4, 22, 26}        \* the command to write it
WrittenAt == {5, 23, Returned}  \* the command byte
CommandedAt == {8, 12, 16}      \* a command for the keyboard
DataAt == {10, 14, 18}          \* the data of that command

\* What the keyboard is sent at each place, or was sent last.
Command8(p) == IF p \in 7 .. 14 THEN kb_led_cmd ELSE kb_scan_code
Data8(p) == IF p \in 9 .. 10 THEN 7 ELSE IF p \in 13 .. 14 THEN 0 ELSE kb_scan_2

Empty == in.byte = None
Pending(port, byte) == in = [port |-> port, byte |-> byte]

\* The command byte on the way: the interrupt off, and the keyboard on since a byte was
\* sent to it, and the interrupt on again.
IntOff == Cleared(firmware, KBD_INT)
Off == Cleared(IntOff, KBD_OFF)
On == WithBit(Off, KBD_INT)

\* The command was not taken yet, or its answer is there.
Asking(byte, answer) ==
    /\ line = None /\ ~ writing
    /\ \/ Pending(Command, byte) /\ out = <<>>
       \/ Empty /\ out = <<answer>>

\* The byte was not taken yet, is on its way to the keyboard, or was answered.
Telling(byte) ==
    /\ ~ writing
    /\ \/ Pending(Data, byte) /\ line = None /\ out = <<>>
       \/ Empty /\ line = byte /\ out = <<>>
       \/ Empty /\ line = None /\ out \in {<<kb_ack>>, <<kb_resend>>}

\* What is under way while the dialogue is undisturbed.
WireInv == Undisturbed =>
    /\ pc \in IdleAt => Empty /\ line = None /\ out = <<>> /\ ~ writing
    /\ pc \in AskedAt => Asking(k_8042_read_cmd, cb)
    /\ pc = 6 => Asking(k_8042_self_test,
                        IF works THEN k_8042_self_test_res ELSE SelfTestFailed)
    /\ pc \in WritingAt => /\ line = None /\ out = <<>>
                           /\ \/ Pending(Command, k_8042_write_cmd) /\ ~ writing
                              \/ Empty /\ writing
    /\ pc \in WrittenAt => /\ line = None /\ out = <<>>
                           /\ LET byte == IF pc = 5 THEN IntOff ELSE On
                              IN \/ Pending(Data, byte) /\ writing
                                 \/ Empty /\ cb = byte /\ ~ writing
    /\ pc \in CommandedAt => Telling(Command8(pc))
    /\ pc \in DataAt => Telling(Data8(pc))

\* What the command byte is meanwhile, and what the driver knows of it.
ByteInv == Undisturbed =>
    /\ pc \in 1 .. 4 => cb = firmware
    /\ pc \in {3, 4} => al = firmware
    /\ pc \in {6, 7} => cb = IntOff
    /\ pc = 8 => IF Empty THEN cb = Off ELSE cb = IntOff
    /\ pc \in 9 .. 22 => cb = Off
    /\ pc \in {21, 22} => al = Off
    /\ pc \in 24 .. Returned => cb = On
    /\ pc \in {25, 26} => al = On

\* What the keyboard has done, if it refused nothing.
KeyboardInv == Undisturbed /\ resends = 0 =>
    /\ pc \in CommandedAt /\ out # <<>> => out = <<kb_ack>> /\ expects = Command8(pc)
    /\ pc \in {9, 13, 17} => expects = Command8(pc)
    /\ pc \in DataAt /\ out = <<>> => expects = Command8(pc)
    /\ pc \in DataAt /\ out # <<>> => out = <<kb_ack>>
    /\ (pc = 14 /\ out # <<>>) \/ pc \in 15 .. Returned => leds = 0
    /\ (pc = 18 /\ out # <<>>) \/ pc \in 19 .. Returned => set = 2

\* The self test was passed by who is behind it.
TestInv == Undisturbed =>
    /\ pc \in 7 .. Returned => works
    /\ pc = Astray => ~ works

\* The last byte written turns the interrupt on, whatever happened before.
LastInv == ~ gave_up =>
    /\ pc = 26 => Pending(Command, k_8042_write_cmd) \/ (Empty /\ writing)
    /\ pc = Returned =>
          \/ in.port = Data /\ HasBit(in.byte, KBD_INT) /\ in.byte # None /\ writing
          \/ Empty /\ HasBit(cb, KBD_INT)

IInv == TypeOK /\ WireInv /\ ByteInv /\ KeyboardInv /\ TestInv /\ LastInv

(***************************************************************************)
(* The dialogue, place by place.                                           *)
(***************************************************************************)
Steps == {Send(port, byte) : port \in {Command, Data}, byte \in Byte}
         \cup {SendNow(byte) : byte \in Byte}
         \cup {SendBack(on) : on \in BOOLEAN}
         \cup {Read(want, skip) : want \in SUBSET Byte, skip \in Nat}

\* s is a part of the dialogue of n steps; y, of n steps, is in s from place k on.
Part(s, n) == s \in Seq(Steps) /\ Len(s) = n
At(s, k, y, n) == \A j \in 1 .. n : s[k + j] = y[j]

LEMMA Appended ==
  ASSUME NEW s, NEW t, NEW m \in Nat, NEW n \in Nat, Part(s, m), Part(t, n)
  PROVE  Part(s \o t, m + n) /\ At(s \o t, 0, s, m) /\ At(s \o t, m, t, n)
  <1>1. /\ s \o t \in Seq(Steps) /\ Len(s \o t) = m + n
        /\ \A j \in 1 .. m : (s \o t)[0 + j] = s[j]
        /\ \A j \in 1 .. n : (s \o t)[m + j] = t[j]
    BY DEF Part
  <1> QED BY <1>1, Zenon DEF Part, At

LEMMA Within ==
  ASSUME NEW s, NEW x, NEW y, NEW k \in Nat, NEW m \in Nat, NEW n \in Nat,
         At(s, 0, x, m), At(x, k, y, n), k + n \leq m
  PROVE  At(s, k, y, n)
  BY DEF At

LEMMA Tuples ==
  /\ \A a, b : /\ Len(<<a, b>>) = 2 /\ <<a, b>>[1] = a /\ <<a, b>>[2] = b
               /\ \A S : a \in S /\ b \in S => <<a, b>> \in Seq(S)
  /\ \A a, b, c, d : /\ Len(<<a, b, c, d>>) = 4
                     /\ <<a, b, c, d>>[1] = a /\ <<a, b, c, d>>[2] = b
                     /\ <<a, b, c, d>>[3] = c /\ <<a, b, c, d>>[4] = d
                     /\ \A S : a \in S /\ b \in S /\ c \in S /\ d \in S
                               => <<a, b, c, d>> \in Seq(S)
  OBVIOUS

LEMMA AreSteps ==
  /\ \A port \in {Command, Data}, byte \in Byte : Send(port, byte) \in Steps
  /\ \A byte \in Byte : SendNow(byte) \in Steps
  /\ \A on \in BOOLEAN : SendBack(on) \in Steps
  /\ \A want \in SUBSET Byte, skip \in Nat : Read(want, skip) \in Steps
  BY DEF Steps

LEMMA Bytes ==
  /\ {k_8042_read_cmd, k_8042_write_cmd, k_8042_self_test, k_8042_self_test_res} \subseteq Byte
  /\ {kb_led_cmd, kb_scan_code, kb_scan_2, kb_ack, kb_resend, SelfTestFailed} \subseteq Byte
  /\ 0 \in Byte /\ 7 \in Byte /\ None \notin Byte
  /\ Any \subseteq Byte /\ {kb_ack} \subseteq Byte /\ {k_8042_self_test_res} \subseteq Byte
  BY DEF k_8042_read_cmd, k_8042_write_cmd, k_8042_self_test, k_8042_self_test_res,
         kb_led_cmd, kb_scan_code, kb_scan_2, kb_ack, kb_resend, SelfTestFailed,
         None, Any, Byte

\* The driver's sequence, as the operators of kbd.S compose it.
LEMMA Dialogue ==
  LET h == init_kbd_handler IN
  /\ Len(h) = 26 /\ DOMAIN h = 1 .. 26
  /\ h[1] = Send(Command, k_8042_read_cmd) /\ h[2] = Read(Any, 0)
  /\ h[3] = Send(Command, k_8042_write_cmd) /\ h[4] = SendBack(FALSE)
  /\ h[5] = Send(Command, k_8042_self_test) /\ h[6] = Read({k_8042_self_test_res}, Away)
  /\ h[7] = Send(Data, kb_led_cmd) /\ h[8] = Read({kb_ack}, 2)
  /\ h[9] = SendNow(7) /\ h[10] = Read({kb_ack}, 0)
  /\ h[11] = Send(Data, kb_led_cmd) /\ h[12] = Read({kb_ack}, 2)
  /\ h[13] = SendNow(0) /\ h[14] = Read({kb_ack}, 0)
  /\ h[15] = Send(Data, kb_scan_code) /\ h[16] = Read({kb_ack}, 2)
  /\ h[17] = SendNow(kb_scan_2) /\ h[18] = Read({kb_ack}, 0)
  /\ h[19] = Send(Command, k_8042_read_cmd) /\ h[20] = Read(Any, 0)
  /\ h[21] = Send(Command, k_8042_write_cmd) /\ h[22] = SendBack(TRUE)
  /\ h[23] = Send(Command, k_8042_read_cmd) /\ h[24] = Read(Any, 0)
  /\ h[25] = Send(Command, k_8042_write_cmd) /\ h[26] = SendBack(TRUE)
  <1> DEFINE r == <<Send(Command, k_8042_read_cmd), Read(Any, 0)>>
             wf == <<Send(Command, k_8042_write_cmd), SendBack(FALSE)>>
             wt == <<Send(Command, k_8042_write_cmd), SendBack(TRUE)>>
             t == <<Send(Command, k_8042_self_test), Read({k_8042_self_test_res}, Away)>>
             k7 == <<Send(Data, kb_led_cmd), Read({kb_ack}, 2), SendNow(7), Read({kb_ack}, 0)>>
             k0 == <<Send(Data, kb_led_cmd), Read({kb_ack}, 2), SendNow(0), Read({kb_ack}, 0)>>
             k2 == <<Send(Data, kb_scan_code), Read({kb_ack}, 2),
                     SendNow(kb_scan_2), Read({kb_ack}, 0)>>
             h4 == r \o wf
             h6 == h4 \o t
             h10 == h6 \o k7
             h14 == h10 \o k0
             h18 == h14 \o k2
             h20 == h18 \o r
             h22 == h20 \o wt
             e4 == r \o wt
             h == h22 \o e4
  <1>1. /\ r \in Seq(Steps) /\ wf \in Seq(Steps) /\ wt \in Seq(Steps) /\ t \in Seq(Steps)
        /\ k7 \in Seq(Steps) /\ k0 \in Seq(Steps) /\ k2 \in Seq(Steps)
    <2>1. 0 \in Nat /\ 2 \in Nat /\ Away \in Nat
      BY DEF Away
    <2>2. /\ Send(Command, k_8042_read_cmd) \in Steps /\ Read(Any, 0) \in Steps
          /\ Send(Command, k_8042_write_cmd) \in Steps /\ SendBack(FALSE) \in Steps
          /\ SendBack(TRUE) \in Steps /\ Send(Command, k_8042_self_test) \in Steps
      BY <2>1, AreSteps, Bytes
    <2>3. /\ Read({k_8042_self_test_res}, Away) \in Steps
          /\ Send(Data, kb_led_cmd) \in Steps /\ Send(Data, kb_scan_code) \in Steps
          /\ Read({kb_ack}, 2) \in Steps /\ Read({kb_ack}, 0) \in Steps
      BY <2>1, AreSteps, Bytes
    <2>4. SendNow(7) \in Steps /\ SendNow(0) \in Steps /\ SendNow(kb_scan_2) \in Steps
      BY AreSteps, Bytes
    <2>5. r \in Seq(Steps)
      BY <2>2, <2>3, <2>4, Tuples, Zenon
    <2>6. wf \in Seq(Steps)
      BY <2>2, <2>3, <2>4, Tuples, Zenon
    <2>7. wt \in Seq(Steps)
      BY <2>2, <2>3, <2>4, Tuples, Zenon
    <2>8. t \in Seq(Steps)
      BY <2>2, <2>3, <2>4, Tuples, Zenon
    <2>9. k7 \in Seq(Steps)
      BY <2>2, <2>3, <2>4, Tuples, Zenon
    <2>10. k0 \in Seq(Steps)
      BY <2>2, <2>3, <2>4, Tuples, Zenon
    <2>11. k2 \in Seq(Steps)
      BY <2>2, <2>3, <2>4, Tuples, Zenon
    <2> QED BY <2>5, <2>6, <2>7, <2>8, <2>9, <2>10, <2>11
  <1>2. /\ Len(r) = 2 /\ Len(wf) = 2 /\ Len(wt) = 2 /\ Len(t) = 2
        /\ Len(k7) = 4 /\ Len(k0) = 4 /\ Len(k2) = 4
    BY Tuples, Zenon
  <1>3. init_kbd_handler = h
    BY Zenon DEF init_kbd_handler, init_kbd, enable_keyboard_int, read_command_byte,
                 write_command_byte, self_test, select_scan_code_2,
                 send_command_and_data_to_kbd_wait_ack
  <1>4. /\ Part(r, 2) /\ Part(wf, 2) /\ Part(wt, 2) /\ Part(t, 2)
        /\ Part(k7, 4) /\ Part(k0, 4) /\ Part(k2, 4)
    BY <1>1, <1>2, Zenon DEF Part
  <1> HIDE DEF r, wf, wt, t, k7, k0, k2
  <1>5. Part(h4, 4) /\ At(h4, 0, r, 2) /\ At(h4, 2, wf, 2)
    <2>1. Part(h4, 2 + 2) /\ At(h4, 0, r, 2) /\ At(h4, 2, wf, 2)
      BY <1>4, 2 \in Nat, 2 \in Nat, Appended, Zenon DEF h4
    <2> QED BY <2>1, 2 + 2 = 4, Zenon
  <1> HIDE DEF h4
  <1>6. Part(h6, 6) /\ At(h6, 0, h4, 4) /\ At(h6, 4, t, 2)
    <2>1. Part(h6, 4 + 2) /\ At(h6, 0, h4, 4) /\ At(h6, 4, t, 2)
      BY <1>4, <1>5, 4 \in Nat, 2 \in Nat, Appended, Zenon DEF h6
    <2> QED BY <2>1, 4 + 2 = 6, Zenon
  <1> HIDE DEF h6
  <1>7. Part(h10, 10) /\ At(h10, 0, h6, 6) /\ At(h10, 6, k7, 4)
    <2>1. Part(h10, 6 + 4) /\ At(h10, 0, h6, 6) /\ At(h10, 6, k7, 4)
      BY <1>4, <1>6, 6 \in Nat, 4 \in Nat, Appended, Zenon DEF h10
    <2> QED BY <2>1, 6 + 4 = 10, Zenon
  <1> HIDE DEF h10
  <1>8. Part(h14, 14) /\ At(h14, 0, h10, 10) /\ At(h14, 10, k0, 4)
    <2>1. Part(h14, 10 + 4) /\ At(h14, 0, h10, 10) /\ At(h14, 10, k0, 4)
      BY <1>4, <1>7, 10 \in Nat, 4 \in Nat, Appended, Zenon DEF h14
    <2> QED BY <2>1, 10 + 4 = 14, Zenon
  <1> HIDE DEF h14
  <1>9. Part(h18, 18) /\ At(h18, 0, h14, 14) /\ At(h18, 14, k2, 4)
    <2>1. Part(h18, 14 + 4) /\ At(h18, 0, h14, 14) /\ At(h18, 14, k2, 4)
      BY <1>4, <1>8, 14 \in Nat, 4 \in Nat, Appended, Zenon DEF h18
    <2> QED BY <2>1, 14 + 4 = 18, Zenon
  <1> HIDE DEF h18
  <1>10. Part(h20, 20) /\ At(h20, 0, h18, 18) /\ At(h20, 18, r, 2)
    <2>1. Part(h20, 18 + 2) /\ At(h20, 0, h18, 18) /\ At(h20, 18, r, 2)
      BY <1>4, <1>9, 18 \in Nat, 2 \in Nat, Appended, Zenon DEF h20
    <2> QED BY <2>1, 18 + 2 = 20, Zenon
  <1> HIDE DEF h20
  <1>11. Part(h22, 22) /\ At(h22, 0, h20, 20) /\ At(h22, 20, wt, 2)
    <2>1. Part(h22, 20 + 2) /\ At(h22, 0, h20, 20) /\ At(h22, 20, wt, 2)
      BY <1>4, <1>10, 20 \in Nat, 2 \in Nat, Appended, Zenon DEF h22
    <2> QED BY <2>1, 20 + 2 = 22, Zenon
  <1> HIDE DEF h22
  <1>12. Part(e4, 4) /\ At(e4, 0, r, 2) /\ At(e4, 2, wt, 2)
    <2>1. Part(e4, 2 + 2) /\ At(e4, 0, r, 2) /\ At(e4, 2, wt, 2)
      BY <1>4, 2 \in Nat, 2 \in Nat, Appended, Zenon DEF e4
    <2> QED BY <2>1, 2 + 2 = 4, Zenon
  <1> HIDE DEF e4
  <1>13. Part(h, 26) /\ At(h, 0, h22, 22) /\ At(h, 22, e4, 4)
    <2>1. Part(h, 22 + 4) /\ At(h, 0, h22, 22) /\ At(h, 22, e4, 4)
      BY <1>4, <1>11, <1>12, 22 \in Nat, 4 \in Nat, Appended, Zenon DEF h
    <2> QED BY <2>1, 22 + 4 = 26, Zenon
  <1> HIDE DEF h
  <1>14. At(h, 0, h20, 20)
    BY <1>13, <1>11, Within
  <1>15. At(h, 0, h18, 18)
    BY <1>14, <1>10, Within
  <1>16. At(h, 0, h14, 14)
    BY <1>15, <1>9, Within
  <1>17. At(h, 0, h10, 10)
    BY <1>16, <1>8, Within
  <1>18. At(h, 0, h6, 6)
    BY <1>17, <1>7, Within
  <1>19. At(h, 0, h4, 4)
    BY <1>18, <1>6, Within
  <1>20. At(h, 0, r, 2)
    BY <1>19, <1>5, Within
  <1>21. /\ At(h, 2, wf, 2) /\ At(h, 4, t, 2) /\ At(h, 6, k7, 4) /\ At(h, 10, k0, 4)
        /\ At(h, 14, k2, 4) /\ At(h, 18, r, 2) /\ At(h, 20, wt, 2)
    BY <1>19, <1>18, <1>17, <1>16, <1>15, <1>14, <1>13, <1>5, <1>6, <1>7, <1>8, <1>9, <1>10,
       <1>11, Within
  <1>22. h[1] = r[1] /\ h[2] = r[2]
    BY <1>20 DEF At
  <1>23. h[3] = wf[1] /\ h[4] = wf[2]
    BY <1>21 DEF At
  <1>24. h[5] = t[1] /\ h[6] = t[2]
    BY <1>21 DEF At
  <1>25. h[7] = k7[1] /\ h[8] = k7[2] /\ h[9] = k7[3] /\ h[10] = k7[4]
    BY <1>21 DEF At
  <1>26. h[11] = k0[1] /\ h[12] = k0[2] /\ h[13] = k0[3] /\ h[14] = k0[4]
    BY <1>21 DEF At
  <1>27. h[15] = k2[1] /\ h[16] = k2[2] /\ h[17] = k2[3] /\ h[18] = k2[4]
    BY <1>21 DEF At
  <1>28. h[19] = r[1] /\ h[20] = r[2]
    BY <1>21 DEF At
  <1>29. h[21] = wt[1] /\ h[22] = wt[2]
    BY <1>21 DEF At
  <1>30. h[23] = e4[1] /\ h[24] = e4[2] /\ h[25] = e4[3] /\ h[26] = e4[4]
    BY <1>13 DEF At
  <1>31. e4[1] = r[1] /\ e4[2] = r[2] /\ e4[3] = wt[1] /\ e4[4] = wt[2]
    BY <1>12 DEF At
  <1>32. /\ r[1] = Send(Command, k_8042_read_cmd) /\ r[2] = Read(Any, 0)
    BY Tuples, Zenon DEF r
  <1>33. /\ wf[1] = Send(Command, k_8042_write_cmd) /\ wf[2] = SendBack(FALSE)
    BY Tuples, Zenon DEF wf
  <1>34. /\ wt[1] = Send(Command, k_8042_write_cmd) /\ wt[2] = SendBack(TRUE)
    BY Tuples, Zenon DEF wt
  <1>35. /\ t[1] = Send(Command, k_8042_self_test) /\ t[2] = Read({k_8042_self_test_res}, Away)
    BY Tuples, Zenon DEF t
  <1>36. /\ k7[1] = Send(Data, kb_led_cmd) /\ k7[2] = Read({kb_ack}, 2)
         /\ k7[3] = SendNow(7) /\ k7[4] = Read({kb_ack}, 0)
    BY Tuples, Zenon DEF k7
  <1>37. /\ k0[1] = Send(Data, kb_led_cmd) /\ k0[2] = Read({kb_ack}, 2)
         /\ k0[3] = SendNow(0) /\ k0[4] = Read({kb_ack}, 0)
    BY Tuples, Zenon DEF k0
  <1>38. /\ k2[1] = Send(Data, kb_scan_code) /\ k2[2] = Read({kb_ack}, 2)
         /\ k2[3] = SendNow(kb_scan_2) /\ k2[4] = Read({kb_ack}, 0)
    BY Tuples, Zenon DEF k2
  <1>39. Len(h) = 26 /\ DOMAIN h = 1 .. 26
    <2>1. \A S : \A s \in Seq(S) : DOMAIN s = 1 .. Len(s)
      OBVIOUS
    <2> QED BY <2>1, <1>13, Zenon DEF Part
  <1> QED BY <1>3, <1>39, <1>22, <1>23, <1>24, <1>25, <1>26, <1>27, <1>28, <1>29, <1>30,
             <1>31, <1>32, <1>33, <1>34, <1>35, <1>36, <1>37, <1>38, Zenon

\* The wait has given up, unless the input buffer was free.
Waited == gave_up' = (gave_up \/ ~ Empty)

\* What the driver sends at each place.
LEMMA Sends ==
  ASSUME wait_and_send, TypeOK
  PROVE  /\ pc \in 1 .. 26 /\ pc' = pc + 1
         /\ \/ pc \in {1, 19, 23} /\ Pending(Command, k_8042_read_cmd)' /\ Waited
            \/ pc \in {3, 21, 25} /\ Pending(Command, k_8042_write_cmd)' /\ Waited
            \/ pc = 4 /\ Pending(Data, Cleared(al, KBD_INT))' /\ Waited
            \/ pc \in {22, 26} /\ Pending(Data, WithBit(al, KBD_INT))' /\ Waited
            \/ pc = 5 /\ Pending(Command, k_8042_self_test)' /\ Waited
            \/ pc \in {7, 11, 15} /\ Pending(Data, Command8(pc))' /\ Waited
            \/ pc \in {9, 13, 17} /\ Pending(Data, Data8(pc))' /\ gave_up' = gave_up
  <1>1. /\ pc \in 1 .. 26 /\ pc' = pc + 1 /\ step = init_kbd_handler[pc]
        /\ step.do = "send" \/ step.do = "send back" \/ step.do = "send now"
    <2>1. pc \in 1 .. 26
      BY Dialogue, Zenon DEF wait_and_send, Running
    <2>2. step.do \in {"send", "send back", "send now"} /\ pc' = pc + 1
      BY Zenon DEF wait_and_send
    <2> QED BY <2>1, <2>2, Zenon DEF step
  <1>18. pc \in 1 .. 26 /\ pc' = pc + 1
    BY <1>1, Zenon
  <1>2. /\ gave_up' = (gave_up \/ (~ Empty /\ step.do # "send now"))
        /\ in' = [port |-> step.port,
                  byte |-> IF step.do # "send back" THEN step.byte
                           ELSE IF step.on THEN WithBit(al, KBD_INT)
                           ELSE Cleared(al, KBD_INT)]
    BY Zenon DEF wait_and_send, InputFree, Empty
  <1>3. ASSUME NEW port, NEW byte, step = Send(port, byte)
        PROVE  Pending(port, byte)' /\ Waited
    <2>1. step.do = "send" /\ step.port = port /\ step.byte = byte
      BY <1>3 DEF Send
    <2>2. "send" # "send back" /\ "send" # "send now"
      OBVIOUS
    <2> QED BY <1>2, <2>1, <2>2 DEF Pending, Waited
  <1>4. ASSUME NEW byte, step = SendNow(byte)
        PROVE  Pending(Data, byte)' /\ gave_up' = gave_up
    <2>1. step.do = "send now" /\ step.port = Data /\ step.byte = byte
      BY <1>4 DEF SendNow
    <2>2. "send now" # "send back" /\ gave_up \in BOOLEAN
      BY DEF TypeOK
    <2> QED BY <1>2, <2>1, <2>2 DEF Pending
  <1>5. step = SendBack(TRUE) => Pending(Data, WithBit(al, KBD_INT))' /\ Waited
    <2> SUFFICES ASSUME step = SendBack(TRUE)
                 PROVE  Pending(Data, WithBit(al, KBD_INT))' /\ Waited
      OBVIOUS
    <2>1. step.do = "send back" /\ step.port = Data /\ step.on
      BY DEF SendBack
    <2>2. "send back" # "send now"
      OBVIOUS
    <2>3. in' = [port |-> Data, byte |-> WithBit(al, KBD_INT)]
      BY <1>2, <2>1
    <2>4. UNCHANGED al
      BY Zenon DEF wait_and_send
    <2> QED BY <1>2, <2>1, <2>2, <2>3, <2>4 DEF Pending, Waited, WithBit, Cleared, HasBit
  <1>6. step = SendBack(FALSE) => Pending(Data, Cleared(al, KBD_INT))' /\ Waited
    <2> SUFFICES ASSUME step = SendBack(FALSE)
                 PROVE  Pending(Data, Cleared(al, KBD_INT))' /\ Waited
      OBVIOUS
    <2>1. step.do = "send back" /\ step.port = Data /\ ~ step.on
      BY DEF SendBack
    <2>2. "send back" # "send now"
      OBVIOUS
    <2>3. in' = [port |-> Data, byte |-> Cleared(al, KBD_INT)]
      BY <1>2, <2>1
    <2>4. UNCHANGED al
      BY Zenon DEF wait_and_send
    <2> QED BY <1>2, <2>1, <2>2, <2>3, <2>4 DEF Pending, Waited, Cleared, HasBit
  <1>7. pc \notin {2, 6, 8, 10, 12, 14, 16, 18, 20, 24}
    <2>1. step.do = "send" \/ step.do = "send back" \/ step.do = "send now"
      BY <1>1, Zenon
    <2>2. ASSUME NEW want, NEW skip, step = Read(want, skip) PROVE FALSE
      BY <2>1, <2>2 DEF Read
    <2>3. /\ pc \in {2, 20, 24} => step = Read(Any, 0)
          /\ pc = 6 => step = Read({k_8042_self_test_res}, Away)
          /\ pc \in {8, 12, 16} => step = Read({kb_ack}, 2)
          /\ pc \in {10, 14, 18} => step = Read({kb_ack}, 0)
      BY <1>1, Dialogue
    <2> QED BY <2>2, <2>3, Zenon
  <1>8. /\ pc \in {1, 19, 23} => step = Send(Command, k_8042_read_cmd)
        /\ pc \in {3, 21, 25} => step = Send(Command, k_8042_write_cmd)
        /\ pc = 4 => step = SendBack(FALSE)
        /\ pc \in {22, 26} => step = SendBack(TRUE)
        /\ pc = 5 => step = Send(Command, k_8042_self_test)
        /\ pc \in {7, 11} => step = Send(Data, kb_led_cmd)
        /\ pc = 15 => step = Send(Data, kb_scan_code)
        /\ pc = 9 => step = SendNow(7)
        /\ pc = 13 => step = SendNow(0)
        /\ pc = 17 => step = SendNow(kb_scan_2)
    BY <1>1, Dialogue
  <1>9. /\ pc \in {7, 11} => Command8(pc') = kb_led_cmd
        /\ pc = 15 => Command8(pc') = kb_scan_code
        /\ pc = 9 => Data8(pc') = 7
        /\ pc = 13 => Data8(pc') = 0
        /\ pc = 17 => Data8(pc') = kb_scan_2
    BY <1>18 DEF Command8, Data8, kb_led_cmd, kb_scan_code, kb_scan_2
  <1>10. \/ pc \in {1, 19, 23} \/ pc \in {3, 21, 25} \/ pc = 4 \/ pc \in {22, 26} \/ pc = 5
         \/ pc \in {7, 11, 15} \/ pc \in {9, 13, 17}
    BY <1>18, <1>7
  <1>11. CASE pc \in {1, 19, 23}
    BY <1>1, <1>3, <1>8, <1>11, Zenon
  <1>12. CASE pc \in {3, 21, 25}
    BY <1>1, <1>3, <1>8, <1>12, Zenon
  <1>13. CASE pc = 4
    BY <1>1, <1>6, <1>8, <1>13, Zenon
  <1>14. CASE pc \in {22, 26}
    BY <1>1, <1>5, <1>8, <1>14, Zenon
  <1>15. CASE pc = 5
    BY <1>1, <1>3, <1>8, <1>15, Zenon
  <1>16. CASE pc \in {7, 11, 15}
    <2>1. in' = [port |-> Data, byte |-> Command8(pc')] /\ Waited
      <3>1. CASE pc \in {7, 11}
        BY <1>3, <1>8, <1>9, <3>1, Zenon DEF Pending
      <3>2. CASE pc = 15
        BY <1>3, <1>8, <1>9, <3>2, Zenon DEF Pending
      <3> QED BY <1>16, <3>1, <3>2
    <2> QED BY <1>1, <1>16, <2>1, Zenon DEF Pending
  <1>17. CASE pc \in {9, 13, 17}
    <2>1. in' = [port |-> Data, byte |-> Data8(pc')] /\ gave_up' = gave_up
      <3>1. CASE pc = 9
        BY <1>4, <1>8, <1>9, <3>1, Zenon DEF Pending
      <3>2. CASE pc = 13
        BY <1>4, <1>8, <1>9, <3>2, Zenon DEF Pending
      <3>3. CASE pc = 17
        BY <1>4, <1>8, <1>9, <3>3, Zenon DEF Pending
      <3> QED BY <1>17, <3>1, <3>2, <3>3
    <2> QED BY <1>1, <1>17, <2>1, Zenon DEF Pending
  <1> QED BY <1>10, <1>11, <1>12, <1>13, <1>14, <1>15, <1>16, <1>17

\* What it reads, and where the answer leads.
LEMMA Reads ==
  ASSUME wait_and_read, TypeOK
  PROVE  /\ al' \in Byte /\ last' = al' /\ gave_up' = (gave_up \/ out = <<>>)
         /\ out = <<>> => out' = out
         /\ out # <<>> => al' = Head(out) /\ out' = Tail(out)
         /\ \/ pc \in {2, 20, 24} /\ pc' = pc + 1
            \/ pc = 6 /\ pc' = IF al' = k_8042_self_test_res THEN 7 ELSE Astray
            \/ pc \in {8, 12, 16} /\ pc' = IF al' = kb_ack THEN pc + 1 ELSE pc + 3
            \/ pc \in {10, 14, 18} /\ pc' = pc + 1
  <1>1. /\ pc \in 1 .. 26 /\ step = init_kbd_handler[pc] /\ step.do = "read"
        /\ pc' = IF al' \in step.want THEN pc + 1
                 ELSE IF step.skip = Away THEN Astray ELSE pc + 1 + step.skip
    BY Dialogue DEF wait_and_read, Running, step
  <1>2. /\ last' = al' /\ gave_up' = (gave_up \/ out = <<>>)
        /\ out = <<>> => al' = last /\ out' = out
        /\ out # <<>> => al' = Head(out) /\ out' = Tail(out)
    BY DEF wait_and_read, OutputFull
  <1>3. al' \in Byte
    <2>1. CASE out = <<>>
      BY <1>2, <2>1 DEF TypeOK
    <2>2. CASE out # <<>>
      <3>1. ASSUME NEW S, NEW s \in Seq(S), s # <<>> PROVE Head(s) \in S
        BY <3>1
      <3>2. Head(out) \in Byte
        BY <2>2, <3>1 DEF TypeOK
      <3> QED BY <1>2, <2>2, <3>2
    <2> QED BY <2>1, <2>2
  <1>4. pc \notin {1, 3, 4, 5, 7, 9, 11, 13, 15, 17, 19, 21, 22, 23, 25, 26}
    <2>1. step.do = "read"
      BY <1>1, Zenon
    <2>2. ASSUME NEW port, NEW byte, step = Send(port, byte) PROVE FALSE
      BY <2>1, <2>2 DEF Send
    <2>3. ASSUME NEW byte, step = SendNow(byte) PROVE FALSE
      BY <2>1, <2>3 DEF SendNow
    <2>4. step # SendBack(TRUE) /\ step # SendBack(FALSE)
      <3>1. SendBack(TRUE).do = "send back" /\ SendBack(FALSE).do = "send back"
        BY DEF SendBack
      <3>2. "send back" # "read"
        OBVIOUS
      <3> QED BY <2>1, <3>1, <3>2, Zenon
    <2>5. /\ pc \in {1, 19, 23} => step = Send(Command, k_8042_read_cmd)
          /\ pc \in {3, 21, 25} => step = Send(Command, k_8042_write_cmd)
          /\ pc = 4 => step = SendBack(FALSE)
          /\ pc \in {22, 26} => step = SendBack(TRUE)
          /\ pc = 5 => step = Send(Command, k_8042_self_test)
          /\ pc \in {7, 11} => step = Send(Data, kb_led_cmd)
          /\ pc = 15 => step = Send(Data, kb_scan_code)
          /\ pc = 9 => step = SendNow(7)
          /\ pc = 13 => step = SendNow(0)
          /\ pc = 17 => step = SendNow(kb_scan_2)
      BY <1>1, Dialogue
    <2> QED BY <2>2, <2>3, <2>4, <2>5, Zenon
  <1>5. ASSUME NEW want, NEW skip, step = Read(want, skip)
        PROVE  step.want = want /\ step.skip = skip
    BY <1>5 DEF Read
  <1>6. /\ pc \in {2, 20, 24} => step = Read(Any, 0)
        /\ pc = 6 => step = Read({k_8042_self_test_res}, Away)
        /\ pc \in {8, 12, 16} => step = Read({kb_ack}, 2)
        /\ pc \in {10, 14, 18} => step = Read({kb_ack}, 0)
    BY <1>1, Dialogue
  <1>7. /\ pc \in {2, 20, 24} => step.want = Byte
        /\ pc = 6 => step.want = {k_8042_self_test_res} /\ step.skip = Away
        /\ pc \in {8, 12, 16} => step.want = {kb_ack} /\ step.skip = 2
        /\ pc \in {10, 14, 18} => step.want = {kb_ack} /\ step.skip = 0
    BY <1>5, <1>6, Zenon DEF Any
  <1>8. \/ pc \in {2, 20, 24} \/ pc = 6 \/ pc \in {8, 12, 16} \/ pc \in {10, 14, 18}
    BY <1>1, <1>4
  <1>9. CASE pc \in {2, 20, 24}
    BY <1>1, <1>2, <1>3, <1>7, <1>9
  <1>10. CASE pc = 6
    BY <1>1, <1>2, <1>3, <1>7, <1>10
  <1>11. CASE pc \in {8, 12, 16}
    BY <1>1, <1>2, <1>3, <1>7, <1>11 DEF Away
  <1>12. CASE pc \in {10, 14, 18}
    BY <1>1, <1>2, <1>3, <1>7, <1>12 DEF Away
  <1> QED BY <1>8, <1>9, <1>10, <1>11, <1>12

(***************************************************************************)
(* Bits of the command byte, and buffers of one byte.                      *)
(***************************************************************************)
\* A byte by its bits KBD_OFF and KBD_INT, n and m, and those above and between them.
Packed(a, n, k, m) == 32 * a + 16 * n + 2 * k + m

BitsOf(a, n, k, m) ==
    /\ Packed(a, n, k, m) \in Byte
    /\ HasBit(Packed(a, n, k, m), KBD_INT) <=> m = 1
    /\ Cleared(Packed(a, n, k, m), KBD_INT) = Packed(a, n, k, 0)
    /\ Cleared(Packed(a, n, k, m), KBD_OFF) = Packed(a, 0, k, m)
    /\ WithBit(Packed(a, n, k, m), KBD_INT) = Packed(a, n, k, 1)

LEMMA PackedBits ==
  ASSUME NEW a \in 0 .. 7, NEW n \in 0 .. 1, NEW k \in 0 .. 7, NEW m \in 0 .. 1
  PROVE  BitsOf(a, n, k, m)
  <1>1. Packed(a, n, k, m) \in Byte
    BY DEF Packed, Byte
  <1>2. Packed(a, n, k, m) % 2 = m
    BY DEF Packed
  <1>3. (Packed(a, n, k, m) \div 16) % 2 = n
    <2>1. Packed(a, n, k, m) \div 16 = 2 * a + n
      BY DEF Packed
    <2> QED BY <2>1
  <1>4. Packed(a, n, k, m) \div 1 = Packed(a, n, k, m)
    BY DEF Packed
  <1>5. HasBit(Packed(a, n, k, m), KBD_INT) <=> m = 1
    BY <1>2, <1>4 DEF HasBit, KBD_INT
  <1>6. HasBit(Packed(a, n, k, m), KBD_OFF) <=> n = 1
    BY <1>3 DEF HasBit, KBD_OFF
  <1>7. Cleared(Packed(a, n, k, m), KBD_INT) = Packed(a, n, k, 0)
    BY <1>5 DEF Cleared, KBD_INT, Packed
  <1>8. Cleared(Packed(a, n, k, m), KBD_OFF) = Packed(a, 0, k, m)
    BY <1>6 DEF Cleared, KBD_OFF, Packed
  <1>9. WithBit(Packed(a, n, k, m), KBD_INT) = Packed(a, n, k, 1)
    BY <1>7 DEF WithBit, KBD_INT, Packed
  <1> QED BY <1>1, <1>5, <1>7, <1>8, <1>9 DEF BitsOf

LEMMA Unpacked ==
  ASSUME NEW v \in Byte
  PROVE  \E a \in 0 .. 7, n \in 0 .. 1, k \in 0 .. 7, m \in 0 .. 1 : v = Packed(a, n, k, m)
  <1> DEFINE h == v \div 16
             l == v % 16
             a == h \div 2
             n == h % 2
             k == l \div 2
             m == l % 2
  <1>1. v = 16 * h + l /\ h \in 0 .. 15 /\ l \in 0 .. 15
    BY DEF Byte
  <1> HIDE DEF h, l
  <1>2. h = 2 * a + n /\ a \in 0 .. 7 /\ n \in 0 .. 1
    BY <1>1
  <1>3. l = 2 * k + m /\ k \in 0 .. 7 /\ m \in 0 .. 1
    BY <1>1
  <1> HIDE DEF a, n, k, m
  <1>4. v = Packed(a, n, k, m)
    BY <1>1, <1>2, <1>3 DEF Packed
  <1> QED BY <1>2, <1>3, <1>4

LEMMA Bits ==
  ASSUME NEW v \in Byte
  PROVE  /\ Cleared(v, KBD_INT) \in Byte /\ WithBit(v, KBD_INT) \in Byte
         /\ Cleared(v, KBD_OFF) \in Byte
         /\ HasBit(WithBit(v, KBD_INT), KBD_INT)
         /\ HasBit(v, KBD_INT) => HasBit(Cleared(v, KBD_OFF), KBD_INT)
         /\ Cleared(Cleared(v, KBD_OFF), KBD_OFF) = Cleared(v, KBD_OFF)
         /\ WithBit(WithBit(v, KBD_INT), KBD_INT) = WithBit(v, KBD_INT)
         /\ WithBit(Cleared(Cleared(v, KBD_INT), KBD_OFF), KBD_INT)
              = Cleared(WithBit(v, KBD_INT), KBD_OFF)
  <1>1. PICK a \in 0 .. 7, n \in 0 .. 1, k \in 0 .. 7, m \in 0 .. 1 : v = Packed(a, n, k, m)
    BY Unpacked
  <1>2. 0 \in 0 .. 1 /\ 1 \in 0 .. 1
    OBVIOUS
  <1>3. /\ BitsOf(a, n, k, m) /\ BitsOf(a, n, k, 0) /\ BitsOf(a, n, k, 1)
        /\ BitsOf(a, 0, k, m) /\ BitsOf(a, 0, k, 0)
    BY <1>1, <1>2, PackedBits, Zenon
  <1>4. /\ Cleared(v, KBD_INT) = Packed(a, n, k, 0) /\ Packed(a, n, k, 0) \in Byte
        /\ WithBit(v, KBD_INT) = Packed(a, n, k, 1) /\ Packed(a, n, k, 1) \in Byte
        /\ Cleared(v, KBD_OFF) = Packed(a, 0, k, m) /\ Packed(a, 0, k, m) \in Byte
    BY <1>1, <1>3, Zenon DEF BitsOf
  <1>5. HasBit(WithBit(v, KBD_INT), KBD_INT)
    BY <1>3, <1>4, Zenon DEF BitsOf
  <1>6. HasBit(v, KBD_INT) => HasBit(Cleared(v, KBD_OFF), KBD_INT)
    BY <1>1, <1>3, <1>4, Zenon DEF BitsOf
  <1>7. Cleared(Cleared(v, KBD_OFF), KBD_OFF) = Cleared(v, KBD_OFF)
    BY <1>3, <1>4, Zenon DEF BitsOf
  <1>8. WithBit(WithBit(v, KBD_INT), KBD_INT) = WithBit(v, KBD_INT)
    BY <1>3, <1>4, Zenon DEF BitsOf
  <1>9. WithBit(Cleared(Cleared(v, KBD_INT), KBD_OFF), KBD_INT)
          = Cleared(WithBit(v, KBD_INT), KBD_OFF)
    <2>1. WithBit(Cleared(Packed(a, n, k, 0), KBD_OFF), KBD_INT) = Packed(a, 0, k, 1)
      BY <1>3, Zenon DEF BitsOf
    <2>2. Cleared(Packed(a, n, k, 1), KBD_OFF) = Packed(a, 0, k, 1)
      BY <1>3, Zenon DEF BitsOf
    <2> QED BY <1>4, <2>1, <2>2, Zenon
  <1> QED BY <1>4, <1>5, <1>6, <1>7, <1>8, <1>9, Zenon

LEMMA One ==
  /\ \A x : /\ Head(<<x>>) = x /\ Tail(<<x>>) = <<>> /\ <<x>> # <<>> /\ Len(<<x>>) = 1
            /\ Append(<<>>, x) = <<x>>
  /\ \A x, y : <<x>> = <<y>> => x = y
  <1>1. ASSUME NEW x PROVE Append(<<>>, x) = <<x>>
    OBVIOUS
  <1>2. ASSUME NEW x PROVE /\ Head(<<x>>) = x /\ Tail(<<x>>) = <<>>
                           /\ <<x>> # <<>> /\ Len(<<x>>) = 1
    OBVIOUS
  <1>3. ASSUME NEW x, NEW y, <<x>> = <<y>> PROVE x = y
    BY <1>3
  <1> QED BY <1>1, <1>2, <1>3

(***************************************************************************)
(* Types.                                                                  *)
(***************************************************************************)
LEMMA Places ==
  /\ Returned = 27 /\ Astray = 0
  <1>1. Len(init_kbd_handler) = 26
    BY Dialogue, Zenon
  <1> QED BY <1>1 DEF Returned, Astray

LEMMA Queue ==
  ASSUME NEW S, NEW s \in Seq(S)
  PROVE  /\ s # <<>> => Head(s) \in S /\ Tail(s) \in Seq(S)
         /\ \A x \in S : Append(s, x) \in Seq(S)
  OBVIOUS

LEMMA SendType == ASSUME TypeOK, wait_and_send PROVE TypeOK'
  <1>1. /\ pc' \in 0 .. Returned /\ in' \in [port : {Command, Data}, byte : Byte \cup {None}]
    <2>1. /\ kb_led_cmd \in Byte /\ kb_scan_code \in Byte /\ kb_scan_2 \in Byte
          /\ k_8042_read_cmd \in Byte /\ k_8042_write_cmd \in Byte /\ k_8042_self_test \in Byte
          /\ 0 \in Byte /\ 7 \in Byte
      BY Bytes
    <2>2. Cleared(al, KBD_INT)' \in Byte /\ WithBit(al, KBD_INT)' \in Byte
      <3>1. al' = al
        BY Zenon DEF wait_and_send
      <3>2. al' \in Byte
        BY <3>1 DEF TypeOK
      <3> QED BY <3>2, Bits DEF Cleared, WithBit, HasBit
    <2>3. Command8(pc)' \in Byte /\ Data8(pc)' \in Byte
      BY <2>1, Zenon DEF Command8, Data8
    <2>4. pc \in 1 .. 26 /\ pc' = pc + 1
      BY Sends
    <2>5. \E port \in {Command, Data}, byte \in Byte : in' = [port |-> port, byte |-> byte]
      BY <2>1, <2>2, <2>3, Sends, Zenon DEF Pending
    <2> QED BY <2>4, <2>5, Places
  <1>2. gave_up' \in BOOLEAN
    BY DEF wait_and_send
  <1>3. UNCHANGED <<al, out, last, cb, writing, expects, leds, set, line, works, firmware,
                    keys, resends>>
    BY Zenon DEF wait_and_send, keyboard
  <1> QED BY <1>1, <1>2, <1>3 DEF TypeOK

LEMMA ReadType == ASSUME TypeOK, wait_and_read PROVE TypeOK'
  <1>1. pc' \in 0 .. Returned
    <2>1. \/ pc \in {2, 20, 24} /\ pc' = pc + 1
          \/ pc = 6 /\ pc' = IF al' = k_8042_self_test_res THEN 7 ELSE Astray
          \/ pc \in {8, 12, 16} /\ pc' = IF al' = kb_ack THEN pc + 1 ELSE pc + 3
          \/ pc \in {10, 14, 18} /\ pc' = pc + 1
      BY Reads, Zenon
    <2> QED BY <2>1, Places
  <1>2. al' \in Byte /\ last' \in Byte
    BY Reads
  <1>3. out' \in Seq(Byte)
    <2>1. out \in Seq(Byte)
      BY DEF TypeOK
    <2>2. out # <<>> => Tail(out) \in Seq(Byte)
      BY <2>1, Queue, Zenon
    <2> QED BY <2>1, <2>2, Reads, Zenon
  <1>4. gave_up' \in BOOLEAN
    BY DEF wait_and_read
  <1>5. UNCHANGED <<in, cb, writing, expects, leds, set, line, works, firmware, keys, resends>>
    BY Zenon DEF wait_and_read, keyboard
  <1> QED BY <1>1, <1>2, <1>3, <1>4, <1>5 DEF TypeOK

LEMMA CommandType == ASSUME TypeOK, TakeCommand PROVE TypeOK'
  <1>1. out' \in Seq(Byte)
    <2>1. \/ out' = Append(out, cb) \/ out' = Append(out, k_8042_self_test_res)
          \/ out' = Append(out, SelfTestFailed) \/ out' = out
      BY DEF TakeCommand, k_8042_read_cmd, k_8042_self_test
    <2>2. cb \in Byte /\ k_8042_self_test_res \in Byte /\ SelfTestFailed \in Byte
      BY Bytes DEF TypeOK
    <2>3. out \in Seq(Byte)
      BY DEF TypeOK
    <2> QED BY <2>1, <2>2, <2>3, Queue, Zenon
  <1>2. in' = [in EXCEPT !.byte = None] /\ writing' \in BOOLEAN
    BY DEF TakeCommand, Taken
  <1>3. UNCHANGED <<pc, al, last, cb, expects, leds, set, line, works, firmware, keys, resends,
                    gave_up>>
    BY Zenon DEF TakeCommand, driver, keyboard, history
  <1> QED BY <1>1, <1>2, <1>3 DEF TypeOK

LEMMA ByteType == ASSUME TypeOK, TakeCommandByte PROVE TypeOK'
  <1>1. /\ in' = [in EXCEPT !.byte = None] /\ cb' \in Byte /\ writing' \in BOOLEAN
    BY DEF TakeCommandByte, Taken, TypeOK
  <1>2. UNCHANGED <<pc, al, out, last, expects, leds, set, line, works, firmware, keys,
                    resends,
                    gave_up>>
    BY Zenon DEF TakeCommandByte, driver, keyboard, history
  <1> QED BY <1>1, <1>2 DEF TypeOK

LEMMA ForwardType == ASSUME TypeOK, Forward PROVE TypeOK'
  <1>1. in' = [in EXCEPT !.byte = None] /\ line' \in Byte /\ cb' \in Byte
    <2>1. /\ in' = [in EXCEPT !.byte = None] /\ line' = in.byte /\ in.byte # None
          /\ cb' = Cleared(cb, KBD_OFF)
      BY Zenon DEF Forward, Taken
    <2>2. cb \in Byte /\ in.byte \in Byte \cup {None}
      BY DEF TypeOK
    <2> QED BY <2>1, <2>2, Bits
  <1>2. UNCHANGED <<pc, al, out, last, writing, expects, leds, set, works, firmware, keys,
                    resends, gave_up>>
    BY Zenon DEF Forward, driver, keyboard, history
  <1> QED BY <1>1, <1>2 DEF TypeOK

LEMMA ObeyType == ASSUME TypeOK, Obey PROVE TypeOK'
  <1>1. /\ line' = None /\ expects' \in {None, kb_led_cmd, kb_scan_code}
        /\ leds' \in 0 .. 7 /\ set' \in 0 .. 7
    BY DEF Obey, TypeOK
  <1>2. out' \in Seq(Byte)
    <2>1. out' = Append(out, kb_ack) \/ out' = Append(out, kb_resend)
      BY DEF Obey
    <2>2. kb_ack \in Byte /\ kb_resend \in Byte
      BY Bytes
    <2>3. out \in Seq(Byte)
      BY DEF TypeOK
    <2> QED BY <2>1, <2>2, <2>3, Queue, Zenon
  <1>3. UNCHANGED <<pc, al, in, last, cb, writing, works, firmware, keys, resends, gave_up>>
    BY Zenon DEF Obey, driver, history
  <1> QED BY <1>1, <1>2, <1>3 DEF TypeOK

LEMMA ResendType == ASSUME TypeOK, Resend PROVE TypeOK'
  <1>1. line' = None /\ resends' \in 0 .. MaxResends
    BY ControllerAssumption DEF Resend, TypeOK
  <1>2. out' \in Seq(Byte)
    <2>1. out' = Append(out, kb_resend) /\ kb_resend \in Byte
      BY Bytes DEF Resend
    <2>2. out \in Seq(Byte)
      BY DEF TypeOK
    <2> QED BY <2>1, <2>2, Queue, Zenon
  <1>3. UNCHANGED <<pc, al, in, last, cb, writing, expects, leds, set, works, firmware, keys,
                    gave_up>>
    BY Zenon DEF Resend, driver, keyboard
  <1> QED BY <1>1, <1>2, <1>3 DEF TypeOK

LEMMA KeyType == ASSUME TypeOK, Type PROVE TypeOK'
  <1>1. keys' \in 0 .. MaxKeys
    BY ControllerAssumption DEF Type, TypeOK
  <1>2. out' \in Seq(Byte)
    <2>1. PICK k \in Keys : out' = Append(out, k)
      BY DEF Type
    <2>2. k \in Byte
      BY ControllerAssumption
    <2>3. out \in Seq(Byte)
      BY DEF TypeOK
    <2> QED BY <2>1, <2>2, <2>3, Queue, Zenon
  <1>3. UNCHANGED <<pc, al, in, last, cb, writing, expects, leds, set, line, works, firmware,
                    resends, gave_up>>
    BY Zenon DEF Type, driver, keyboard
  <1> QED BY <1>1, <1>2, <1>3 DEF TypeOK

(***************************************************************************)
(* The invariant holds at first, and is preserved by the driver.           *)
(***************************************************************************)
LEMMA InitInv == ASSUME Init PROVE IInv
  <1>1. /\ pc = 1 /\ al = 0 /\ in = [port |-> Data, byte |-> None] /\ last = 0
        /\ cb \in CommandBytes /\ writing = FALSE /\ expects = None /\ works \in BOOLEAN
        /\ leds = 0 /\ set \in {1, 2} /\ line = None /\ firmware = cb /\ resends = 0
        /\ gave_up = FALSE
    BY Zenon DEF Init
  <1>2. PICK before \in {<<>>} \cup {<<k>> : k \in Keys} :
            Len(before) \leq MaxKeys /\ out = before /\ keys = Len(before)
    BY Zenon DEF Init
  <1>3. \/ out = <<>> /\ keys = 0
        \/ \E k \in Keys : out = <<k>> /\ keys = 1
    <2>1. Len(<<>>) = 0
      OBVIOUS
    <2> QED BY <1>2, <2>1, One, Zenon
  <1>4. TypeOK
    <2>1. out \in Seq(Byte) /\ keys \in 0 .. MaxKeys
      <3>1. CASE out = <<>> /\ keys = 0
        BY <3>1, ControllerAssumption
      <3>2. CASE \E k \in Keys : out = <<k>> /\ keys = 1
        <4>1. PICK k \in Keys : out = <<k>> /\ keys = 1
          BY <3>2
        <4>2. k \in Byte /\ 1 \leq MaxKeys
          BY <1>2, <4>1, ControllerAssumption, Zenon
        <4>3. keys \in 0 .. MaxKeys
          BY <4>1, <4>2, ControllerAssumption
        <4> QED BY <4>1, <4>2, <4>3
      <3> QED BY <1>3, <3>1, <3>2
    <2>2. cb \in Byte
      BY <1>1, ControllerAssumption
    <2>3. in \in [port : {Command, Data}, byte : Byte \cup {None}]
      BY <1>1
    <2>4. /\ pc \in 0 .. Returned /\ al \in Byte /\ last \in Byte /\ set \in 0 .. 7
          /\ resends \in 0 .. MaxResends
      BY <1>1, ControllerAssumption, Places DEF Byte
    <2>5. writing \in BOOLEAN /\ works \in BOOLEAN /\ gave_up \in BOOLEAN
      BY <1>1
    <2>6. expects \in {None, kb_led_cmd, kb_scan_code} /\ line \in Byte \cup {None}
      BY <1>1, Zenon
    <2>7. leds \in 0 .. 7 /\ firmware \in CommandBytes
      BY <1>1
    <2> QED BY <2>1, <2>2, <2>3, <2>4, <2>5, <2>6, <2>7, Zenon DEF TypeOK
  <1>5. Undisturbed => out = <<>>
    BY <1>3 DEF Undisturbed
  <1>6. WireInv
    BY <1>1, <1>5, Places DEF WireInv, IdleAt, AskedAt, WritingAt, WrittenAt, CommandedAt,
                              DataAt, Empty
  <1>7. ByteInv /\ KeyboardInv /\ TestInv /\ LastInv
    BY <1>1, Places DEF ByteInv, KeyboardInv, TestInv, LastInv, CommandedAt, DataAt
  <1> QED BY <1>4, <1>6, <1>7 DEF IInv

\* A byte the driver sends, when nothing disturbs it, gets into an empty buffer, except
\* the data of a command, which follows the acknowledgement.
LEMMA SendInv == ASSUME IInv, wait_and_send PROVE IInv'
  <1>1. TypeOK'
    BY SendType DEF IInv
  <1>2. UNCHANGED <<al, out, last, cb, writing, expects, leds, set, line, works, firmware,
                    keys, resends>>
    BY Zenon DEF wait_and_send, keyboard
  <1>3. /\ pc \in 1 .. 26 /\ pc' = pc + 1
        /\ \/ pc \in {1, 19, 23} /\ Pending(Command, k_8042_read_cmd)' /\ Waited
           \/ pc \in {3, 21, 25} /\ Pending(Command, k_8042_write_cmd)' /\ Waited
           \/ pc = 4 /\ Pending(Data, Cleared(al, KBD_INT))' /\ Waited
           \/ pc \in {22, 26} /\ Pending(Data, WithBit(al, KBD_INT))' /\ Waited
           \/ pc = 5 /\ Pending(Command, k_8042_self_test)' /\ Waited
           \/ pc \in {7, 11, 15} /\ Pending(Data, Command8(pc))' /\ Waited
           \/ pc \in {9, 13, 17} /\ Pending(Data, Data8(pc))' /\ gave_up' = gave_up
    BY Sends DEF IInv
  <1>4. /\ Waited => (~ gave_up' <=> ~ gave_up /\ Empty)
        /\ gave_up' = gave_up => (~ gave_up' <=> ~ gave_up)
    BY <1>1 DEF Waited, IInv, TypeOK
  <1>5. Undisturbed' => Undisturbed /\ (pc \in {9, 13, 17} \/ Empty)
    BY <1>2, <1>3, <1>4 DEF Undisturbed
  <1>6. /\ Cleared(al, KBD_INT)' = Cleared(al, KBD_INT)
        /\ WithBit(al, KBD_INT)' = WithBit(al, KBD_INT)
        /\ IntOff' = IntOff /\ Off' = Off /\ On' = On
    BY <1>2 DEF Cleared, WithBit, HasBit, IntOff, Off, On
  <1>7. /\ al \in Byte /\ firmware \in Byte /\ pc' \in 2 .. 27 /\ None \notin Byte
        /\ IntOff \in Byte /\ Off \in Byte /\ On \in Byte /\ WithBit(On, KBD_INT) = On
    <2>1. al \in Byte /\ firmware \in Byte
      BY ControllerAssumption DEF IInv, TypeOK
    <2> QED BY <1>3, <2>1, Bits, Bytes DEF IntOff, Off, On
  <1>8. Undisturbed' => /\ Empty /\ line = None /\ out = <<>>
                        /\ writing <=> pc \in WritingAt
                        /\ pc = 5 => cb = IntOff
                        /\ pc = 23 => cb = On
    <2> SUFFICES ASSUME Undisturbed'
                 PROVE  /\ Empty /\ line = None /\ out = <<>>
                        /\ writing <=> pc \in WritingAt
                        /\ pc = 5 => cb = IntOff
                        /\ pc = 23 => cb = On
      OBVIOUS
    <2>1. WireInv /\ Undisturbed /\ (pc \in {9, 13, 17} \/ Empty)
      BY <1>5 DEF IInv
    <2>2. CASE pc \in IdleAt
      BY <2>1, <2>2, Places DEF WireInv, IdleAt, WritingAt
    <2>3. CASE pc \in {4, 22, 26}
      BY <2>1, <2>3 DEF WireInv, WritingAt, Pending, Empty, None, k_8042_write_cmd
    <2>4. CASE pc \in {5, 23}
      <3>1. On # None /\ IntOff # None
        BY <1>7
      <3> QED BY <2>1, <2>4, <3>1, Places DEF WireInv, WrittenAt, WritingAt, Pending, Empty
    <2> QED BY <1>3, <2>2, <2>3, <2>4 DEF IdleAt
  <1>9. WireInv'
    <2> SUFFICES ASSUME Undisturbed' PROVE WireInv'
      BY DEF WireInv
    <2>1. /\ line' = None /\ out' = <<>> /\ (writing' <=> pc \in WritingAt)
          /\ Undisturbed /\ ByteInv
      BY <1>2, <1>5, <1>8 DEF IInv
    <2>2. CASE pc \in {1, 19, 23}
      <3>1. /\ pc' \in AskedAt
            /\ pc' \notin IdleAt \cup {6} \cup WritingAt \cup WrittenAt
                          \cup CommandedAt \cup DataAt
        BY <1>3, <2>2, Places DEF IdleAt, AskedAt, WritingAt, WrittenAt, CommandedAt, DataAt
      <3>2. Pending(Command, k_8042_read_cmd)' /\ ~ writing'
        BY <1>3, <2>1, <2>2 DEF WritingAt
      <3> QED BY <2>1, <3>1, <3>2, Zenon DEF WireInv, Asking
    <2>3. CASE pc \in {3, 21, 25}
      <3>1. /\ pc' \in WritingAt
            /\ pc' \notin IdleAt \cup {6} \cup AskedAt \cup WrittenAt
                          \cup CommandedAt \cup DataAt
        BY <1>3, <2>3, Places DEF IdleAt, AskedAt, WritingAt, WrittenAt, CommandedAt, DataAt
      <3>2. Pending(Command, k_8042_write_cmd)' /\ ~ writing'
        BY <1>3, <2>1, <2>3 DEF WritingAt
      <3> QED BY <2>1, <3>1, <3>2, Zenon DEF WireInv
    <2>4. CASE pc \in {4, 22, 26}
      <3>1. /\ pc' \in WrittenAt /\ (pc' = 5 <=> pc = 4)
            /\ pc' \notin IdleAt \cup {6} \cup AskedAt \cup WritingAt
                          \cup CommandedAt \cup DataAt
        BY <1>3, <2>4, Places DEF IdleAt, AskedAt, WritingAt, WrittenAt, CommandedAt, DataAt
      <3>2. writing'
        BY <2>1, <2>4 DEF WritingAt
      <3>3. in' = [port |-> Data, byte |-> IF pc = 4 THEN IntOff ELSE On]
        <4>1. CASE pc = 4
          <5>1. al = firmware
            BY <2>1, <4>1 DEF ByteInv
          <5>2. in' = [port |-> Data, byte |-> Cleared(al, KBD_INT)]
            BY <1>3, <1>6, <4>1 DEF Pending
          <5> QED BY <4>1, <5>1, <5>2 DEF IntOff
        <4>2. CASE pc = 22
          <5>1. al = Off
            BY <2>1, <4>2 DEF ByteInv
          <5>2. in' = [port |-> Data, byte |-> WithBit(al, KBD_INT)]
            BY <1>3, <1>6, <4>2 DEF Pending
          <5> QED BY <4>2, <5>1, <5>2 DEF On
        <4>3. CASE pc = 26
          <5>1. al = On
            BY <2>1, <4>3 DEF ByteInv
          <5>2. in' = [port |-> Data, byte |-> WithBit(al, KBD_INT)]
            BY <1>3, <1>6, <4>3 DEF Pending
          <5> QED BY <1>7, <4>3, <5>1, <5>2
        <4> QED BY <2>4, <4>1, <4>2, <4>3
      <3>4. Pending(Data, IF pc = 5 THEN IntOff ELSE On)'
        BY <1>6, <3>1, <3>3, Zenon DEF Pending
      <3> QED BY <2>1, <3>1, <3>2, <3>4, Zenon DEF WireInv
    <2>5. CASE pc = 5
      <3>1. /\ pc' = 6
            /\ pc' \notin IdleAt \cup AskedAt \cup WritingAt \cup WrittenAt
                          \cup CommandedAt \cup DataAt
        BY <1>3, <2>5, Places DEF IdleAt, AskedAt, WritingAt, WrittenAt, CommandedAt, DataAt
      <3>2. Pending(Command, k_8042_self_test)' /\ ~ writing'
        BY <1>3, <2>1, <2>5 DEF WritingAt
      <3> QED BY <2>1, <3>1, <3>2, Zenon DEF WireInv, Asking
    <2>6. CASE pc \in {7, 11, 15}
      <3>1. /\ pc' \in CommandedAt
            /\ pc' \notin IdleAt \cup {6} \cup AskedAt \cup WritingAt \cup WrittenAt
                          \cup DataAt
        BY <1>3, <2>6, Places DEF IdleAt, AskedAt, WritingAt, WrittenAt, CommandedAt, DataAt
      <3>2. Pending(Data, Command8(pc))' /\ ~ writing'
        BY <1>3, <2>1, <2>6 DEF WritingAt
      <3> QED BY <2>1, <3>1, <3>2, Zenon DEF WireInv, Telling
    <2>7. CASE pc \in {9, 13, 17}
      <3>1. /\ pc' \in DataAt
            /\ pc' \notin IdleAt \cup {6} \cup AskedAt \cup WritingAt \cup WrittenAt
                          \cup CommandedAt
        BY <1>3, <2>7, Places DEF IdleAt, AskedAt, WritingAt, WrittenAt, CommandedAt, DataAt
      <3>2. Pending(Data, Data8(pc))' /\ ~ writing'
        BY <1>3, <2>1, <2>7 DEF WritingAt
      <3> QED BY <2>1, <3>1, <3>2, Zenon DEF WireInv, Telling
    <2> QED BY <1>3, <2>2, <2>3, <2>4, <2>5, <2>6, <2>7
  <1>10. ByteInv'
    <2> SUFFICES ASSUME Undisturbed' PROVE ByteInv'
      BY DEF ByteInv
    <2>1. /\ cb' = cb /\ al' = al /\ firmware' = firmware /\ Undisturbed /\ ByteInv
          /\ pc = 5 => cb = IntOff
          /\ pc = 23 => cb = On
      BY <1>2, <1>5, <1>8 DEF IInv
    <2>2. pc = 7 => ~ Empty'
      <3>1. Command8(pc)' # None
        BY DEF Command8, kb_led_cmd, kb_scan_code, None
      <3> QED BY <1>3, <3>1 DEF Pending, Empty
    <2>3. /\ pc' \notin {6, 7, 8} => pc # 5 /\ pc # 6 /\ pc # 7
          /\ pc' \in {6, 7} => pc \in {5, 6}
          /\ pc' = 8 => pc = 7
          /\ pc' \in 9 .. 22 => pc \in {8} \cup 9 .. 21
          /\ pc' \in 24 .. 27 => pc \in {23} \cup 24 .. 26
          /\ pc' \in {3, 4} => pc \in {2, 3}
          /\ pc' \in {21, 22} => pc \in {20, 21}
          /\ pc' \in {25, 26} => pc \in {24, 25}
          /\ pc # 2 /\ pc # 6 /\ pc # 8 /\ pc # 20 /\ pc # 24
      BY <1>3
    <2> QED BY <1>3, <1>6, <2>1, <2>2, <2>3, Places DEF ByteInv
  <1>11. KeyboardInv'
    <2> SUFFICES ASSUME Undisturbed', resends = 0 PROVE KeyboardInv'
      BY <1>2 DEF KeyboardInv
    <2>1. /\ out' = <<>> /\ expects' = expects /\ leds' = leds /\ set' = set
          /\ Undisturbed /\ KeyboardInv
      BY <1>2, <1>5, <1>8 DEF IInv
    <2>2. /\ pc' \notin {9, 13, 17}
          /\ pc' \in DataAt => pc \in {9, 13, 17} /\ Command8(pc)' = Command8(pc)
          /\ pc' \in 15 .. 27 => pc \in 15 .. 27
          /\ pc' \in 19 .. 27 => pc \in 19 .. 27
      BY <1>3 DEF DataAt, Command8, kb_led_cmd, kb_scan_code
    <2> QED BY <2>1, <2>2, Places DEF KeyboardInv
  <1>12. TestInv'
    <2>1. pc' # Astray /\ (pc' \in 7 .. 27 => pc \in 7 .. 27)
      BY <1>3, Places
    <2> QED BY <1>2, <1>5, <2>1, Places DEF IInv, TestInv
  <1>13. LastInv'
    <2> SUFFICES ASSUME ~ gave_up' PROVE LastInv'
      BY DEF LastInv
    <2>1. CASE pc = 25
      BY <1>3, <2>1, Places DEF LastInv
    <2>2. CASE pc = 26
      <3>1. Empty /\ ~ gave_up /\ Pending(Data, WithBit(al, KBD_INT))'
        BY <1>3, <1>4, <2>2
      <3>2. writing'
        BY <1>2, <2>2, <3>1 DEF IInv, LastInv, Pending, Empty, None, k_8042_write_cmd
      <3>3. WithBit(al, KBD_INT) \in Byte /\ HasBit(WithBit(al, KBD_INT), KBD_INT)
        BY <1>7, Bits
      <3>4. in'.port = Data /\ in'.byte = WithBit(al, KBD_INT)
        BY <1>6, <3>1 DEF Pending
      <3>5. in'.port = Data /\ HasBit(in'.byte, KBD_INT) /\ in'.byte # None
        BY <1>7, <3>3, <3>4, Zenon
      <3> QED BY <1>3, <2>2, <3>2, <3>5, Places DEF LastInv, HasBit
    <2>3. CASE pc \notin {25, 26}
      BY <1>3, <2>3, Places DEF LastInv
    <2> QED BY <2>1, <2>2, <2>3
  <1> QED BY <1>1, <1>9, <1>10, <1>11, <1>12, <1>13 DEF IInv

\* What is read when nothing disturbs the dialogue is the answer to what was sent last:
\* then nothing is under way.
LEMMA ReadInv == ASSUME IInv, wait_and_read PROVE IInv'
  <1>1. TypeOK'
    BY ReadType DEF IInv
  <1>2. UNCHANGED <<in, cb, writing, expects, leds, set, line, works, firmware, keys, resends>>
    BY Zenon DEF wait_and_read, keyboard
  <1>3. /\ gave_up' = (gave_up \/ out = <<>>)
        /\ out # <<>> => al' = Head(out) /\ out' = Tail(out)
        /\ \/ pc \in {2, 20, 24} /\ pc' = pc + 1
           \/ pc = 6 /\ pc' = IF al' = k_8042_self_test_res THEN 7 ELSE Astray
           \/ pc \in {8, 12, 16} /\ pc' = IF al' = kb_ack THEN pc + 1 ELSE pc + 3
           \/ pc \in {10, 14, 18} /\ pc' = pc + 1
    BY Reads DEF IInv
  <1>13. \/ pc \in {2, 20, 24, 10, 14, 18} /\ pc' = pc + 1
         \/ pc = 6 /\ pc' \in {0, 7}
         \/ pc \in {8, 12, 16} /\ pc' \in {pc + 1, pc + 3}
    BY <1>3, Places
  <1>4. pc' \in {0, 3, 7, 9, 11, 13, 15, 17, 19, 21, 25}
    BY <1>3, Places
  <1>5. Undisturbed' => Undisturbed /\ out # <<>>
    BY <1>1, <1>2, <1>3 DEF Undisturbed, IInv, TypeOK
  <1>6. IntOff' = IntOff /\ Off' = Off /\ On' = On
    BY <1>2 DEF Cleared, WithBit, HasBit, IntOff, Off, On
  \* The answer.
  <1>7. Undisturbed' =>
          /\ Empty /\ line = None /\ ~ writing /\ out' = <<>> /\ out = <<al'>>
          /\ pc \in {2, 20, 24} => al' = cb
          /\ pc = 6 => al' = IF works THEN k_8042_self_test_res ELSE SelfTestFailed
          /\ pc \in CommandedAt \cup DataAt => al' \in {kb_ack, kb_resend}
    <2> SUFFICES ASSUME Undisturbed'
                 PROVE  /\ Empty /\ line = None /\ ~ writing /\ out' = <<>> /\ out = <<al'>>
                        /\ pc \in {2, 20, 24} => al' = cb
                        /\ pc = 6 => al' = IF works THEN k_8042_self_test_res
                                                    ELSE SelfTestFailed
                        /\ pc \in CommandedAt \cup DataAt => al' \in {kb_ack, kb_resend}
      OBVIOUS
    <2>1. WireInv /\ Undisturbed /\ out # <<>> /\ al' = Head(out) /\ out' = Tail(out)
      BY <1>3, <1>5 DEF IInv
    <2>2. ASSUME NEW x, out = <<x>> PROVE al' = x /\ out' = <<>>
      BY <2>1, <2>2, One, Zenon
    <2>3. CASE pc \in {2, 20, 24}
      <3>1. Empty /\ line = None /\ ~ writing /\ out = <<cb>>
        BY <2>1, <2>3, Zenon DEF WireInv, AskedAt, Asking
      <3> QED BY <2>2, <2>3, <3>1 DEF CommandedAt, DataAt
    <2>4. CASE pc = 6
      <3>1. /\ Empty /\ line = None /\ ~ writing
            /\ out = <<IF works THEN k_8042_self_test_res ELSE SelfTestFailed>>
        BY <2>1, <2>4, Zenon DEF WireInv, Asking
      <3>2. al' = (IF works THEN k_8042_self_test_res ELSE SelfTestFailed) /\ out' = <<>>
        BY <2>2, <3>1
      <3>3. pc \notin CommandedAt \cup DataAt /\ pc \notin {2, 20, 24}
        BY <2>4 DEF CommandedAt, DataAt
      <3> QED BY <3>1, <3>2, <3>3, Zenon
    <2>5. CASE pc \in CommandedAt \cup DataAt
      <3>1. Empty /\ line = None /\ ~ writing /\ out \in {<<kb_ack>>, <<kb_resend>>}
        BY <2>1, <2>5, Zenon DEF WireInv, Telling
      <3>2. (al' = kb_ack \/ al' = kb_resend) /\ out' = <<>> /\ out = <<al'>>
        BY <2>2, <3>1, Zenon
      <3>3. pc # 6 /\ pc \notin {2, 20, 24}
        BY <2>5 DEF CommandedAt, DataAt
      <3> QED BY <3>1, <3>2, <3>3, Zenon
    <2> QED BY <1>3, <2>3, <2>4, <2>5 DEF CommandedAt, DataAt
  <1>8. WireInv'
    <2> SUFFICES ASSUME Undisturbed' PROVE WireInv'
      BY DEF WireInv
    <2>1. Empty' /\ line' = None /\ out' = <<>> /\ ~ writing'
      BY <1>2, <1>7 DEF Empty
    <2>2. pc' \notin {6} \cup AskedAt \cup WritingAt \cup WrittenAt \cup CommandedAt
                     \cup DataAt
      BY <1>4, Places DEF AskedAt, WritingAt, WrittenAt, CommandedAt, DataAt
    <2> QED BY <2>1, <2>2, Zenon DEF WireInv
  <1>9. ByteInv'
    <2> SUFFICES ASSUME Undisturbed' PROVE ByteInv'
      BY DEF ByteInv
    <2>1. /\ ByteInv /\ Undisturbed /\ Empty /\ cb' = cb /\ firmware' = firmware
          /\ pc \in {2, 20, 24} => al' = cb
      BY <1>2, <1>5, <1>7 DEF IInv
    <2>2. /\ pc' = 3 => pc = 2
          /\ pc' = 7 => pc = 6
          /\ pc' \in {9, 11, 13, 15, 17, 19, 21} => pc \in 8 .. 20
          /\ pc' = 21 => pc = 20
          /\ pc' = 25 => pc = 24
      BY <1>3, Places, Z3
    <2>3. /\ pc = 2 => cb = firmware
          /\ pc = 6 => cb = IntOff
          /\ pc \in 8 .. 20 => cb = Off
          /\ pc = 24 => cb = On
      BY <2>1, Places DEF ByteInv
    <2> QED BY <1>4, <1>6, <2>1, <2>2, <2>3, Places DEF ByteInv
  <1>10. KeyboardInv'
    <2> SUFFICES ASSUME Undisturbed', resends = 0 PROVE KeyboardInv'
      BY <1>2 DEF KeyboardInv
    <2>1. /\ KeyboardInv /\ Undisturbed /\ out # <<>> /\ out = <<al'>>
          /\ expects' = expects /\ leds' = leds /\ set' = set
      BY <1>2, <1>5, <1>7 DEF IInv
    <2>2. pc \in CommandedAt \cup DataAt => al' = kb_ack
      <3>1. pc \in CommandedAt \cup DataAt => out = <<kb_ack>>
        BY <2>1, Zenon DEF KeyboardInv
      <3> QED BY <2>1, <3>1, One, Zenon
    <2>3. /\ pc \in {8, 12, 16} => pc' = pc + 1
          /\ pc' \notin CommandedAt \cup DataAt
      BY <1>3, <1>4, <2>2 DEF CommandedAt, DataAt
    <2>8. /\ pc' \in {9, 13, 17} => pc \in {8, 12, 16} /\ pc' = pc + 1
          /\ pc' \in 15 .. 27 => pc = 14 \/ pc \in 15 .. 27
          /\ pc' \in 19 .. 27 => pc = 18 \/ pc \in 19 .. 27
      BY <1>13, <2>3, Places
    <2>9. pc \in {8, 12, 16} => pc \in CommandedAt /\ Command8(pc + 1) = Command8(pc)
      BY DEF CommandedAt, Command8, kb_led_cmd, kb_scan_code
    <2>4. /\ pc' \in {9, 13, 17} => /\ pc \in CommandedAt
                                    /\ Command8(pc') = Command8(pc)
          /\ pc' \in 15 .. 27 => pc = 14 \/ pc \in 15 .. 27
          /\ pc' \in 19 .. 27 => pc = 18 \/ pc \in 19 .. 27
      BY <2>8, <2>9, Zenon
    <2>5. /\ pc \in CommandedAt => expects = Command8(pc)
          /\ pc = 14 \/ pc \in 15 .. 27 => leds = 0
          /\ pc = 18 \/ pc \in 19 .. 27 => set = 2
      BY <2>1, Places, Zenon DEF KeyboardInv
    <2>6. /\ pc' \in {9, 13, 17} => expects' = Command8(pc')
          /\ pc' \in 15 .. Returned => leds' = 0
          /\ pc' \in 19 .. Returned => set' = 2
      BY <2>1, <2>4, <2>5, Places, Zenon
    <2>7. pc' # 14 /\ pc' # 18
      BY <1>4
    <2> QED BY <2>3, <2>6, <2>7, Zenon DEF KeyboardInv, Command8
  <1>11. TestInv'
    <2> SUFFICES ASSUME Undisturbed' PROVE TestInv'
      BY DEF TestInv
    <2>1. TestInv /\ Undisturbed /\ works' = works /\ works \in BOOLEAN
      BY <1>2, <1>5 DEF IInv, TypeOK
    <2>2. CASE pc = 6
      <3>1. /\ works => pc' = 7
            /\ ~ works => pc' = Astray
        BY <1>3, <1>7, <2>1, <2>2 DEF k_8042_self_test_res, SelfTestFailed
      <3> QED BY <2>1, <3>1, Places DEF TestInv
    <2>3. CASE pc # 6
      <3>1. pc' # Astray /\ (pc' \in 7 .. 27 => pc \in 7 .. 27)
        BY <1>13, <2>3, Places
      <3> QED BY <2>1, <3>1, Places DEF TestInv
    <2> QED BY <2>2, <2>3
  <1>12. LastInv'
    BY <1>4, Places DEF LastInv
  <1> QED BY <1>1, <1>8, <1>9, <1>10, <1>11, <1>12 DEF IInv

(***************************************************************************)
(* It is preserved by the 8042 and the keyboard.                           *)
(***************************************************************************)

\* What the 8042 takes is what was sent last, and nothing is under way besides.
LEMMA Taking ==
  ASSUME IInv, Undisturbed, NEW port, Taken(port)
  PROVE  /\ line = None /\ out = <<>> /\ Empty'
         /\ \/ /\ pc \in AskedAt /\ port = Command /\ in.byte = k_8042_read_cmd /\ ~ writing
            \/ /\ pc = 6 /\ port = Command /\ in.byte = k_8042_self_test /\ ~ writing
            \/ /\ pc \in WritingAt /\ port = Command /\ in.byte = k_8042_write_cmd /\ ~ writing
            \/ /\ pc \in WrittenAt /\ port = Data /\ writing
               /\ in.byte = IF pc = 5 THEN IntOff ELSE On
            \/ /\ pc \in CommandedAt /\ port = Data /\ in.byte = Command8(pc) /\ ~ writing
            \/ /\ pc \in DataAt /\ port = Data /\ in.byte = Data8(pc) /\ ~ writing
  <1>1. /\ in.port = port /\ ~ Empty /\ in' = [in EXCEPT !.byte = None]
        /\ WireInv /\ TypeOK
    BY Zenon DEF Taken, Empty, IInv
  <1>2. Empty'
    BY <1>1 DEF TypeOK, Empty
  <1>3. ASSUME NEW p, NEW b, Pending(p, b) PROVE port = p /\ in.byte = b
    BY <1>1, <1>3 DEF Pending
  <1>4. pc \notin IdleAt
    BY <1>1, Zenon DEF WireInv
  <1>5. CASE pc \in AskedAt
    <2>1. line = None /\ out = <<>> /\ ~ writing /\ Pending(Command, k_8042_read_cmd)
      BY <1>1, <1>5, Zenon DEF WireInv, Asking
    <2> QED BY <1>2, <1>3, <1>5, <2>1, Zenon
  <1>6. CASE pc = 6
    <2>1. line = None /\ out = <<>> /\ ~ writing /\ Pending(Command, k_8042_self_test)
      BY <1>1, <1>6, Zenon DEF WireInv, Asking
    <2> QED BY <1>2, <1>3, <1>6, <2>1, Zenon
  <1>7. CASE pc \in WritingAt
    <2>1. line = None /\ out = <<>> /\ ~ writing /\ Pending(Command, k_8042_write_cmd)
      BY <1>1, <1>7, Zenon DEF WireInv
    <2> QED BY <1>2, <1>3, <1>7, <2>1, Zenon
  <1>8. CASE pc \in WrittenAt
    <2>1. /\ line = None /\ out = <<>> /\ writing
          /\ Pending(Data, IF pc = 5 THEN IntOff ELSE On)
      BY <1>1, <1>8, Zenon DEF WireInv
    <2> QED BY <1>2, <1>3, <1>8, <2>1, Zenon
  <1>9. CASE pc \in CommandedAt
    <2>1. line = None /\ out = <<>> /\ ~ writing /\ Pending(Data, Command8(pc))
      BY <1>1, <1>9, Zenon DEF WireInv, Telling
    <2> QED BY <1>2, <1>3, <1>9, <2>1, Zenon
  <1>10. CASE pc \in DataAt
    <2>1. line = None /\ out = <<>> /\ ~ writing /\ Pending(Data, Data8(pc))
      BY <1>1, <1>10, Zenon DEF WireInv, Telling
    <2> QED BY <1>2, <1>3, <1>10, <2>1, Zenon
  <1>11. pc \in 0 .. 27
    BY <1>1, Places DEF TypeOK
  <1> QED BY <1>4, <1>5, <1>6, <1>7, <1>8, <1>9, <1>10, <1>11, Places
            DEF IdleAt, AskedAt, WritingAt, WrittenAt, CommandedAt, DataAt

\* The places exclude each other.
LEMMA Apart ==
  /\ pc \in AskedAt => pc \notin IdleAt \cup {6} \cup WritingAt \cup WrittenAt
                               \cup CommandedAt \cup DataAt
  /\ pc = 6 => pc \notin IdleAt \cup AskedAt \cup WritingAt \cup WrittenAt
                        \cup CommandedAt \cup DataAt
  /\ pc \in WritingAt => pc \notin IdleAt \cup {6} \cup AskedAt \cup WrittenAt
                                 \cup CommandedAt \cup DataAt
  /\ pc \in WrittenAt => pc \notin IdleAt \cup {6} \cup AskedAt \cup WritingAt
                                 \cup CommandedAt \cup DataAt
  /\ pc \in CommandedAt => pc \notin IdleAt \cup {6} \cup AskedAt \cup WritingAt
                                   \cup WrittenAt \cup DataAt
  /\ pc \in DataAt => pc \notin IdleAt \cup {6} \cup AskedAt \cup WritingAt
                              \cup WrittenAt \cup CommandedAt
  BY Places DEF IdleAt, AskedAt, WritingAt, WrittenAt, CommandedAt, DataAt

LEMMA CommandInv == ASSUME IInv, TakeCommand PROVE IInv'
  <1>1. TypeOK'
    BY CommandType DEF IInv
  <1>2. UNCHANGED <<pc, al, last, cb, expects, leds, set, line, works, firmware, keys, resends,
                    gave_up>>
    BY Zenon DEF TakeCommand, driver, keyboard, history
  <1>3. /\ Taken(Command) /\ writing' = (in.byte = k_8042_write_cmd)
        /\ in.byte = k_8042_read_cmd => out' = Append(out, cb)
        /\ in.byte = k_8042_self_test =>
             out' = Append(out, IF works THEN k_8042_self_test_res ELSE SelfTestFailed)
        /\ in.byte = k_8042_write_cmd => out' = out
    BY DEF TakeCommand, k_8042_read_cmd, k_8042_self_test, k_8042_write_cmd
  <1>4. /\ (Undisturbed' <=> Undisturbed)
        /\ IntOff' = IntOff /\ Off' = Off /\ On' = On
    BY <1>2 DEF Undisturbed, Cleared, WithBit, HasBit, IntOff, Off, On
  <1>5. Undisturbed =>
          /\ line' = None /\ Empty'
          /\ \/ pc \in AskedAt /\ out' = <<cb>> /\ ~ writing'
             \/ /\ pc = 6 /\ ~ writing'
                /\ out' = <<IF works THEN k_8042_self_test_res ELSE SelfTestFailed>>
             \/ pc \in WritingAt /\ out' = <<>> /\ writing'
    <2> SUFFICES ASSUME Undisturbed
                 PROVE  /\ line' = None /\ Empty'
                        /\ \/ pc \in AskedAt /\ out' = <<cb>> /\ ~ writing'
                           \/ /\ pc = 6 /\ ~ writing'
                              /\ out' = <<IF works THEN k_8042_self_test_res
                                                   ELSE SelfTestFailed>>
                           \/ pc \in WritingAt /\ out' = <<>> /\ writing'
      OBVIOUS
    <2>1. /\ line = None /\ out = <<>> /\ Empty'
          /\ \/ pc \in AskedAt /\ in.byte = k_8042_read_cmd
             \/ pc = 6 /\ in.byte = k_8042_self_test
             \/ pc \in WritingAt /\ in.byte = k_8042_write_cmd
      <3>1. Command # Data
        BY DEF Command, Data
      <3>2. Taken(Command)
        BY <1>3
      <3>3. /\ line = None /\ out = <<>> /\ Empty'
            /\ \/ pc \in AskedAt /\ in.byte = k_8042_read_cmd
               \/ pc = 6 /\ in.byte = k_8042_self_test
               \/ pc \in WritingAt /\ in.byte = k_8042_write_cmd
               \/ Command = Data
        BY <3>2, Taking
      <3> QED BY <3>1, <3>3, Zenon
    <2>2. CASE pc \in AskedAt /\ in.byte = k_8042_read_cmd
      <3>1. out' = <<cb>>
        <4>1. Append(<<>>, cb) = <<cb>>
          BY One, Zenon
        <4>2. out' = Append(out, cb) /\ out = <<>>
          BY <1>3, <2>1, <2>2, Zenon
        <4> QED BY <4>1, <4>2, Zenon
      <3>2. ~ writing'
        <4>1. k_8042_read_cmd # k_8042_write_cmd
          BY DEF k_8042_read_cmd, k_8042_write_cmd
        <4> QED BY <1>3, <2>2, <4>1, Zenon
      <3> QED BY <1>2, <2>1, <2>2, <3>1, <3>2
    <2>3. CASE pc = 6 /\ in.byte = k_8042_self_test
      <3>1. out' = <<IF works THEN k_8042_self_test_res ELSE SelfTestFailed>>
        <4> DEFINE x == IF works THEN k_8042_self_test_res ELSE SelfTestFailed
        <4>1. Append(<<>>, x) = <<x>>
          BY One, Zenon
        <4>2. out' = Append(out, x) /\ out = <<>>
          BY <1>3, <2>1, <2>3, Zenon
        <4> QED BY <4>1, <4>2, Zenon
      <3>2. ~ writing'
        <4>1. k_8042_self_test # k_8042_write_cmd
          BY DEF k_8042_self_test, k_8042_write_cmd
        <4> QED BY <1>3, <2>3, <4>1, Zenon
      <3> QED BY <1>2, <2>1, <2>3, <3>1, <3>2, Zenon
    <2>4. CASE pc \in WritingAt /\ in.byte = k_8042_write_cmd
      <3>1. out' = <<>> /\ writing'
        BY <1>3, <2>1, <2>4
      <3> QED BY <1>2, <2>1, <2>4, <3>1
    <2> QED BY <2>1, <2>2, <2>3, <2>4
  <1>6. WireInv'
    <2> SUFFICES ASSUME Undisturbed' PROVE WireInv'
      BY DEF WireInv
    <2>1. Undisturbed /\ line' = None /\ Empty' /\ pc' = pc /\ cb' = cb /\ works' = works
      BY <1>2, <1>4, <1>5
    <2>2. CASE pc \in AskedAt /\ out' = <<cb>> /\ ~ writing'
      BY <2>1, <2>2, Apart, Zenon DEF WireInv, Asking
    <2>3. CASE /\ pc = 6 /\ ~ writing'
               /\ out' = <<IF works THEN k_8042_self_test_res ELSE SelfTestFailed>>
      BY <2>1, <2>3, Apart, Zenon DEF WireInv, Asking
    <2>4. CASE pc \in WritingAt /\ out' = <<>> /\ writing'
      BY <2>1, <2>4, Apart, Zenon DEF WireInv
    <2> QED BY <1>5, <2>1, <2>2, <2>3, <2>4, Zenon
  <1>7. Undisturbed => pc \notin CommandedAt \cup DataAt /\ pc # 8
    BY <1>5, Places DEF AskedAt, WritingAt, CommandedAt, DataAt
  <1>8. ByteInv'
    BY <1>2, <1>4, <1>7 DEF IInv, ByteInv
  <1>9. KeyboardInv'
    BY <1>2, <1>4, <1>7 DEF IInv, KeyboardInv, DataAt, Command8
  <1>10. TestInv'
    BY <1>2, <1>4 DEF IInv, TestInv
  <1>11. LastInv'
    <2>1. in.port = Command /\ ~ Empty /\ Empty'
      BY <1>3, <1>1 DEF Taken, Empty, IInv, TypeOK
    <2>2. CASE pc = 26 /\ ~ gave_up
      <3>1. in.byte = k_8042_write_cmd
        BY <2>1, <2>2 DEF IInv, LastInv, Pending
      <3>2. writing' /\ pc' = 26
        BY <1>2, <1>3, <2>2, <3>1
      <3> QED BY <2>1, <3>2, Places DEF LastInv
    <2>3. ~ (pc = Returned /\ ~ gave_up)
      BY <2>1 DEF IInv, LastInv, Command, Data
    <2> QED BY <1>2, <2>2, <2>3 DEF LastInv
  <1> QED BY <1>1, <1>6, <1>8, <1>9, <1>10, <1>11 DEF IInv

LEMMA ByteInvStep == ASSUME IInv, TakeCommandByte PROVE IInv'
  <1>1. TypeOK'
    BY ByteType DEF IInv
  <1>2. UNCHANGED <<pc, al, out, last, expects, leds, set, line, works, firmware, keys,
                    resends,
                    gave_up>>
    BY Zenon DEF TakeCommandByte, driver, keyboard, history
  <1>3. writing /\ Taken(Data) /\ cb' = in.byte /\ writing' = FALSE
    BY Zenon DEF TakeCommandByte
  <1>4. /\ (Undisturbed' <=> Undisturbed)
        /\ IntOff' = IntOff /\ Off' = Off /\ On' = On
    BY <1>2 DEF Undisturbed, Cleared, WithBit, HasBit, IntOff, Off, On
  <1>5. Undisturbed => /\ line = None /\ out = <<>> /\ Empty' /\ pc \in WrittenAt
                       /\ in.byte = IF pc = 5 THEN IntOff ELSE On
    BY <1>3, Taking
  <1>6. WireInv'
    <2> SUFFICES ASSUME Undisturbed' PROVE WireInv'
      BY DEF WireInv
    <2>1. /\ line' = None /\ out' = <<>> /\ Empty' /\ pc \in WrittenAt /\ pc' = pc
          /\ cb' = (IF pc' = 5 THEN IntOff' ELSE On') /\ ~ writing'
      BY <1>2, <1>3, <1>4, <1>5
    <2> QED BY <2>1, Apart, Zenon DEF WireInv
  <1>7. ByteInv'
    <2> SUFFICES ASSUME Undisturbed' PROVE ByteInv'
      BY DEF ByteInv
    <2>1. pc' = pc /\ pc \in {5, 23, 27} /\ (pc # 5 => cb' = On)
      BY <1>2, <1>3, <1>4, <1>5, Places DEF WrittenAt
    <2> QED BY <1>4, <2>1, Places DEF ByteInv
  <1>8. KeyboardInv' /\ TestInv'
    BY <1>2, <1>4 DEF IInv, KeyboardInv, TestInv, DataAt, CommandedAt, Command8
  <1>9. LastInv'
    <2>1. in.port = Data /\ ~ Empty /\ Empty'
      BY <1>3, <1>1 DEF Taken, Empty, IInv, TypeOK
    <2>2. ~ (pc = 26 /\ ~ gave_up)
      BY <2>1 DEF IInv, LastInv, Pending, Command, Data
    <2>3. pc = Returned /\ ~ gave_up => HasBit(cb', KBD_INT)
      BY <1>3, <2>1 DEF IInv, LastInv
    <2> QED BY <1>2, <2>1, <2>2, <2>3, Zenon DEF LastInv, HasBit
  <1> QED BY <1>1, <1>6, <1>7, <1>8, <1>9 DEF IInv

LEMMA ForwardInv == ASSUME IInv, Forward PROVE IInv'
  <1>1. TypeOK'
    BY ForwardType DEF IInv
  <1>2. UNCHANGED <<pc, al, out, last, writing, expects, leds, set, works, firmware, keys,
                    resends, gave_up>>
    BY Zenon DEF Forward, driver, keyboard, history
  <1>3. ~ writing /\ Taken(Data) /\ line' = in.byte /\ cb' = Cleared(cb, KBD_OFF)
    BY Zenon DEF Forward
  <1>4. /\ (Undisturbed' <=> Undisturbed)
        /\ IntOff' = IntOff /\ Off' = Off /\ On' = On
    BY <1>2 DEF Undisturbed, Cleared, WithBit, HasBit, IntOff, Off, On
  <1>5. Undisturbed => /\ out = <<>> /\ Empty' /\ ~ Empty
                       /\ \/ pc \in CommandedAt /\ in.byte = Command8(pc)
                          \/ pc \in DataAt /\ in.byte = Data8(pc)
    <2>1. Undisturbed => /\ out = <<>> /\ Empty'
                         /\ \/ pc \in CommandedAt /\ in.byte = Command8(pc)
                            \/ pc \in DataAt /\ in.byte = Data8(pc)
                            \/ Data = Command
      BY <1>3, Taking
    <2>2. Data # Command /\ ~ Empty
      BY <1>3 DEF Data, Command, Taken, Empty
    <2> QED BY <2>1, <2>2, Zenon
  <1>6. WireInv'
    <2> SUFFICES ASSUME Undisturbed' PROVE WireInv'
      BY DEF WireInv
    <2>1. /\ out' = <<>> /\ Empty' /\ ~ writing' /\ pc' = pc
          /\ \/ pc \in CommandedAt /\ line' = Command8(pc)
             \/ pc \in DataAt /\ line' = Data8(pc)
      BY <1>2, <1>3, <1>4, <1>5
    <2> QED BY <2>1, Apart, Zenon DEF WireInv, Telling, Command8, Data8
  <1>7. ByteInv'
    <2> SUFFICES ASSUME Undisturbed' PROVE ByteInv'
      BY DEF ByteInv
    <2>1. /\ pc' = pc /\ pc \in {8, 10, 12, 14, 16, 18} /\ Undisturbed /\ Empty' /\ ~ Empty
          /\ ByteInv
      BY <1>2, <1>4, <1>5 DEF CommandedAt, DataAt, IInv
    <2>2. cb' = Off
      <3>1. CASE pc = 8
        BY <1>3, <2>1, <3>1 DEF ByteInv, Off
      <3>2. CASE pc # 8
        <4>1. cb = Off
          BY <2>1, <3>2 DEF ByteInv
        <4>2. firmware \in Byte
          BY ControllerAssumption DEF IInv, TypeOK
        <4>3. IntOff \in Byte
          BY <4>2, Bits DEF IntOff
        <4>4. Cleared(Off, KBD_OFF) = Off
          BY <4>3, Bits DEF Off
        <4> QED BY <1>3, <4>1, <4>4
      <3> QED BY <3>1, <3>2
    <2> QED BY <1>4, <2>1, <2>2, Places DEF ByteInv
  <1>8. KeyboardInv' /\ TestInv'
    BY <1>2, <1>4 DEF IInv, KeyboardInv, TestInv, DataAt, CommandedAt, Command8
  <1>9. LastInv'
    <2>1. in.port = Data /\ ~ Empty
      BY <1>3 DEF Taken, Empty
    <2>2. ~ (pc = 26 /\ ~ gave_up)
      BY <2>1 DEF IInv, LastInv, Pending, Command, Data
    <2>3. ~ (pc = Returned /\ ~ gave_up)
      BY <1>3, <2>1 DEF IInv, LastInv
    <2> QED BY <1>2, <2>2, <2>3, Zenon DEF LastInv
  <1> QED BY <1>1, <1>6, <1>7, <1>8, <1>9 DEF IInv

\* A byte on its way to the keyboard is the command or the data that was sent last.
LEMMA UnderWay ==
  ASSUME IInv, Undisturbed, line # None
  PROVE  /\ Empty /\ out = <<>> /\ ~ writing
         /\ \/ pc \in CommandedAt /\ line = Command8(pc)
            \/ pc \in DataAt /\ line = Data8(pc)
  <1>1. WireInv /\ pc \in 0 .. 27
    BY Places DEF IInv, TypeOK
  <1>2. pc \in CommandedAt \/ pc \in DataAt
    <2>1. /\ pc \notin IdleAt /\ pc \notin AskedAt /\ pc # 6 /\ pc \notin WritingAt
          /\ pc \notin WrittenAt
      BY <1>1, Zenon DEF WireInv, Asking
    <2> QED BY <1>1, <2>1, Places DEF IdleAt, AskedAt, WritingAt, WrittenAt, CommandedAt,
                                      DataAt
  <1>3. ASSUME NEW b, Telling(b) PROVE Empty /\ out = <<>> /\ ~ writing /\ line = b
    BY <1>3, Zenon DEF Telling, Pending
  <1>4. CASE pc \in CommandedAt
    <2>1. Telling(Command8(pc))
      BY <1>1, <1>4, Zenon DEF WireInv
    <2> QED BY <1>3, <1>4, <2>1, Zenon
  <1>5. CASE pc \in DataAt
    <2>1. Telling(Data8(pc))
      BY <1>1, <1>5, Zenon DEF WireInv
    <2> QED BY <1>3, <1>5, <2>1, Zenon
  <1> QED BY <1>2, <1>4, <1>5

LEMMA ObeyInv == ASSUME IInv, Obey PROVE IInv'
  <1>1. TypeOK'
    BY ObeyType DEF IInv
  <1>2. UNCHANGED <<pc, al, in, last, cb, writing, works, firmware, keys, resends, gave_up>>
    BY Zenon DEF Obey, driver, history
  <1>3. /\ line # None /\ line' = None
        /\ out' = Append(out, kb_ack) \/ out' = Append(out, kb_resend)
        /\ line \in {kb_led_cmd, kb_scan_code} =>
              /\ expects' = line /\ out' = Append(out, kb_ack)
        /\ line \notin {kb_led_cmd, kb_scan_code} /\ line \in 0 .. 7
              /\ expects \in {kb_led_cmd, kb_scan_code} =>
              /\ out' = Append(out, kb_ack)
              /\ expects = kb_led_cmd => leds' = line /\ set' = set
              /\ expects = kb_scan_code => set' = line /\ leds' = leds
        /\ line \notin 0 .. 7 => leds' = leds /\ set' = set
    BY DEF Obey, kb_led_cmd, kb_scan_code
  <1>4. /\ (Undisturbed' <=> Undisturbed) /\ (Empty' <=> Empty)
        /\ IntOff' = IntOff /\ Off' = Off /\ On' = On
    BY <1>2 DEF Undisturbed, Empty, Cleared, WithBit, HasBit, IntOff, Off, On
  <1>5. ASSUME NEW x PROVE out = <<>> => Append(out, x) = <<x>>
    BY One
  <1>6. WireInv'
    <2> SUFFICES ASSUME Undisturbed' PROVE WireInv'
      BY DEF WireInv
    <2>1. /\ Empty' /\ line' = None /\ ~ writing' /\ pc' = pc
          /\ pc \in CommandedAt \/ pc \in DataAt
          /\ out' \in {<<kb_ack>>, <<kb_resend>>}
      BY <1>2, <1>3, <1>4, <1>5, UnderWay
    <2> QED BY <2>1, Apart, Zenon DEF WireInv, Telling, Command8, Data8
  <1>7. ByteInv' /\ TestInv' /\ LastInv'
    BY <1>2, <1>4 DEF IInv, ByteInv, TestInv, LastInv, Pending, HasBit
  <1>8. KeyboardInv'
    <2> SUFFICES ASSUME Undisturbed', resends = 0 PROVE KeyboardInv'
      BY <1>2 DEF KeyboardInv
    <2>1. /\ pc' = pc /\ KeyboardInv /\ Undisturbed /\ out = <<>>
          /\ \/ pc \in CommandedAt /\ line = Command8(pc)
             \/ pc \in DataAt /\ line = Data8(pc)
      BY <1>2, <1>3, <1>4, UnderWay DEF IInv
    <2>2. CASE pc \in CommandedAt /\ line = Command8(pc)
      <3>1. /\ line \in {kb_led_cmd, kb_scan_code} /\ line \notin 0 .. 7
            /\ pc \notin DataAt \cup {9, 13, 17} /\ pc # 14 /\ pc # 18
        BY <2>2 DEF Command8, kb_led_cmd, kb_scan_code, CommandedAt, DataAt
      <3>2. out' = <<kb_ack>> /\ expects' = Command8(pc) /\ leds' = leds /\ set' = set
        BY <1>3, <1>5, <2>1, <2>2, <3>1, Zenon
      <3> QED BY <2>1, <3>1, <3>2 DEF KeyboardInv, Command8
    <2>3. CASE pc \in DataAt /\ line = Data8(pc)
      <3>1. /\ line \in 0 .. 7 /\ line \notin {kb_led_cmd, kb_scan_code}
            /\ pc \notin CommandedAt \cup {9, 13, 17}
            /\ Command8(pc) \in {kb_led_cmd, kb_scan_code}
        BY <2>3 DEF Data8, Command8, kb_led_cmd, kb_scan_code, kb_scan_2, CommandedAt, DataAt
      <3>2. expects = Command8(pc) /\ out' = <<kb_ack>> /\ <<kb_ack>> # <<>>
        BY <1>3, <1>5, <2>1, <2>3, <3>1, One, Zenon DEF KeyboardInv
      <3>3. /\ pc = 14 => expects = kb_led_cmd /\ line = 0
            /\ pc = 18 => expects = kb_scan_code /\ line = 2
        BY <2>3, <3>2 DEF Data8, Command8, kb_scan_2
      <3>4. /\ pc = 14 => leds' = 0
            /\ pc = 18 => set' = 2 /\ leds' = leds
        BY <1>3, <3>1, <3>3, Zenon
      <3>5. /\ pc = 14 => leds' = 0
            /\ pc \in 15 .. 27 => leds' = 0
            /\ pc = 18 => set' = 2
            /\ pc \notin 19 .. 27
        BY <2>1, <2>3, <3>4, Places DEF KeyboardInv, DataAt
      <3> QED BY <2>1, <3>1, <3>2, <3>5, Places, Zenon DEF KeyboardInv
    <2> QED BY <2>1, <2>2, <2>3
  <1> QED BY <1>1, <1>6, <1>7, <1>8 DEF IInv

LEMMA ResendInv == ASSUME IInv, Resend PROVE IInv'
  <1>1. TypeOK'
    BY ResendType DEF IInv
  <1>2. UNCHANGED <<pc, al, in, last, cb, writing, expects, leds, set, works, firmware, keys,
                    gave_up>>
    BY Zenon DEF Resend, driver, keyboard
  <1>3. /\ line # None /\ line' = None /\ out' = Append(out, kb_resend)
        /\ resends' = resends + 1
    BY Zenon DEF Resend
  <1>4. /\ (Undisturbed' <=> Undisturbed) /\ (Empty' <=> Empty)
        /\ IntOff' = IntOff /\ Off' = Off /\ On' = On
    BY <1>2 DEF Undisturbed, Empty, Cleared, WithBit, HasBit, IntOff, Off, On
  <1>5. out = <<>> => out' = <<kb_resend>>
    BY <1>3, One
  <1>6. WireInv'
    <2> SUFFICES ASSUME Undisturbed' PROVE WireInv'
      BY DEF WireInv
    <2>1. /\ Empty' /\ line' = None /\ ~ writing' /\ pc' = pc
          /\ pc \in CommandedAt \/ pc \in DataAt
          /\ out' \in {<<kb_ack>>, <<kb_resend>>}
      BY <1>2, <1>3, <1>4, <1>5, UnderWay
    <2> QED BY <2>1, Apart, Zenon DEF WireInv, Telling, Command8, Data8
  <1>7. ByteInv' /\ TestInv' /\ LastInv'
    BY <1>2, <1>4 DEF IInv, ByteInv, TestInv, LastInv, Pending, HasBit
  <1>8. KeyboardInv'
    <2>1. resends' # 0
      BY <1>3 DEF IInv, TypeOK
    <2> QED BY <2>1 DEF KeyboardInv
  <1> QED BY <1>1, <1>6, <1>7, <1>8 DEF IInv

LEMMA KeyInv == ASSUME IInv, Type PROVE IInv'
  <1>1. TypeOK'
    BY KeyType DEF IInv
  <1>2. UNCHANGED <<pc, in, cb, writing, gave_up>>
    BY Zenon DEF Type, driver
  <1>3. ~ Undisturbed'
    BY DEF Type, IInv, TypeOK, Undisturbed
  <1>4. WireInv' /\ ByteInv' /\ KeyboardInv' /\ TestInv'
    BY <1>3, Zenon DEF WireInv, ByteInv, KeyboardInv, TestInv
  <1>5. LastInv'
    BY <1>2 DEF IInv, LastInv, Pending, Empty, HasBit
  <1> QED BY <1>1, <1>4, <1>5 DEF IInv

\* The invariant holds all along, whatever the 8042, the keyboard and who types do.
THEOREM Inductive == Spec => []IInv
  <1>1. ASSUME IInv, UNCHANGED vars PROVE IInv'
    <2>1. UNCHANGED <<pc, al, last, gave_up, in, out, cb, writing, expects, line, leds, set,
                      works, firmware, keys, resends>>
      BY <1>1, Zenon DEF vars, driver, keyboard, history
    <2>2. TypeOK'
      BY <1>1, <2>1 DEF IInv, TypeOK
    <2>3. WireInv'
      BY <1>1, <2>1, Zenon
         DEF IInv, WireInv, Undisturbed, Empty, Pending, Asking, Telling, Command8, Data8,
             IntOff, On, Off, Cleared, WithBit, HasBit
    <2>4. ByteInv'
      BY <1>1, <2>1, Zenon
         DEF IInv, ByteInv, Undisturbed, Empty, IntOff, On, Off, Cleared, WithBit, HasBit
    <2>5. KeyboardInv' /\ TestInv'
      BY <1>1, <2>1, Zenon DEF IInv, KeyboardInv, TestInv, Undisturbed, Command8
    <2>6. LastInv'
      BY <1>1, <2>1, Zenon DEF IInv, LastInv, Empty, Pending, HasBit
    <2> QED BY <2>2, <2>3, <2>4, <2>5, <2>6 DEF IInv
  <1>2. IInv /\ [Next]_vars => IInv'
    BY <1>1, SendInv, ReadInv, CommandInv, ByteInvStep, ForwardInv, ObeyInv, ResendInv, KeyInv
       DEF Next, Driver
  <1> QED BY <1>2, InitInv, PTL DEF Spec

(***************************************************************************)
(* The outcome.                                                            *)
(***************************************************************************)

\* The variables keep their types, however the keyboard is used meanwhile.
THEOREM ControllerTypeCorrect == Spec => []TypeOK
  <1>1. IInv => TypeOK
    BY DEF IInv
  <1> QED BY <1>1, Inductive, PTL

\* Where the driver reads.
LEMMA ReadingAt ==
  ASSUME TypeOK, Running, step.do = "read"
  PROVE  pc \in {2, 20, 24} \cup {6} \cup CommandedAt \cup DataAt
  <1>1. pc \in 1 .. 26 /\ step = init_kbd_handler[pc]
    BY Dialogue, Zenon DEF Running, step
  <1>2. ASSUME NEW port, NEW byte, step = Send(port, byte) PROVE FALSE
    BY <1>2 DEF Send
  <1>3. ASSUME NEW byte, step = SendNow(byte) PROVE FALSE
    BY <1>3 DEF SendNow
  <1>4. step # SendBack(TRUE) /\ step # SendBack(FALSE)
    <2>1. SendBack(TRUE).do = "send back" /\ SendBack(FALSE).do = "send back"
      BY DEF SendBack
    <2>2. "send back" # "read"
      OBVIOUS
    <2> QED BY <2>1, <2>2, Zenon
  <1>5. /\ pc \in {1, 19, 23} => step = Send(Command, k_8042_read_cmd)
        /\ pc \in {3, 21, 25} => step = Send(Command, k_8042_write_cmd)
        /\ pc = 4 => step = SendBack(FALSE)
        /\ pc \in {22, 26} => step = SendBack(TRUE)
        /\ pc = 5 => step = Send(Command, k_8042_self_test)
        /\ pc \in {7, 11} => step = Send(Data, kb_led_cmd)
        /\ pc = 15 => step = Send(Data, kb_scan_code)
        /\ pc = 9 => step = SendNow(7)
        /\ pc = 13 => step = SendNow(0)
        /\ pc = 17 => step = SendNow(kb_scan_2)
    BY <1>1, Dialogue
  <1>6. pc \notin {1, 3, 4, 5, 7, 9, 11, 13, 15, 17, 19, 21, 22, 23, 25, 26}
    BY <1>2, <1>3, <1>4, <1>5, Zenon
  <1>7. pc \in 1 .. 26
    BY <1>1
  <1> QED BY <1>6, <1>7 DEF CommandedAt, DataAt

\* An answer is read as the answer to the byte it answers, for any number of bytes that
\* the keyboard refuses (kbd.S:205-218).
THEOREM AnswersInStep == Spec => []InStep
  <1>1. IInv => InStep
    <2> SUFFICES ASSUME IInv, Running, Undisturbed, step.do = "read", out # <<>>
                 PROVE  Len(out) = 1 /\ Settled
      BY DEF InStep, OutputFull
    <2>1. WireInv /\ TypeOK
      BY DEF IInv
    <2>2. pc \in AskedAt \/ pc = 6 \/ pc \in CommandedAt \/ pc \in DataAt
      <3>1. pc \in {2, 20, 24} \cup {6} \cup CommandedAt \cup DataAt
        BY <2>1, ReadingAt, Zenon
      <3> QED BY <3>1 DEF AskedAt
    <2>3. Empty /\ line = None /\ \E x : out = <<x>>
      <3>1. CASE pc \in AskedAt
        <4>1. Asking(k_8042_read_cmd, cb)
          BY <2>1, <3>1, Zenon DEF WireInv
        <4> QED BY <4>1, Zenon DEF Asking
      <3>2. CASE pc = 6
        BY <2>1, <3>2, Zenon DEF WireInv, Asking
      <3>3. CASE pc \in CommandedAt
        BY <2>1, <3>3, Zenon DEF WireInv, Telling
      <3>4. CASE pc \in DataAt
        BY <2>1, <3>4, Zenon DEF WireInv, Telling
      <3> QED BY <2>2, <3>1, <3>2, <3>3, <3>4
    <2> QED BY <2>3, One, Zenon DEF Settled, InputFree, Empty
  <1> QED BY <1>1, Inductive, PTL

\* init_kbd returns to its caller unless the self test fails or something disturbs the
\* dialogue: no answer is taken for that to the self test (kbd.S:121).
THEOREM Returns == Spec => []ReturnsToCaller
  <1>1. IInv => ReturnsToCaller
    BY DEF IInv, TestInv, ReturnsToCaller
  <1> QED BY <1>1, Inductive, PTL

\* When it has returned the interrupt is on, and undisturbed it leaves the 8042 and the
\* keyboard as it should, whatever the firmware left (kbd.S:275).
THEOREM LeftInitialised == Spec => []Initialised
  <1>1. IInv => Initialised
    <2> SUFFICES ASSUME IInv, pc = Returned, ~ gave_up, Settled
                 PROVE  /\ HasBit(cb, KBD_INT)
                        /\ Undisturbed =>
                             cb = Cleared(WithBit(firmware, KBD_INT), KBD_OFF) /\ out = <<>>
                        /\ Undisturbed /\ resends = 0 => leds = 0 /\ set = 2
      BY DEF Initialised
    <2>1. Empty
      BY DEF Settled, InputFree, Empty
    <2>2. HasBit(cb, KBD_INT)
      BY <2>1 DEF IInv, LastInv, Empty
    <2>3. Undisturbed => cb = Cleared(WithBit(firmware, KBD_INT), KBD_OFF)
      <3>1. Undisturbed => cb = On
        BY Places DEF IInv, ByteInv
      <3>2. firmware \in Byte
        BY ControllerAssumption DEF IInv, TypeOK
      <3>3. On = Cleared(WithBit(firmware, KBD_INT), KBD_OFF)
        BY <3>2, Bits DEF On, Off, IntOff
      <3> QED BY <3>1, <3>3
    <2>4. Undisturbed => out = <<>>
      BY Places DEF IInv, WireInv, WrittenAt
    <2>5. Undisturbed /\ resends = 0 => leds = 0 /\ set = 2
      BY Places DEF IInv, KeyboardInv
    <2> QED BY <2>2, <2>3, <2>4, <2>5
  <1> QED BY <1>1, Inductive, PTL
=============================================================================
