--------------------------- MODULE BringUpProofs ---------------------------
(***************************************************************************)
(* Proofs about the two models of bringing the machine up: the PS/2 input    *)
(* (module Input), for any keys, any pointing device and any number of       *)
(* bytes, and the boots after a panic (module BootRecovery), for any number *)
(* of faults, power cuts and operator's choices.                            *)
(*                                                                         *)
(* Between the poll of the status port and the read of the data port the     *)
(* keyboard's interrupt could take the byte away.  That it never does has    *)
(* two reasons: data_read polls for any byte, but only ps2_controller_init   *)
(* calls it, and that is before the interrupt is unmasked; ps2_aux_read is   *)
(* also called later, but waits for a byte whose source is not the keyboard. *)
(* The lemmas about the program establish the first reason.                 *)
(***************************************************************************)
EXTENDS Input, BootRecovery, SequenceTheorems, TLAPS

----------------------------------------------------------------------------
(* The program of the main line *)

\* The commands of the controller.
Commands == {"DISABLE_P1", "DISABLE_P2", "SELF_TEST", "READ_CFG", "WRITE_CFG", "PORT1_TEST",
             "PORT2_TEST", "ENABLE_P1", "ENABLE_P2", "WRITE_P2"}

\* What the operations are about.
Bytes == Commands \cup {"none", "self", "cfg", "port1", "port2", "arg", "ack", "id_lo", "id_hi",
                        "F2", "F3", "F4", "E6", "EA"}

OpSet(ops, fails) ==
  { o \in [op : ops, b : Bytes, fail : fails] : o.op = "cmd" => o.b \in Commands }

SetUpOps == OpSet({"cmd", "data", "read", "flush", "keyboard_init"}, {"next"})
PointerOps == OpSet({"cmd", "data", "mouse_done"}, {"next", "skip"})
KnockOps == OpSet({"cmd", "data", "aux"}, {"idle"})

LEMMA InitProgram == InitOps \in Seq(SetUpOps)
<1>1. \A o \in {"data", "read", "flush", "keyboard_init"}, b \in Bytes : Op(o, b, "next") \in SetUpOps
  BY DEF Op, SetUpOps, OpSet
<1>2. \A b \in Commands : Op("cmd", b, "next") \in SetUpOps
  BY DEF Op, SetUpOps, OpSet, Bytes
<1> QED
  BY <1>1, <1>2 DEF InitOps, Cmd, Data, Read, Flush, Bytes, Commands

LEMMA MouseProgram == MouseOps \in Seq(PointerOps)
<1>1. ASSUME NEW b \in Bytes PROVE AuxWrite(b, "skip", "next") \in Seq(PointerOps)
  <2>1. Op("cmd", "WRITE_P2", "skip") \in PointerOps /\ Op("data", b, "next") \in PointerOps
    BY DEF Op, PointerOps, OpSet, Bytes, Commands
  <2> QED
    BY <2>1 DEF AuxWrite
<1>2. <<Op("mouse_done", "none", "next")>> \in Seq(PointerOps)
  <2>1. Op("mouse_done", "none", "next") \in PointerOps
    BY DEF Op, PointerOps, OpSet, Bytes, Commands
  <2> QED
    BY <2>1
<1> QED
  BY <1>1, <1>2 DEF MouseOps, Bytes, Commands

LEMMA ProbeProgram == ProbeOps \in Seq(KnockOps) /\ Len(ProbeOps) > 1
<1>1. ASSUME NEW b \in Bytes PROVE WriteAck(b) \in Seq(KnockOps)
  <2>1. /\ Op("cmd", "WRITE_P2", "idle") \in KnockOps /\ Op("data", b, "idle") \in KnockOps
        /\ Op("aux", "ack", "idle") \in KnockOps
    BY DEF Op, KnockOps, OpSet, Bytes, Commands
  <2> QED
    BY <2>1 DEF WriteAck, AuxWrite
<1>2. <<Op("aux", "id_lo", "idle"), Op("aux", "id_hi", "idle")>> \in Seq(KnockOps)
  <2>1. Op("aux", "id_lo", "idle") \in KnockOps /\ Op("aux", "id_hi", "idle") \in KnockOps
    BY DEF Op, KnockOps, OpSet, Bytes, Commands
  <2> QED
    BY <2>1
<1> DEFINE w == <<Op("aux", "id_lo", "idle"), Op("aux", "id_hi", "idle")>>
           k == WriteAck("F3") \o WriteAck("arg") \o WriteAck("EA")
                \o WriteAck("F3") \o WriteAck("arg") \o WriteAck("EA")
                \o WriteAck("F3") \o WriteAck("arg") \o WriteAck("F2")
<1>3. k \in Seq(KnockOps)
  BY <1>1 DEF Bytes
<1>4. ProbeOps = k \o w /\ Len(w) = 2
  BY DEF ProbeOps
<1> HIDE DEF k, w
<1> QED
  BY <1>2, <1>3, <1>4 DEF w

\* The places of a concatenation.
LEMMA Joined ==
  ASSUME NEW R, NEW a \in Seq(R), NEW b \in Seq(R)
  PROVE  /\ a \o b \in Seq(R) /\ Len(a \o b) = Len(a) + Len(b)
         /\ Len(a) \in Nat /\ Len(b) \in Nat
         /\ \A i \in 1 .. Len(a) : (a \o b)[i] = a[i]
         /\ \A i \in 1 .. Len(b) : (a \o b)[Len(a) + i] = b[i]
  OBVIOUS

\* What the main line does at place i, and that no step leads out of the program.
LEMMA ProgramFacts ==
  /\ Mouse \in Nat /\ Probe \in Nat /\ Idle \in Nat
  /\ 1 <= Mouse /\ Mouse <= Probe /\ Probe + 1 < Idle /\ Idle = Len(Program)
  /\ \A i \in 1 .. Idle :
       /\ Program[i].op = "read" => i < Mouse
       /\ Program[i].op = "cmd" => Program[i].b \in Commands
       /\ i = Idle <=> Program[i].op = "idle"
       /\ i < Idle => \/ Program[i].fail = "next"
                      \/ Program[i].fail = "skip" /\ i < Probe
                      \/ Program[i].fail = "idle"
<1> DEFINE last == <<Op("idle", "none", "next")>>
           n1 == Len(InitOps)
           n2 == Len(MouseOps)
           n3 == Len(ProbeOps)
<1>1. /\ InitOps \in Seq(SetUpOps) /\ MouseOps \in Seq(PointerOps) /\ ProbeOps \in Seq(KnockOps)
      /\ n1 \in Nat /\ n2 \in Nat /\ n3 \in Nat /\ n3 > 1
  BY InitProgram, MouseProgram, ProbeProgram
<1>2. Len(last) = 1 /\ last[1].op = "idle"
  BY DEF Op
<1> HIDE DEF last, n1, n2, n3
<1>3. /\ Len(Program) = n1 + n2 + n3 + 1
      /\ \A i \in 1 .. n1 : Program[i] = InitOps[i]
      /\ \A i \in n1 + 1 .. n1 + n2 : Program[i] = MouseOps[i - n1]
      /\ \A i \in n1 + n2 + 1 .. n1 + n2 + n3 : Program[i] = ProbeOps[i - n1 - n2]
      /\ Program[n1 + n2 + n3 + 1] = last[1]
  <2> DEFINE a == InitOps \o MouseOps
             b == a \o ProbeOps
             R == SetUpOps \cup PointerOps \cup KnockOps \cup {last[1]}
  <2>1. InitOps \in Seq(R) /\ MouseOps \in Seq(R) /\ ProbeOps \in Seq(R) /\ last \in Seq(R)
    <3>1. SetUpOps \subseteq R /\ PointerOps \subseteq R /\ KnockOps \subseteq R /\ last[1] \in R
      OBVIOUS
    <3>2. last \in Seq(R)
      BY <3>1 DEF last
    <3> HIDE DEF R
    <3> QED
      BY <1>1, <3>1, <3>2, SeqMonotonic
  <2> HIDE DEF R
  <2>2. /\ a \in Seq(R) /\ Len(a) = n1 + n2
        /\ \A i \in 1 .. n1 : a[i] = InitOps[i]
        /\ \A i \in 1 .. n2 : a[n1 + i] = MouseOps[i]
    BY <2>1, Joined DEF n1, n2
  <2> HIDE DEF a
  <2>3. /\ b \in Seq(R) /\ Len(b) = n1 + n2 + n3
        /\ \A i \in 1 .. n1 + n2 : b[i] = a[i]
        /\ \A i \in 1 .. n3 : b[n1 + n2 + i] = ProbeOps[i]
    <3>1. /\ b \in Seq(R) /\ Len(b) = Len(a) + n3
          /\ \A i \in 1 .. Len(a) : b[i] = a[i]
          /\ \A i \in 1 .. n3 : b[Len(a) + i] = ProbeOps[i]
      <4>1. a \in Seq(R) /\ ProbeOps \in Seq(R)
        BY <2>1, <2>2
      <4> QED
        BY <4>1, Joined DEF n3
    <3> QED
      BY <2>2, <3>1
  <2>4. Program = b \o last
    BY DEF Program, a, last
  <2> HIDE DEF b
  <2>5. /\ Len(Program) = n1 + n2 + n3 + 1
        /\ \A i \in 1 .. n1 + n2 + n3 : Program[i] = b[i]
        /\ Program[n1 + n2 + n3 + 1] = last[1]
    <3>1. /\ Len(b \o last) = Len(b) + 1
          /\ \A i \in 1 .. Len(b) : (b \o last)[i] = b[i]
          /\ (b \o last)[Len(b) + 1] = last[1]
      <4>1. /\ Len(b \o last) = Len(b) + Len(last)
            /\ \A i \in 1 .. Len(b) : (b \o last)[i] = b[i]
            /\ \A i \in 1 .. Len(last) : (b \o last)[Len(b) + i] = last[i]
        <5>1. b \in Seq(R) /\ last \in Seq(R)
          BY <2>1, <2>3
        <5> QED
          BY <5>1, Joined
      <4>2. 1 \in 1 .. Len(last)
        BY <1>2
      <4> QED
        BY <1>2, <4>1, <4>2
    <3> QED
      BY <2>3, <2>4, <3>1
  <2>6. ASSUME NEW i \in 1 .. n1 PROVE Program[i] = InitOps[i]
    <3>1. i \in 1 .. n1 + n2 /\ i \in 1 .. n1 + n2 + n3
      BY <1>1
    <3> QED
      BY <2>2, <2>3, <2>5, <3>1
  <2>7. ASSUME NEW i \in n1 + 1 .. n1 + n2 PROVE Program[i] = MouseOps[i - n1]
    <3>1. /\ i \in 1 .. n1 + n2 /\ i \in 1 .. n1 + n2 + n3 /\ i - n1 \in 1 .. n2
          /\ n1 + (i - n1) = i
      BY <1>1
    <3>2. a[n1 + (i - n1)] = MouseOps[i - n1]
      BY <2>2, <3>1
    <3> QED
      BY <2>3, <2>5, <3>1, <3>2
  <2>8. ASSUME NEW i \in n1 + n2 + 1 .. n1 + n2 + n3 PROVE Program[i] = ProbeOps[i - n1 - n2]
    <3>1. /\ i \in 1 .. n1 + n2 + n3 /\ i - n1 - n2 \in 1 .. n3
          /\ n1 + n2 + (i - n1 - n2) = i
      BY <1>1
    <3>2. b[n1 + n2 + (i - n1 - n2)] = ProbeOps[i - n1 - n2]
      BY <2>3, <3>1
    <3> QED
      BY <2>5, <3>1, <3>2
  <2> QED
    BY <2>5, <2>6, <2>7, <2>8
<1>4. Mouse = n1 + 1 /\ Probe = n1 + 1 + n2 /\ Idle = n1 + n2 + n3 + 1
  BY <1>3 DEF Mouse, Probe, Idle, n1, n2
<1>5. ASSUME NEW i \in 1 .. Idle
      PROVE  /\ Program[i].op = "read" => i < Mouse
             /\ Program[i].op = "cmd" => Program[i].b \in Commands
             /\ i = Idle <=> Program[i].op = "idle"
             /\ i < Idle => \/ Program[i].fail = "next"
                            \/ Program[i].fail = "skip" /\ i < Probe
                            \/ Program[i].fail = "idle"
  <2>1. CASE i \in 1 .. n1
    <3>1. Program[i] \in SetUpOps
      BY <1>1, <1>3, <2>1 DEF n1
    <3> QED
      BY <1>1, <1>4, <2>1, <3>1 DEF SetUpOps, OpSet
  <2>2. CASE i \in n1 + 1 .. n1 + n2
    <3>1. Program[i] = MouseOps[i - n1] /\ i - n1 \in 1 .. n2
      BY <1>1, <1>3, <2>2
    <3>2. Program[i] \in PointerOps
      BY <1>1, <3>1 DEF n2
    <3> QED
      BY <1>1, <1>4, <2>2, <3>2 DEF PointerOps, OpSet
  <2>3. CASE i \in n1 + n2 + 1 .. n1 + n2 + n3
    <3>1. Program[i] = ProbeOps[i - n1 - n2] /\ i - n1 - n2 \in 1 .. n3
      <4>1. Program[i] = ProbeOps[i - n1 - n2]
        BY <1>3, <2>3, Zenon
      <4>2. i \in Int /\ i >= n1 + n2 + 1 /\ i <= n1 + n2 + n3
        BY <1>1, <2>3
      <4>3. i - n1 - n2 \in 1 .. n3
        BY <1>1, <4>2
      <4> QED
        BY <4>1, <4>3
    <3>2. Program[i] \in KnockOps
      BY <1>1, <3>1 DEF n3
    <3> QED
      BY <1>1, <1>4, <2>3, <3>2 DEF KnockOps, OpSet
  <2>4. CASE i = Idle
    BY <1>1, <1>2, <1>3, <1>4, <2>4
  <2> QED
    BY <1>1, <1>4, <2>1, <2>2, <2>3, <2>4
<1> QED
  BY <1>1, <1>3, <1>4, <1>5

----------------------------------------------------------------------------
(* The inductive invariant *)

\* A byte that was seen is there and is what the main line waits for; no handler
\* is running then; and the keyboard's interrupt is masked until the program has
\* come to the mouse.  The controller is given only commands it knows.
IInv ==
  /\ inbuf.port = "cmd" => inbuf.b \in Commands
  /\ pc \in 1 .. Idle
  /\ seen \in BOOLEAN
  /\ seen => /\ out.full /\ irq = "none"
             /\ \/ Program[pc].op = "read"
                \/ Program[pc].op = "aux" /\ out.src = "aux"
  /\ unmasked # {} => pc >= Mouse

LEMMA InitInv == Init => IInv
<1> SUFFICES ASSUME Init PROVE IInv
  OBVIOUS
<1>1. pc \in 1 .. Idle
  BY ProgramFacts DEF Init
<1>2. seen \in BOOLEAN /\ ~seen /\ unmasked = {}
  BY Zenon DEF Init
<1>3. inbuf.port # "cmd"
  BY DEF Init, None, Floating
<1> QED
  BY <1>1, <1>2, <1>3, Zenon DEF IInv

\* A wait that gives up leads forward.
LEMMA Forward ==
  ASSUME pc \in 1 .. Idle, Program[pc].op # "idle", GiveUp \/ Goto(pc + 1)
  PROVE  pc' \in 1 .. Idle /\ (pc >= Mouse => pc' >= Mouse)
<1>1. pc \in Nat /\ pc < Idle /\ Idle \in Nat /\ Mouse \in Nat /\ Mouse < Idle /\ pc >= 1
  BY ProgramFacts
<1>2. CASE Goto(pc + 1)
  BY <1>1, <1>2 DEF Goto
<1>3. CASE GiveUp
  <2>1. CASE Program[pc].fail = "next"
    BY <1>1, <1>3, <2>1 DEF GiveUp, Goto
  <2>2. CASE Program[pc].fail = "skip" /\ pc < Probe
    <3>1. Probe \in Nat /\ Probe + 1 < Idle
      BY ProgramFacts
    <3>2. pc' = pc + 2
      BY <1>3, <2>2 DEF GiveUp, Goto
    <3> QED
      BY <1>1, <2>2, <3>1, <3>2
  <2>3. CASE Program[pc].fail = "idle"
    BY <1>1, <1>3, <2>3 DEF GiveUp, Goto
  <2> QED
    BY <1>1, <2>1, <2>2, <2>3, ProgramFacts
<1> QED
  BY <1>2, <1>3

\* The steps of the main line other than the poll and the read: nothing was seen.
LEMMA MainStep ==
  ASSUME IInv, Write \/ flush_output \/ keyboard_init \/ mouse_init
  PROVE  IInv'
<1>1. pc \in 1 .. Idle /\ Program[pc].op \in {"cmd", "data", "flush", "keyboard_init", "mouse_done"}
  BY DEF IInv, Write, flush_output, keyboard_init, mouse_init, At
<1>2. ~seen /\ seen' = seen
  BY <1>1, Zenon DEF IInv, Write, flush_output, keyboard_init, mouse_init
<1>3. ~seen' /\ seen' \in BOOLEAN
  BY <1>2, Zenon DEF IInv
<1>4. pc' \in 1 .. Idle /\ (unmasked' # {} => pc' >= Mouse)
  <2>1. CASE Write
    <3>1. GiveUp \/ Goto(pc + 1)
      BY <2>1 DEF Write
    <3>2. pc' \in 1 .. Idle /\ (pc >= Mouse => pc' >= Mouse)
      BY <1>1, <3>1, Forward
    <3>3. unmasked' = unmasked
      BY <2>1 DEF Write, pic
    <3> QED
      BY <3>2, <3>3 DEF IInv
  <2>2. CASE flush_output
    <3>1. unmasked' = unmasked
      BY <2>2 DEF flush_output, pic
    <3>2. CASE out.full
      BY <1>1, <2>2, <3>1, <3>2 DEF flush_output, IInv
    <3>3. CASE ~out.full
      <4>1. Goto(pc + 1)
        BY <2>2, <3>3 DEF flush_output
      <4> QED
        BY <1>1, <3>1, <4>1, Forward DEF IInv
    <3> QED
      BY <3>2, <3>3
  <2>3. CASE keyboard_init \/ mouse_init
    BY <2>3, ProgramFacts DEF keyboard_init, mouse_init, Goto
  <2> QED
    BY <2>1, <2>2, <2>3
<1>5. inbuf'.port = "cmd" => inbuf'.b \in Commands
  <2>1. CASE inbuf' = inbuf
    BY <2>1 DEF IInv
  <2>2. CASE inbuf' # inbuf
    <3>1. inbuf' = [port |-> Program[pc].op, b |-> Program[pc].b, cfg |-> cfg]
      BY <2>2 DEF Write, flush_output, keyboard_init, mouse_init, hardware
    <3> QED
      BY <1>1, <3>1, ProgramFacts
  <2> QED
    BY <2>1, <2>2
<1> QED
  BY <1>3, <1>4, <1>5, Zenon DEF IInv

\* Where the main line goes with a byte it read, or with none.
LEMMA AnsweredForward ==
  ASSUME IInv, At({"read", "aux"}),
         \/ Program[pc].op = "aux" /\ GiveUp
         \/ Program[pc].op = "read" /\ \E b : Answered(b)
         \/ Program[pc].op = "aux" /\ \E b : AuxAnswered(b)
  PROVE  pc' \in 1 .. Idle /\ (unmasked # {} => pc' >= Mouse)
<1>1. pc \in 1 .. Idle /\ Program[pc].op # "idle" /\ (unmasked # {} => pc >= Mouse)
  BY DEF IInv, At
<1>2. /\ Probe \in 1 .. Idle /\ Probe >= Mouse /\ Idle \in 1 .. Idle /\ Idle >= Mouse
  BY ProgramFacts
<1>3. CASE GiveUp \/ Goto(pc + 1)
  BY <1>1, <1>3, Forward
<1>4. CASE pc' = Probe \/ pc' = Idle
  BY <1>2, <1>4
<1> QED
  BY <1>3, <1>4 DEF Answered, AuxAnswered, Goto

\* A poll that shows a byte.
LEMMA StatusStep == ASSUME IInv, Status PROVE IInv'
<1>1. /\ pc \in 1 .. Idle /\ At({"read", "aux"}) /\ irq = "none" /\ irq' = irq /\ out' = out
      /\ inbuf' = inbuf
      /\ unmasked' = unmasked /\ (Program[pc].op = "read" \/ Program[pc].op = "aux")
  BY DEF IInv, Status, At, hardware, pic, driver
<1>2. CASE UNCHANGED seen
  <2>1. ~seen' /\ seen' \in BOOLEAN
    BY <1>2, Zenon DEF IInv, Status
  <2>2. CASE pc' = pc
    BY <1>1, <2>1, <2>2, Zenon DEF IInv
  <2>3. CASE pc' # pc
    <3>1. \/ Program[pc].op = "aux" /\ GiveUp
          \/ Program[pc].op = "read" /\ \E b : Answered(b)
      BY <2>3 DEF Status
    <3>2. pc' \in 1 .. Idle /\ (unmasked # {} => pc' >= Mouse)
      BY <1>1, <3>1, AnsweredForward
    <3> QED
      BY <1>1, <2>1, <3>2, Zenon DEF IInv
  <2> QED
    BY <2>2, <2>3
<1>3. CASE ~UNCHANGED seen
  <2>1. seen' = TRUE /\ pc' = pc
    BY <1>3 DEF Status
  <2>2. out.full /\ (Program[pc].op = "aux" => out.src = "aux")
    <3>1. CASE Program[pc].op = "aux"
      BY <1>3, <3>1 DEF Status, HasAuxByte
    <3>2. CASE Program[pc].op # "aux"
      BY <1>3, <3>2 DEF Status
    <3> QED
      BY <3>1, <3>2
  <2> QED
    BY <1>1, <2>1, <2>2, Zenon DEF IInv
<1> QED
  BY <1>2, <1>3

LEMMA TakeStep == ASSUME IInv, Take PROVE IInv'
<1>1. ~seen' /\ seen' \in BOOLEAN /\ unmasked' = unmasked /\ inbuf' = inbuf
  BY Zenon DEF Take, pic
<1>2. pc' \in 1 .. Idle /\ (unmasked # {} => pc' >= Mouse)
  BY AnsweredForward DEF Take
<1> QED
  BY <1>1, <1>2, Zenon DEF IInv

\* The keyboard's handler does not run between a poll and the read that follows.
LEMMA HandlerOff ==
  ASSUME IInv, seen
  PROVE  ~keyboard_irq_handler /\ ~WaitExtended /\ ~handle_extended
<1>1. irq = "none"
  BY DEF IInv
<1>2. ASSUME keyboard_irq_handler PROVE FALSE
  <2>1. out.src # "aux" /\ 1 \in unmasked
    BY <1>2 DEF keyboard_irq_handler, Reaches
  <2>2. Program[pc].op = "read" /\ pc \in 1 .. Idle /\ pc >= Mouse
    BY <2>1 DEF IInv
  <2> QED
    BY <2>2, ProgramFacts
<1> QED
  BY <1>1, <1>2 DEF WaitExtended, handle_extended

LEMMA OtherStep ==
  ASSUME IInv, keyboard_try_getchar \/ Handler \/ Hardware \/ UNCHANGED vars
  PROVE  IInv'
<1>1. UNCHANGED <<pc, seen, unmasked>>
  BY DEF keyboard_try_getchar, Handler, keyboard_irq_handler, WaitExtended, handle_extended, Hardware,
         Command, DataByte, KbdSends, AuxSends, vars, main, pic
<1>0. inbuf'.port = "cmd" => inbuf'.b \in Commands
  <2>1. inbuf' = inbuf \/ inbuf' = None
    BY DEF keyboard_try_getchar, Handler, keyboard_irq_handler, WaitExtended, handle_extended, Hardware,
           Command, DataByte, KbdSends, AuxSends, vars, hardware
  <2> QED
    BY <2>1 DEF IInv, None
<1>2. CASE ~seen
  BY <1>0, <1>1, <1>2, Zenon DEF IInv
<1>3. CASE seen
  <2>1. out.full
    BY <1>3 DEF IInv
  <2>2. keyboard_try_getchar \/ Command \/ DataByte \/ UNCHANGED vars
    BY <1>3, <2>1, HandlerOff DEF Handler, Hardware, KbdSends, AuxSends
  <2>3. irq' = irq
    BY <2>2 DEF keyboard_try_getchar, Command, DataByte, vars, driver
  <2>4. out' = out
    <3>1. CASE Command
      <4>1. \A b : ~Answer(b)
        BY <2>1 DEF Answer
      <4> QED
        BY <3>1, <4>1 DEF Command, IInv, Commands
    <3>2. CASE keyboard_try_getchar \/ DataByte \/ UNCHANGED vars
      BY <3>2 DEF keyboard_try_getchar, DataByte, vars, hardware
    <3> QED
      BY <2>2, <3>1, <3>2
  <2> QED
    BY <1>0, <1>1, <2>3, <2>4, Zenon DEF IInv
<1> QED
  BY <1>2, <1>3

\* The byte that the status port has shown is the one that is read: no interrupt
\* handler and no device gets in between, at any point of the bring-up.
THEOREM StatusHolds == Spec => []StatusStillTrue
<1>1. IInv /\ [Next]_vars => IInv'
  BY MainStep, StatusStep, TakeStep, OtherStep DEF Next, BringUp
<1>2. IInv => StatusStillTrue
  BY DEF IInv, StatusStillTrue
<1> QED
  BY <1>1, <1>2, InitInv, PTL DEF Spec


----------------------------------------------------------------------------
(* The boots after a panic *)

(***************************************************************************)
(* Type correctness.  Of `then' more is needed than its type: ClearCode uses *)
(* it to choose where to go on.                                             *)
(***************************************************************************)

\* One step keeps BootTypeOK.
LEMMA BootTypeStep == ASSUME BootTypeOK, BootNext \/ UNCHANGED bootVars PROVE BootTypeOK'
<1> USE DEF BootTypeOK, Kernels, Panicking, CmosBytes, PANIC_MAGIC
<1>1. CASE GrubTimeout \/ StandardBringUp \/ Countdown \/ Escape \/ WriteKbc \/ KbcTakes \/ kernel_reboot
  BY <1>1 DEF GrubTimeout, StandardBringUp, Countdown, Escape, WriteKbc, KbcTakes, kernel_reboot, Reset,
              MoveOn, cmos
<1>2. CASE StandardReport \/ SecureReport
  <2>1. owed' \in BOOLEAN
    BY <1>2, Zenon DEF StandardReport, SecureReport, Report
  <2> HIDE DEF BootTypeOK
  <2>2. /\ magic' = magic /\ code' = code /\ then' = then
        /\ kbc' = kbc /\ faults' = faults /\ cuts' = cuts /\ stage' \in {"clear_magic", "menu"}
    BY <1>2 DEF StandardReport, SecureReport, Report, cmos
  <2> QED
    BY <2>1, <2>2 DEF BootTypeOK
<1>3. CASE ClearMagic
  BY <1>3 DEF ClearMagic
<1>4. CASE ClearCode
  BY <1>4 DEF ClearCode
<1>5. CASE StampMagic \/ StampCode
  <2>1. owed' \in BOOLEAN
    BY <1>5, Zenon DEF StampMagic, StampCode
  <2>2. CASE StampMagic
    <3> HIDE DEF BootTypeOK
    <3>1. /\ magic' = PANIC_MAGIC /\ code' = code /\ then' = then
          /\ kbc' = kbc /\ faults' = faults /\ cuts' = cuts /\ stage' = "stamp_code"
      BY <2>2 DEF StampMagic
    <3> QED
      BY <2>1, <3>1 DEF BootTypeOK
  <2>3. CASE StampCode
    BY <2>3 DEF StampCode
  <2> QED
    BY <1>5, <2>2, <2>3
<1>6. CASE GrubChoice
  BY <1>6, BoundAssumption DEF GrubChoice, MoveOn, Entries, cmos
<1>7. CASE \E key \in {"r", "c"} : Menu(key)
  BY <1>7 DEF Menu, cmos
<1>8. CASE Exception
  BY <1>8, BoundAssumption DEF Exception, cmos
<1>9. CASE PowerCut
  BY <1>9, BoundAssumption DEF PowerCut, Reset, cmos
<1>10. CASE UNCHANGED bootVars
  BY <1>10 DEF bootVars, cmos
<1> QED
  BY <1>1, <1>2, <1>3, <1>4, <1>5, <1>6, <1>7, <1>8, <1>9, <1>10 DEF BootNext, Machine

\* The machine is always at a step of boot_flow.c, secure_boot.c or panic.c, and
\* the bounds on exceptions and power cuts are kept.
THEOREM BootTypeCorrect == BootSpec => []BootTypeOK
<1>1. BootInit => BootTypeOK
  <2>1. BootInit => owed \in BOOLEAN
    BY Zenon DEF BootInit
  <2>2. BootInit => /\ magic \in CmosBytes /\ code \in CmosBytes /\ stage = "grub" /\ then = "none"
                /\ kbc \in {"empty", "absent"} /\ faults = 0 /\ cuts = 0
    BY DEF BootInit
  <2> QED
    BY <2>1, <2>2, BoundAssumption DEF BootTypeOK
<1>2. BootTypeOK /\ [BootNext]_bootVars => BootTypeOK'
  BY BootTypeStep
<1> QED
  BY <1>1, <1>2, PTL DEF BootSpec

(***************************************************************************)
(* The stamp is not lost.  What makes it inductive: wherever the flag is     *)
(* about to be cleared, nothing is owed any more.                           *)
(***************************************************************************)
StampInv ==
  /\ StampKept
  /\ stage \in {"menu", "clear_magic", "clear_code"} => ~owed

\* One step keeps StampInv.
LEMMA StampStep == ASSUME StampInv, BootNext \/ UNCHANGED bootVars PROVE StampInv'
<1> USE DEF StampInv, StampKept
<1>1. CASE GrubTimeout \/ StandardBringUp \/ Countdown \/ Escape \/ WriteKbc \/ KbcTakes \/ kernel_reboot
  BY <1>1 DEF GrubTimeout, StandardBringUp, Countdown, Escape, WriteKbc, KbcTakes, kernel_reboot, Reset,
              MoveOn, cmos
<1>2. CASE StandardReport \/ SecureReport
  BY <1>2 DEF StandardReport, SecureReport, Report, cmos
<1>3. CASE ClearMagic \/ ClearCode
  BY <1>3 DEF ClearMagic, ClearCode
<1>4. CASE StampMagic \/ StampCode
  BY <1>4 DEF StampMagic, StampCode
<1>5. CASE GrubChoice
  BY <1>5, BoundAssumption DEF GrubChoice, MoveOn, Entries, cmos
<1>6. CASE \E key \in {"r", "c"} : Menu(key)
  BY <1>6 DEF Menu, cmos
<1>7. CASE Exception \/ PowerCut
  BY <1>7 DEF Exception, PowerCut, Reset, cmos
<1>8. CASE UNCHANGED bootVars
  BY <1>8 DEF bootVars, cmos
<1> QED
  BY <1>1, <1>2, <1>3, <1>4, <1>5, <1>6, <1>7, <1>8 DEF BootNext, Machine

\* A panic stamped by panic.c:47 stays in CMOS until a kernel has reported it.
THEOREM StampNeverLost == BootSpec => []StampKept
<1>1. BootInit => StampInv
  BY DEF BootInit, StampInv, StampKept
<1>2. StampInv /\ [BootNext]_bootVars => StampInv'
  BY StampStep
<1>3. StampInv => StampKept
  BY DEF StampInv
<1> QED
  BY <1>1, <1>2, <1>3, PTL DEF BootSpec

(***************************************************************************)
(* Until the power fails, the reason goes with the stamp: a code is cleared  *)
(* only when its stamp is gone.                                             *)
(***************************************************************************)
ReasonInv ==
  /\ cuts \in Nat
  /\ ReasonRecorded
  /\ cuts = 0 /\ stage = "clear_code" => magic # PANIC_MAGIC

\* One step keeps ReasonInv.
LEMMA ReasonStep == ASSUME ReasonInv, BootNext \/ UNCHANGED bootVars PROVE ReasonInv'
<1> USE DEF ReasonInv, ReasonRecorded
<1>1. CASE GrubTimeout \/ StandardBringUp \/ Countdown \/ Escape \/ WriteKbc \/ KbcTakes \/ kernel_reboot
  BY <1>1 DEF GrubTimeout, StandardBringUp, Countdown, Escape, WriteKbc, KbcTakes, kernel_reboot, Reset,
              MoveOn, cmos
<1>2. CASE StandardReport \/ SecureReport
  BY <1>2 DEF StandardReport, SecureReport, Report, cmos
<1>3. CASE ClearMagic \/ ClearCode
  BY <1>3 DEF ClearMagic, ClearCode, PANIC_MAGIC
<1>4. CASE StampMagic \/ StampCode
  BY <1>4 DEF StampMagic, StampCode
<1>5. CASE GrubChoice
  BY <1>5, BoundAssumption DEF GrubChoice, MoveOn, Entries, cmos
<1>6. CASE \E key \in {"r", "c"} : Menu(key)
  BY <1>6 DEF Menu, cmos
<1>7. CASE Exception
  BY <1>7 DEF Exception, Kernels, cmos
<1>8. CASE PowerCut
  BY <1>8 DEF PowerCut, Reset, cmos
<1>9. CASE UNCHANGED bootVars
  BY <1>9 DEF bootVars, cmos
<1> QED
  BY <1>1, <1>2, <1>3, <1>4, <1>5, <1>6, <1>7, <1>8, <1>9 DEF BootNext, Machine

\* Until the power fails a stamp that a boot can see carries its reason, also when a
\* further panic strikes between the two writes of panic.c:47-48, so that the report
\* of boot_flow.c:182 is true.
THEOREM ReasonGoesWithStamp == BootSpec => []ReasonRecorded
<1>1. BootInit => ReasonInv
  BY DEF BootInit, ReasonInv, ReasonRecorded
<1>2. ReasonInv /\ [BootNext]_bootVars => ReasonInv'
  BY ReasonStep
<1>3. ReasonInv => ReasonRecorded
  BY DEF ReasonInv
<1> QED
  BY <1>1, <1>2, <1>3, PTL DEF BootSpec
=============================================================================
