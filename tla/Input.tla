------------------------------- MODULE Input -------------------------------
(***************************************************************************)
(* PS/2 input: the bring-up of the 8042 controller (drivers/input/ps2.c),   *)
(* the keyboard interrupt and its ring (keyboard.c, arch/x86_64/isr.c), the *)
(* commands mouse_init sends and the probe for a Synaptics touchpad, in the *)
(* order of bringup_drivers (init/boot_flow.c), then the idle loop.         *)
(*                                                                          *)
(* The main line is a program of port operations; `pc' is its next one.     *)
(* Beside it run the controller, which takes its time with every byte it is *)
(* given and may stop answering, the two devices behind its ports, and the  *)
(* interrupt.  There is one output buffer for both devices and for the      *)
(* controller's own answers; a full buffer stops all three.                 *)
(*                                                                          *)
(* A machine may have no controller at all: its ports float and read 0xFF,  *)
(* both buffers full for ever.                                              *)
(*                                                                          *)
(* Left out: the mouse's interrupt handler, which cannot run, as the line   *)
(* of the second PIC into the first stays masked; the values of scancodes,  *)
(* of which only the class that handle_scancode tells apart is kept.        *)
(***************************************************************************)
EXTENDS Integers, Sequences

CONSTANTS
  MaxKeys,    \* bound: keys pressed in a behaviour
  MaxMoves,   \* bound: bytes of movement the pointing device sends
  RingSize,   \* sizeof(keybuf), 64 in the code
  Scancodes,  \* what a key may send, in the classes handle_scancode tells apart
  Devices     \* what there may be: "none", "mouse", "pad" behind the second port
              \* of a controller, or "absent", no controller

\* Bytes of the keyboard: a prefix, a make code with a character in both maps or in
\* the unshifted one only, either shift key, an arrow key, and all others.
Codes == {"E0", "char", "space", "shift", "unshift", "arrow", "other"}

ASSUME InputAssumption ==
  /\ MaxKeys \in Nat /\ MaxMoves \in Nat
  /\ RingSize \in Nat \ {0, 1}
  /\ Scancodes \subseteq Seq(Codes) \ {<<>>}
  /\ Devices \subseteq {"none", "mouse", "pad", "absent"}

VARIABLES
  \* the hardware
  inbuf,        \* input buffer: the byte the controller has yet to take
  out,          \* output buffer; its byte stays readable when not full
  ctl,          \* the configuration byte: lines that interrupt, ports that are off
  expects,      \* what the next data byte is for
  kbdQ, auxQ,   \* what the keyboard and the pointing device have yet to send
  device,       \* the pointing device, or "absent"
  keys, moves,  \* how often a key was pressed, how many bytes of movement sent
  \* the first PIC
  unmasked, inService,
  \* the main line
  pc,
  seen,         \* the status port has shown the byte that is about to be read
  cfg, port1_ok, port2_ok, present,
  \* the keyboard driver
  irq,          \* "E0" while the handler waits for the second byte of a key
  shift_down, put_idx, get_idx, keybuf,
  lost          \* characters that push_char did not store

hardware == <<inbuf, out, ctl, expects, kbdQ, auxQ, device, keys, moves>>
pic == <<unmasked, inService>>
main == <<pc, seen, cfg, port1_ok, port2_ok, present>>
ring == <<put_idx, get_idx, keybuf, lost>>
driver == <<irq, shift_down, ring>>
vars == <<hardware, pic, main, driver>>

Ports == {"kbd", "aux"}
Config == [irq : SUBSET Ports, off : SUBSET Ports]
NoConfig == [irq |-> {}, off |-> {}]
None == [port |-> "none", b |-> "none", cfg |-> NoConfig]

\* What the ports of a machine without a controller look like.
Floating ==
  /\ inbuf = [port |-> "floating", b |-> "FF", cfg |-> NoConfig]
  /\ out = [full |-> TRUE, src |-> "aux", b |-> "FF"]

-----------------------------------------------------------------------------
(* The program of the main line. *)

\* An operation: fail is where a wait that gives up leads to.
Op(op, b, fail) == [op |-> op, b |-> b, fail |-> fail]

\* controller_cmd and data_write: the caller ignores that they gave up.
Cmd(b) == Op("cmd", b, "next")
Data(b) == Op("data", b, "next")

\* data_read and flush_output
Read(b) == Op("read", b, "next")
Flush == Op("flush", "none", "next")

\* ps2_controller_init
InitOps == <<Cmd("DISABLE_P1"), Cmd("DISABLE_P2"), Flush,
             Cmd("SELF_TEST"), Read("self"),
             Cmd("READ_CFG"), Read("cfg"), Cmd("WRITE_CFG"), Data("cfg"),
             Cmd("PORT1_TEST"), Read("port1"), Cmd("PORT2_TEST"), Read("port2"),
             Cmd("ENABLE_P1"), Cmd("ENABLE_P2"), Cmd("WRITE_CFG"), Data("cfg"),
             Op("keyboard_init", "none", "next")>>

\* ps2_aux_write: a prefix that is given up takes the byte with it.
AuxWrite(b, prefix, fail) == <<Op("cmd", "WRITE_P2", prefix), Op("data", b, fail)>>

\* mouse_init: sampling rate, scaling, reporting, and the interrupt
MouseOps == AuxWrite("F3", "skip", "next") \o AuxWrite("arg", "skip", "next")
            \o AuxWrite("E6", "skip", "next") \o AuxWrite("F4", "skip", "next")
            \o <<Op("mouse_done", "none", "next")>>

\* aux_write_ack of the probe: the byte, then a byte that has to be an ACK
WriteAck(b) == AuxWrite(b, "idle", "idle") \o <<Op("aux", "ack", "idle")>>

\* synaptics_probe: three rounds of the knock, identification, two bytes
ProbeOps == WriteAck("F3") \o WriteAck("arg") \o WriteAck("EA")
            \o WriteAck("F3") \o WriteAck("arg") \o WriteAck("EA")
            \o WriteAck("F3") \o WriteAck("arg") \o WriteAck("F2")
            \o <<Op("aux", "id_lo", "idle"), Op("aux", "id_hi", "idle")>>

Program == InitOps \o MouseOps \o ProbeOps \o <<Op("idle", "none", "next")>>

Mouse == Len(InitOps) + 1
Probe == Mouse + Len(MouseOps)
Idle == Len(Program)

\* The firmware leaves both ports on, with or without interrupts, and perhaps a
\* byte nobody has read.
Init ==
  /\ device \in Devices /\ expects = "none"
  /\ IF device = "absent" THEN Floating
     ELSE inbuf = None /\ out \in [full : BOOLEAN, src : {"kbd"}, b : {"other"}]
  /\ ctl \in [irq : {{}, Ports}, off : {{}}]
  /\ kbdQ = <<>> /\ auxQ = <<>>
  /\ keys = 0 /\ moves = 0
  /\ unmasked = {} /\ inService = {}
  /\ pc = 1 /\ seen = FALSE /\ cfg = NoConfig
  /\ port1_ok = FALSE /\ port2_ok = FALSE /\ present = FALSE
  /\ irq = "none" /\ shift_down = FALSE
  /\ put_idx = 0 /\ get_idx = 0 /\ keybuf = [i \in 0 .. RingSize - 1 |-> "none"]
  /\ lost = 0

-----------------------------------------------------------------------------
(* The main line.  An interrupt handler that has not returned keeps it off. *)

At(ops) == irq = "none" /\ Program[pc].op \in ops

Goto(target) == pc' = target

\* Where a wait that gives up leads to.
GiveUp == Goto(CASE Program[pc].fail = "next" -> pc + 1
                 [] Program[pc].fail = "skip" -> pc + 2
                 [] Program[pc].fail = "idle" -> Idle)

\* Mutant: the waits go on until the controller is ready.
NeverSpent == FALSE

\* The counted loops of wait_in_ready, wait_out_ready, aux_write_ack and
\* aux_read_byte may run to their end whenever the condition does not hold; the
\* polls before that change nothing.
Spent == TRUE

\* ENABLE_P1 and ENABLE_P2 are for ports that passed their test.
Skipped(o) == (o.b = "ENABLE_P1" /\ ~port1_ok) \/ (o.b = "ENABLE_P2" /\ ~port2_ok)

\* cfg |= 0x01 and cfg |= 0x02 after these commands, given up or not.
LineOf(o) == CASE o.b = "ENABLE_P1" -> {"kbd"} [] o.b = "ENABLE_P2" -> {"aux"} [] OTHER -> {}
Armed(o) == [cfg EXCEPT !.irq = @ \cup LineOf(o)]

\* controller_cmd, data_write and the halves of ps2_aux_write: wait_in_ready, then outb.
Write ==
  /\ At({"cmd", "data"})
  /\ LET o == Program[pc] IN
     \/ /\ Skipped(o) /\ Goto(pc + 1)
        /\ UNCHANGED <<inbuf, cfg>>
     \/ /\ ~Skipped(o) /\ inbuf = None
        /\ inbuf' = [port |-> o.op, b |-> o.b, cfg |-> cfg]
        /\ cfg' = Armed(o) /\ Goto(pc + 1)
     \/ /\ ~Skipped(o) /\ inbuf # None /\ Spent /\ GiveUp
        /\ cfg' = Armed(o)
        /\ UNCHANGED inbuf
  /\ UNCHANGED <<seen, port1_ok, port2_ok, present, out, ctl, expects, kbdQ, auxQ,
                 device, keys, moves, pic, driver>>

\* inb(DATA_PORT)
Emptied == [out EXCEPT !.full = (device = "absent")]

\* flush_output, a loop without a bound
flush_output ==
  /\ At({"flush"})
  /\ IF out.full THEN out' = Emptied /\ UNCHANGED pc
                 ELSE UNCHANGED out /\ Goto(pc + 1)
  /\ UNCHANGED <<seen, cfg, port1_ok, port2_ok, present, inbuf, ctl, expects, kbdQ, auxQ,
                 device, keys, moves, pic, driver>>

\* What ps2_controller_init does with the byte read, "FF" if none came.  The
\* translation bit it clears is not in the model.
Answered(b) ==
  LET what == Program[pc].b IN
  /\ Goto(IF what = "self" /\ b # "55" THEN Probe ELSE pc + 1)
  /\ cfg' \in CASE what = "cfg" /\ b = "cfg" -> {ctl}
              [] what = "cfg" /\ b = "FF" -> {[irq |-> Ports, off |-> Ports]}
              [] what = "cfg" /\ b \notin {"cfg", "FF"} -> Config
              [] OTHER -> {cfg}
  /\ port1_ok' = IF what = "port1" THEN b = "ok" ELSE port1_ok
  /\ port2_ok' = IF what = "port2" THEN b = "ok" ELSE port2_ok

\* What aux_write_ack and synaptics_probe do with a byte of the pointing device.
AuxAnswered(b) ==
  LET what == Program[pc].b IN
  /\ Goto(IF what = "ack" /\ b # "FA" THEN Idle ELSE pc + 1)
  /\ present' = (present \/ (what = "id_hi" /\ b = "47"))

\* Mutant: ps2_aux_read does not look at where the byte came from.
HasAnyByte == out.full

\* The status ps2_aux_read waits for.
HasAuxByte == out.full /\ out.src = "aux"

\* A poll of the status port in data_read and ps2_aux_read.
Status ==
  /\ At({"read", "aux"}) /\ ~seen
  /\ LET ready == IF Program[pc].op = "aux" THEN HasAuxByte ELSE out.full IN
     \/ /\ ready /\ seen' = TRUE
        /\ UNCHANGED <<pc, cfg, port1_ok, port2_ok>>
     \/ /\ ~ready /\ Spent /\ Program[pc].op = "aux" /\ GiveUp
        /\ UNCHANGED <<seen, cfg, port1_ok, port2_ok>>
     \/ /\ ~ready /\ Spent /\ Program[pc].op = "read" /\ Answered("FF")
        /\ UNCHANGED seen
  /\ UNCHANGED <<present, hardware, pic, driver>>

\* The byte is read, whatever is in the buffer by then.
Take ==
  /\ At({"read", "aux"}) /\ seen
  /\ seen' = FALSE /\ out' = Emptied
  /\ \/ Program[pc].op = "read" /\ Answered(out.b) /\ UNCHANGED present
     \/ Program[pc].op = "aux" /\ AuxAnswered(out.b) /\ UNCHANGED <<cfg, port1_ok, port2_ok>>
  /\ UNCHANGED <<inbuf, ctl, expects, kbdQ, auxQ, device, keys, moves, pic, driver>>

pic_unmask_irq(i) == unmasked \cup {i}

\* The end of ps2_controller_init, and keyboard_init if a port was found.
keyboard_init ==
  /\ At({"keyboard_init"})
  /\ Goto(IF port2_ok THEN Mouse ELSE Probe)
  /\ unmasked' = IF port1_ok THEN pic_unmask_irq(1) ELSE unmasked
  /\ put_idx' = IF port1_ok THEN 0 ELSE put_idx
  /\ get_idx' = IF port1_ok THEN 0 ELSE get_idx
  /\ UNCHANGED <<seen, cfg, port1_ok, port2_ok, present, hardware, inService,
                 irq, shift_down, keybuf, lost>>

\* The end of mouse_init.
mouse_init ==
  /\ At({"mouse_done"})
  /\ Goto(Probe)
  /\ unmasked' = pic_unmask_irq(12)
  /\ UNCHANGED <<seen, cfg, port1_ok, port2_ok, present, hardware, inService, driver>>

\* A round of idle_loop reads what is in the ring.
keyboard_try_getchar ==
  /\ At({"idle"})
  /\ get_idx' = IF get_idx = put_idx THEN get_idx ELSE (get_idx + 1) % RingSize
  /\ UNCHANGED <<hardware, pic, main, irq, shift_down, put_idx, keybuf, lost>>

-----------------------------------------------------------------------------
(* The interrupt *)

\* An interrupt of the second PIC comes through line 2 of the first.
Reaches(i) == i \in unmasked /\ (i >= 8 => 2 \in unmasked)

\* Mutant: the first PIC is told only of interrupts of the second.
EoiOfSecond(i) == IF i >= 8 THEN inService \ {i} ELSE inService \cup {i}

\* pic_send_eoi
pic_send_eoi(i) == inService \ {i}

push_char(c) ==
  LET next == (put_idx + 1) % RingSize IN
  IF next # get_idx
  THEN lost' = lost + 1 /\ UNCHANGED <<put_idx, get_idx, keybuf>>
  ELSE /\ keybuf' = [keybuf EXCEPT ![put_idx] = c] /\ put_idx' = next
       /\ UNCHANGED <<get_idx, lost>>

\* A make code with a character: keymap_shift has none for space, tab and backspace.
Mapped(b) == b = "char" \/ (b = "space" /\ ~shift_down)

\* isr_handler and keyboard_irq_handler.
keyboard_irq_handler ==
  /\ irq = "none" /\ inService = {} /\ Reaches(1)
  /\ out.full /\ out.src # "aux" /\ "kbd" \in ctl.irq
  /\ out' = Emptied
  /\ shift_down' = CASE out.b = "shift" -> TRUE
                    [] out.b = "unshift" -> FALSE
                    [] OTHER -> shift_down
  /\ IF out.b = "E0" THEN irq' = "E0" /\ inService' = {1}
                     ELSE UNCHANGED irq /\ inService' = pic_send_eoi(1)
  /\ IF Mapped(out.b) THEN push_char(out.b) ELSE UNCHANGED ring
  /\ UNCHANGED <<inbuf, ctl, expects, kbdQ, auxQ, device, keys, moves, unmasked, main>>

\* The handler polls for the byte after the prefix, without a bound.
WaitExtended ==
  /\ irq = "E0" /\ ~out.full
  /\ UNCHANGED vars

\* The rest of handle_scancode after the prefix: the next byte, of either device.
handle_extended ==
  /\ irq = "E0" /\ out.full
  /\ out' = Emptied
  /\ irq' = "none" /\ inService' = pic_send_eoi(1)
  /\ IF out.b = "arrow" THEN push_char("arrow") ELSE UNCHANGED ring
  /\ UNCHANGED <<inbuf, ctl, expects, kbdQ, auxQ, device, keys, moves, unmasked, main, shift_down>>

-----------------------------------------------------------------------------
(* The controller and the devices *)

Answer(b) == ~out.full /\ out' = [full |-> TRUE, src |-> "ctl", b |-> b]

\* A command is carried out.  A self test may reset the configuration.
Command ==
  /\ inbuf.port = "cmd"
  /\ inbuf' = None
  /\ expects' = CASE inbuf.b = "WRITE_CFG" -> "cfg"
                 [] inbuf.b = "WRITE_P2" -> "aux"
                 [] OTHER -> "none"
  /\ CASE inbuf.b = "DISABLE_P1" -> ctl' = [ctl EXCEPT !.off = @ \cup {"kbd"}] /\ UNCHANGED out
       [] inbuf.b = "DISABLE_P2" -> ctl' = [ctl EXCEPT !.off = @ \cup {"aux"}] /\ UNCHANGED out
       [] inbuf.b = "ENABLE_P1" -> ctl' = [ctl EXCEPT !.off = @ \ {"kbd"}] /\ UNCHANGED out
       [] inbuf.b = "ENABLE_P2" -> ctl' = [ctl EXCEPT !.off = @ \ {"aux"}] /\ UNCHANGED out
       [] inbuf.b = "SELF_TEST" -> ctl' \in {ctl, NoConfig} /\ \E b \in {"55", "bad"} : Answer(b)
       [] inbuf.b = "READ_CFG" -> Answer("cfg") /\ UNCHANGED ctl
       [] inbuf.b \in {"PORT1_TEST", "PORT2_TEST"} ->
            (\E b \in {"ok", "bad"} : Answer(b)) /\ UNCHANGED ctl
       [] inbuf.b \in {"WRITE_CFG", "WRITE_P2"} -> UNCHANGED <<out, ctl>>
  /\ UNCHANGED <<kbdQ, auxQ, device, keys, moves, pic, main, driver>>

\* What the pointing device answers: F2 asks for its identity.
Reply(b) == IF b = "F2" THEN IF device = "pad" THEN <<"FA", "id", "47">> ELSE <<"FA", "id">>
                        ELSE <<"FA">>

\* A data byte: the configuration, or a byte for the pointing device.
DataByte ==
  /\ inbuf.port = "data"
  /\ inbuf' = None /\ expects' = "none"
  /\ ctl' = IF expects = "cfg" THEN inbuf.cfg ELSE ctl
  /\ auxQ' = IF expects = "aux" /\ device # "none" /\ "aux" \notin ctl.off
             THEN auxQ \o Reply(inbuf.b) ELSE auxQ
  /\ UNCHANGED <<out, kbdQ, device, keys, moves, pic, main, driver>>

\* The keyboard puts a byte into the output buffer: the rest of a key, or the start
\* of the next one.
KbdSends ==
  /\ ~out.full /\ "kbd" \notin ctl.off
  /\ \E k \in IF kbdQ # <<>> THEN {kbdQ} ELSE Scancodes :
       /\ out' = [full |-> TRUE, src |-> "kbd", b |-> Head(k)]
       /\ kbdQ' = Tail(k)
  /\ keys' = IF kbdQ # <<>> THEN keys ELSE keys + 1
  /\ keys' <= MaxKeys
  /\ UNCHANGED <<inbuf, ctl, expects, auxQ, device, moves, pic, main, driver>>

\* So does the pointing device: an answer it owes, or a byte of movement, which may
\* have any value.
AuxSends ==
  /\ device # "none" /\ ~out.full /\ "aux" \notin ctl.off
  /\ \/ /\ auxQ # <<>>
        /\ out' = [full |-> TRUE, src |-> "aux", b |-> Head(auxQ)] /\ auxQ' = Tail(auxQ)
        /\ UNCHANGED moves
     \/ /\ moves < MaxMoves
        /\ out' = [full |-> TRUE, src |-> "aux", b |-> "arrow"] /\ moves' = moves + 1
        /\ UNCHANGED auxQ
  /\ UNCHANGED <<inbuf, ctl, expects, kbdQ, device, keys, pic, main, driver>>

-----------------------------------------------------------------------------
BringUp == Write \/ flush_output \/ Status \/ Take \/ keyboard_init \/ mouse_init
Handler == keyboard_irq_handler \/ WaitExtended \/ handle_extended
Hardware == Command \/ DataByte \/ KbdSends \/ AuxSends

Next == BringUp \/ keyboard_try_getchar \/ Handler \/ Hardware

Spec == Init /\ [][Next]_vars

\* The processor runs and takes interrupts; the hardware need not do anything.
FairSpec == Spec /\ WF_vars(BringUp) /\ WF_vars(Handler)

-----------------------------------------------------------------------------
(* Properties *)

TypeOK ==
  /\ inbuf.port \in {"none", "cmd", "data", "floating"} /\ inbuf.cfg \in Config
  /\ out.full \in BOOLEAN /\ out.src \in {"kbd", "aux", "ctl"}
  /\ ctl \in Config /\ cfg \in Config /\ expects \in {"none", "cfg", "aux"}
  /\ keys \in 0 .. MaxKeys /\ moves \in 0 .. MaxMoves
  /\ unmasked \subseteq {1, 12} /\ inService \subseteq {1}
  /\ pc \in DOMAIN Program /\ seen \in BOOLEAN
  /\ {port1_ok, port2_ok, present, shift_down} \subseteq BOOLEAN
  /\ irq \in {"none", "E0"} /\ put_idx \in 0 .. RingSize - 1 /\ get_idx \in 0 .. RingSize - 1
  /\ lost \in 0 .. MaxKeys

\* A byte the status port has shown is still there when it is read, and one that
\* ps2_aux_read takes is the pointing device's: no interrupt handler and no device
\* gets in between.
StatusStillTrue ==
  seen => out.full /\ (Program[pc].op = "aux" => out.src = "aux")

\* Where the bring-up ends.  The waits of wait_in_ready and wait_out_ready give up,
\* so that it reaches the idle loop whatever the controller and the devices leave
\* unanswered.  But ps2.c:7-8, "timeouts everywhere so a missing device can never
\* hang the boot", is not kept in two places: without a controller it stays in
\* flush_output, and the handler may wait for the second byte of an extended key.
BringUpEnds ==
  <>[](IF device = "absent" THEN Program[pc].op = "flush" ELSE pc = Idle \/ irq = "E0")

\* A byte of the keyboard that raises its interrupt is taken, however many have
\* been before it.
KeyServed ==
  (out.full /\ out.src = "kbd" /\ "kbd" \in ctl.irq /\ 1 \in unmasked) ~> ~out.full
=============================================================================
