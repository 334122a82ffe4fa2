---------------------------- MODULE BootRecovery ----------------------------
(***************************************************************************)
(* What a panic leaves for the next boots: lib/panic.c stamps two bytes of   *)
(* CMOS, resets the machine, and GRUB starts the standard kernel             *)
(* (init/boot_flow.c), its version screen (init/main.c) or the Secure Kernel *)
(* (secure/secure_boot.c).  Only the CMOS bytes outlive a reset.             *)
(*                                                                         *)
(* Each cmos_write is a step: an exception or a power cut can fall between   *)
(* any two, in the kernels, in panic itself and in kernel_reboot.  Bring-up  *)
(* is one step that may leave the 8042 with a byte to take; the hangs it may *)
(* run into are not here, the one of kernel_reboot is.                      *)
(***************************************************************************)
EXTENDS Naturals

CONSTANTS
  Choices,      \* the entries an operator picks before GRUB's timeout
  MaxFaults,    \* bound: exceptions
  MaxCuts       \* bound: power cuts

PANIC_MAGIC == 79
CmosBytes == {0, 1, PANIC_MAGIC, 255}
Entries == {"standard", "version", "secure"}

ASSUME BoundAssumption ==
  /\ Choices \subseteq Entries
  /\ MaxFaults \in Nat /\ MaxCuts \in Nat

VARIABLES
  magic, code,    \* CMOS 0x3A and 0x3B
  stage,          \* what the machine executes
  then,           \* the menu's case r reboots after clearing, case c does not
  kbc,            \* the 8042: its input buffer empty or full, or no 8042 at all
  owed,           \* history: a panic was stamped and no boot has reported it
  faults, cuts    \* exceptions and power cuts so far

cmos == <<magic, code>>
bootVars == <<cmos, stage, then, kbc, owed, faults, cuts>>

\* The CMOS of a new machine holds anything but, by chance, the stamp.  A machine
\* without an 8042 has a status port that reads 0xFF.
BootInit ==
  /\ magic \in CmosBytes \ {PANIC_MAGIC} /\ code \in CmosBytes
  /\ stage = "grub" /\ then = "none"
  /\ kbc \in {"empty", "absent"}
  /\ owed = FALSE /\ faults = 0 /\ cuts = 0

\* A step that only moves on.
MoveOn(from, to) ==
  /\ stage = from /\ stage' = to
  /\ UNCHANGED <<cmos, then, kbc, owed, faults, cuts>>

----------------------------------------------------------------------------

\* grub.cfg.in: set default=0, set timeout=5.
GrubTimeout == MoveOn("grub", "standard")

GrubChoice == \E e \in Choices : MoveOn("grub", e)

\* Mutant: the flag is cleared before it is looked at.
BringUpClears == MoveOn("standard", "clear_magic")

\* The drivers of the bring-up write to the 8042.
WriteKbc ==
  /\ stage = "standard" /\ kbc = "empty"
  /\ kbc' = "full"
  /\ UNCHANGED <<cmos, stage, then, owed, faults, cuts>>

\* standard_boot up to the report.
StandardBringUp == MoveOn("standard", "report")

\* cmos_last_boot_panicked and what the kernels print of it.
Report(from, to) ==
  /\ stage = from /\ stage' = to
  /\ owed' = (owed /\ magic # PANIC_MAGIC)
  /\ UNCHANGED <<cmos, then, kbc, faults, cuts>>

StandardReport == Report("report", "clear_magic")
SecureReport == Report("secure", "menu")

\* cmos_clear_panic_flag, called by standard_boot and by the menu.
ClearMagic ==
  /\ stage = "clear_magic" /\ stage' = "clear_code"
  /\ magic' = 0
  /\ UNCHANGED <<code, then, kbc, owed, faults, cuts>>

ClearCode ==
  /\ stage = "clear_code"
  /\ code' = 0
  /\ stage' = [none |-> "idle", c |-> "menu", r |-> "reboot"][then]
  /\ then' = "none"
  /\ UNCHANGED <<magic, kbc, owed, faults, cuts>>

\* secure_main: keys r and c clear the flag; d, m and h change nothing here.
Menu(key) ==
  /\ stage = "menu" /\ stage' = "clear_magic"
  /\ then' = key
  /\ UNCHANGED <<cmos, kbc, owed, faults, cuts>>

\* idle_loop: ESC reboots.  version_screen waits for a key as well, but nothing has
\* set up the keyboard before it: no key is ever seen there.
Escape == MoveOn("idle", "reboot")

----------------------------------------------------------------------------
Kernels == {"standard", "report", "clear_magic", "clear_code", "idle", "version",
            "secure", "menu"}

\* The stages of panic and what it ends with.
Panicking == {"stamp_magic", "stamp_code", "screen", "reboot"}

\* A CPU exception, a failed heap_init or a smashed stack: panic() is entered, from
\* the start also when the machine is in panic already.
Exception ==
  /\ stage \in Kernels \cup Panicking
  /\ faults < MaxFaults
  /\ stage' = "stamp_magic" /\ then' = "none" /\ faults' = faults + 1
  /\ UNCHANGED <<cmos, kbc, owed, cuts>>

\* Mutant: the reason is not written.
StampCodeOmitted == MoveOn("stamp_code", "screen")

StampMagic ==
  /\ stage = "stamp_magic" /\ stage' = "stamp_code"
  /\ magic' = PANIC_MAGIC /\ owed' = TRUE
  /\ UNCHANGED <<code, then, kbc, faults, cuts>>

StampCode ==
  /\ stage = "stamp_code" /\ stage' = "screen"
  /\ code' = 1
  /\ UNCHANGED <<magic, then, kbc, owed, faults, cuts>>

\* Mutant: panic halts instead of resetting.
CountdownHalts == MoveOn("screen", "halted")

\* The blue screen and the countdown.
Countdown == MoveOn("screen", "reboot")

\* The machine starts again.
Reset == stage' = "grub" /\ kbc' = IF kbc = "absent" THEN kbc ELSE "empty"

\* The loop on the status of the 8042 has no bound: only when the input buffer is
\* seen empty is the reset line pulsed.
kernel_reboot ==
  /\ stage = "reboot" /\ kbc = "empty"
  /\ Reset
  /\ UNCHANGED <<cmos, then, owed, faults, cuts>>

\* The 8042 takes the byte in its input buffer.
KbcTakes ==
  /\ kbc = "full" /\ kbc' = "empty"
  /\ UNCHANGED <<cmos, stage, then, owed, faults, cuts>>

PowerCut ==
  /\ stage # "grub" /\ cuts < MaxCuts
  /\ Reset /\ then' = "none" /\ cuts' = cuts + 1
  /\ UNCHANGED <<cmos, owed, faults>>

----------------------------------------------------------------------------
Machine ==
  \/ GrubTimeout \/ StandardBringUp \/ StandardReport \/ SecureReport
  \/ ClearMagic \/ ClearCode
  \/ StampMagic \/ StampCode \/ Countdown \/ kernel_reboot

BootNext ==
  \/ Machine
  \/ GrubChoice
  \/ \E key \in {"r", "c"} : Menu(key)
  \/ Escape
  \/ WriteKbc \/ KbcTakes
  \/ Exception \/ PowerCut

BootSpec == BootInit /\ [][BootNext]_bootVars

\* The machine runs and an 8042 takes what was written to it; nothing is assumed of
\* the operator.
FairBootSpec == BootSpec /\ WF_bootVars(Machine) /\ WF_bootVars(KbcTakes)

----------------------------------------------------------------------------
(* Properties *)

BootTypeOK ==
  /\ magic \in CmosBytes /\ code \in CmosBytes
  /\ stage \in Kernels \cup Panicking \cup {"grub"}
  /\ then \in {"none", "r", "c"} /\ kbc \in {"empty", "full", "absent"}
  /\ owed \in BOOLEAN
  /\ faults \in 0 .. MaxFaults /\ cuts \in 0 .. MaxCuts

\* A stamped panic stays in CMOS until a boot has reported it, whatever resets,
\* power cuts and further panics come in between (README:81).
StampKept == owed => magic = PANIC_MAGIC

\* Until the power has failed, a stamp in CMOS comes with its reason code (panic.c:48)
\* once panic has got past its two writes, wherever further panics strike: one that
\* strikes between the writes leaves an old code behind, but writes both again
\* before any boot can see it.  A cut there leaves the stamp with an old code.
ReasonRecorded ==
  cuts = 0 /\ magic = PANIC_MAGIC /\ stage \notin {"stamp_magic", "stamp_code"} => code = 1

=============================================================================
