-------------------------------- MODULE Cpu ---------------------------------
(***************************************************************************)
(* spim's run loop (run_spim in CPU/run.c), with exceptions, interrupts,   *)
(* delay slots and the memory-mapped console (CPU/mem.c).  The program is  *)
(* arbitrary: each address of its text holds some instruction, chosen when *)
(* it is executed, and only what an instruction does to the flow of        *)
(* control and to the devices is kept.                                     *)
(***************************************************************************)
EXTENDS Integers, Sequences

CONSTANTS
    UserText, KernelText,   \* the addresses of instructions, in words
    Vector,                 \* EXCEPTION_ADDR
    Modes,                  \* the settings tried, each [delayed, mapped]
    Masks,                  \* the interrupt masks the program writes
    Interval,               \* IO_INTERVAL
    Latency,                \* TRANS_LATENCY and RECV_INTERVAL
    Forever,                \* DEFAULT_RUN_STEPS, which is never used up
    SlotFaults,             \* programs may fault, or be interrupted, in a delay slot
    Aborts                  \* where, besides between two instructions, a program may
                            \* stop with an error: in a "slot", "over" a breakpoint

Text == UserText \cup KernelText
Levels == {"recv", "trans", "timer"}

ASSUME CpuAssumption ==
    /\ UserText \subseteq Nat /\ KernelText \subseteq Nat /\ 0 \in UserText /\ Vector \in KernelText
    /\ \A u \in UserText, k \in KernelText : u < k
    /\ Modes \subseteq [delayed : BOOLEAN, mapped : BOOLEAN]
    /\ Interval \in Nat \ {0} /\ Latency \in Nat /\ Forever \in Nat

VARIABLES
    mode,           \* [delayed, mapped]: delayed_branches and mapped_io
    text,           \* what is at each address: "inst", "break" or "none"
    pc,             \* PC
    slots,          \* the targets of the jumps whose slots run, outermost first:
                    \* the nested calls of run_spim
    inSlot,         \* running_in_delay_slot
    cp0,            \* [ie, exl, ip, im, epc] of CP0_Status, CP0_Cause and CP0_EPC
    recv, trans,    \* the two devices, each [ready, enable, timer]
    phase,          \* where run_spim is: before the check for interrupts ("poll")
                    \* or an instruction ("exec"), or how it ended
    steps, left     \* steps_to_run, and the steps before the next check

cpuVars == <<mode, text, pc, slots, inSlot, cp0, recv, trans, phase, steps, left>>

Device(ready) == [ready |-> ready, enable |-> FALSE, timer |-> 0]

\* initialize_registers
InitCp0 == [ie |-> FALSE, exl |-> FALSE, ip |-> {}, im |-> Levels, epc |-> 0]
CpuInit ==
    /\ mode \in Modes
    /\ text = [a \in Text \cup {t + 1 : t \in Text} |-> IF a \in Text THEN "inst" ELSE "none"]
    /\ pc = 0 /\ slots = <<>> /\ inSlot = FALSE /\ cp0 = InitCp0
    /\ recv = Device(FALSE) /\ trans = Device(TRUE)
    /\ phase = "done" /\ steps = 0 /\ left = 0

Raise(ip, level, p) == IF p THEN ip \cup {level} ELSE ip

\* Fault: every instruction is taken to be in a slot.
EpcOfJump(c, a) == IF c.exl THEN c.epc ELSE a - 1
\* raise_exception, from an instruction at a.
Epc(c, a) == IF c.exl THEN c.epc ELSE IF inSlot THEN a - 1 ELSE a
Excepted(c, a) == [c EXCEPT !.epc = Epc(c, a), !.exl = TRUE]

Ready(c) == c.ie /\ ~c.exl /\ c.ip \cap c.im # {}

\* Fault: a check is only made once.
StepSizeAll(n) == n
\* How long run_spim goes on without looking: next_step.
StepSize(n) == IF mode.mapped /\ n > Interval THEN Interval ELSE n

\* Entering run_spim for n steps at a.
Enter(a, n) ==
    /\ pc' = a /\ steps' = n /\ left' = 0
    /\ phase' = IF n = 0 THEN "done" ELSE "poll"

---------------------------------------------------------------------------
(* The devices.                                                            *)

\* Fault: only the timer of a device that is ready runs.
CheckedReady(dev, fires) ==
    IF dev.timer > 0 /\ dev.ready THEN [dev EXCEPT !.timer = @ - 1]
    ELSE IF dev.timer = 0 /\ fires THEN [dev EXCEPT !.ready = TRUE] ELSE dev
\* check_memory_mapped_IO for one device; fires says whether it has a
\* character (receiver) or has become free (transmitter).
Checked(dev, fires) ==
    IF dev.timer > 0 THEN [dev EXCEPT !.timer = @ - 1]
    ELSE IF fires THEN [dev EXCEPT !.ready = TRUE] ELSE dev
\* Fault: the request is raised although the program has not asked for it.
RequestsAlways(dev, fires) == dev.timer = 0 /\ fires
Requests(dev, fires) == dev.timer = 0 /\ fires /\ dev.enable

\* The receiver's timer starts with a character, the transmitter's when it is
\* written to.
Received(dev, fires) ==
    LET d == Checked(dev, fires) IN
    IF dev.timer = 0 /\ fires THEN [d EXCEPT !.timer = Latency] ELSE d

\* check_memory_mapped_IO requests interrupts.
Requested(input) ==
    IF ~mode.mapped THEN cp0.ip
    ELSE Raise(Raise(cp0.ip, "recv", Requests(recv, input)), "trans", Requests(trans, ~trans.ready))

\* The head of run_spim's outer loop, also of a nested call: input says whether
\* a character is waiting.  An interrupt is handled before the instruction.
Poll(input) ==
    /\ phase = "poll"
    /\ recv' = IF mode.mapped THEN Received(recv, input) ELSE recv
    /\ trans' = IF mode.mapped THEN Checked(trans, ~trans.ready) ELSE trans
    /\ LET c == [cp0 EXCEPT !.ip = Requested(input)] IN
       /\ cp0' = IF Ready(c) THEN Excepted(c, pc) ELSE c
       /\ pc' = IF Ready(c) THEN Vector ELSE pc
    /\ left' = IF slots = <<>> THEN StepSize(steps) ELSE left
    /\ phase' = "exec"
    /\ UNCHANGED <<mode, text, slots, inSlot, steps>>

---------------------------------------------------------------------------
(* Instructions.                                                           *)

Less(n) == IF n = Forever THEN Forever ELSE n - 1

\* The step of the outermost run_spim ends; the next instruction is at a.
EndStep(a) ==
    /\ pc' = a /\ slots' = <<>>
    /\ inSlot' = IF slots = <<>> THEN inSlot ELSE FALSE
    /\ steps' = Less(steps) /\ left' = Less(left)
    /\ phase' = IF steps = 1 THEN "done" ELSE IF left = 1 THEN "poll" ELSE "exec"

\* An instruction is at its end, and with it those whose slot it is in: control
\* goes to a, or to the target of the outermost jump.
Complete(a) == EndStep(IF slots = <<>> THEN a ELSE slots[1])

\* bump_CP0_timer may find Count equal to Compare before any instruction.
Ticked(tick) == [cp0 EXCEPT !.ip = Raise(@, "timer", tick)]

Fetch == phase = "exec" /\ text[pc] = "inst" /\ UNCHANGED <<mode, text>>
InKernel == pc \in KernelText

Plain(tick) == Fetch /\ Complete(pc + 1) /\ cp0' = Ticked(tick) /\ UNCHANGED <<recv, trans>>

\* A branch-likely that does not branch skips its slot.  (It skips an instruction
\* without delayed branches too, where there is no slot: programs for that
\* setting have none.)
Nullify ==
    /\ Fetch /\ mode.delayed /\ slots = <<>> /\ pc + 2 \in DOMAIN text
    /\ Complete(pc + 2) /\ UNCHANGED <<cp0, recv, trans>>

\* JUMP_INST.  What a jump in a delay slot does is left undefined by MIPS.
Slot(t) ==
    /\ slots = <<>>
    /\ SlotFaults \/ (pc + 1 \in Text /\ text[pc + 1] = "inst")
    /\ slots' = <<t>> /\ inSlot' = TRUE /\ pc' = pc + 1 /\ phase' = "poll"
    /\ UNCHANGED <<steps, left>>
\* Fault: the branch is taken at once.
JumpNow(t) == Complete(t)
JumpTo(t) == IF mode.delayed THEN Slot(t) ELSE Complete(t)
Jump(t, tick) ==
    /\ Fetch /\ t \in (IF InKernel THEN KernelText ELSE UserText)
    /\ JumpTo(t) /\ cp0' = Ticked(tick) /\ UNCHANGED <<recv, trans>>

\* RAISE_EXCEPTION and handle_exception: overflow, trap, bad address, the
\* program's own BREAK.
Fault(tick) ==
    /\ Fetch /\ (slots = <<>> \/ SlotFaults)
    /\ Complete(Vector) /\ cp0' = Excepted(Ticked(tick), pc)
    /\ UNCHANGED <<recv, trans>>

\* ERET, in a handler: with delayed branches it has a slot like any jump.
Eret ==
    /\ Fetch /\ InKernel /\ cp0.exl
    /\ JumpTo(cp0.epc) /\ cp0' = [cp0 EXCEPT !.exl = FALSE] /\ UNCHANGED <<recv, trans>>

\* MTC0 to Status, writing back EXL as it is.
WriteStatus(on, mask) ==
    /\ Fetch /\ (~on \/ ~mode.delayed \/ SlotFaults)
    /\ Complete(pc + 1) /\ cp0' = [cp0 EXCEPT !.ie = on, !.im = mask]
    /\ UNCHANGED <<recv, trans>>

\* MTC0 to Compare.
WriteCompare ==
    Fetch /\ Complete(pc + 1) /\ cp0' = [cp0 EXCEPT !.ip = @ \ {"timer"}] /\ UNCHANGED <<recv, trans>>

Mapped == Fetch /\ mode.mapped /\ Complete(pc + 1)

\* write_memory_mapped_IO to a control register.
WriteControl(level, dev, on) ==
    cp0' = [cp0 EXCEPT !.ip = IF on THEN Raise(@, level, dev.ready) ELSE @ \ {level}]
WriteTransControl(on) ==
    /\ Mapped /\ WriteControl("trans", trans, on)
    /\ trans' = [trans EXCEPT !.enable = on] /\ UNCHANGED recv
WriteRecvControl(on) ==
    /\ Mapped /\ WriteControl("recv", recv, on)
    /\ recv' = [recv EXCEPT !.enable = on] /\ UNCHANGED trans

\* Fault: the request stays when the device gets busy.
BusyRequesting(ip) == ip
NotRequesting(ip) == ip \ {"trans"}
\* A character for the transmitter, ignored when it is busy.
WriteTransBuffer ==
    /\ Mapped /\ UNCHANGED recv
    /\ IF trans.ready
       THEN /\ trans' = [trans EXCEPT !.ready = FALSE, !.timer = Latency]
            /\ cp0' = [cp0 EXCEPT !.ip = NotRequesting(@)]
       ELSE UNCHANGED <<trans, cp0>>
ReadRecvBuffer ==
    /\ Mapped /\ UNCHANGED trans
    /\ recv' = [recv EXCEPT !.ready = FALSE, !.timer = 0]
    /\ cp0' = [cp0 EXCEPT !.ip = @ \ {"recv"}]

\* The debugger's break_inst: run_spim returns at once, PC still at it.  In a
\* slot the calling run_spim goes on as for any exception.
Break ==
    /\ phase = "exec" /\ text[pc] = "break" /\ cp0' = Excepted(cp0, pc)
    /\ IF slots = <<>>
       THEN phase' = "break" /\ UNCHANGED <<pc, slots, inSlot, steps, left>>
       ELSE EndStep(Vector)
    /\ UNCHANGED <<mode, text, recv, trans>>

\* run_error (no instruction is there, an unknown system call) and control-C:
\* longjmp to the prompt, out of every run_spim.
Abort ==
    /\ phase \in {"poll", "exec"} /\ (slots = <<>> \/ "slot" \in Aborts)
    /\ phase' = "error" /\ slots' = <<>>
    /\ UNCHANGED <<mode, text, pc, inSlot, cp0, recv, trans, steps, left>>

Execute ==
    \/ \E tick \in BOOLEAN : Plain(tick) \/ Fault(tick) \/ \E t \in Text : Jump(t, tick)
    \/ Nullify \/ Eret \/ WriteCompare \/ WriteTransBuffer \/ ReadRecvBuffer \/ Break
    \/ \E on \in BOOLEAN : \/ WriteTransControl(on) \/ WriteRecvControl(on)
                           \/ \E mask \in Masks : WriteStatus(on, mask)

RunLoop == Execute \/ \E input \in BOOLEAN : Poll(input)
=============================================================================
