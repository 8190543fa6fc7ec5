------------------------------ MODULE Debugger ------------------------------
(***************************************************************************)
(* spim's prompt (parse_spim_command in spim/spim.c) over the run loop:    *)
(* run, continue, step, breakpoint, delete and reinitialize, and           *)
(* run_program, which steps over a breakpoint by taking it away for one    *)
(* instruction (CPU/spim-utils.c).                                         *)
(***************************************************************************)
EXTENDS Cpu

CONSTANTS
    BreakAddrs,     \* where the user sets breakpoints
    StepCounts      \* the numbers of steps the user asks for

ASSUME UserAssumption == BreakAddrs \subseteq UserText

Nowhere == -1

VARIABLES
    bkpts,      \* bkpts: address -> the instruction that was there
    over,       \* the breakpoint run_program has taken away, or Nowhere
    after,      \* the steps to go on with behind it
    wanted,     \* ghost: the breakpoints the user has set and not deleted
    reused      \* ghost: reinitialize was given after a program had run

vars == <<cpuVars, bkpts, over, after, wanted, reused>>

Init ==
    /\ CpuInit
    /\ bkpts = [a \in {} |-> "inst"] /\ over = Nowhere /\ after = 0
    /\ wanted = {} /\ reused = FALSE

Prompt == phase \in {"done", "error"} /\ over = Nowhere
devices == <<recv, trans>>

\* add_breakpoint: set_breakpoint returns NULL where one is already.
Added(b, a) == [x \in DOMAIN b \cup {a} |-> IF x = a THEN text[a] ELSE b[x]]
AddBreakpoint(a) ==
    IF text[a] = "break" THEN UNCHANGED <<text, bkpts>>
    ELSE bkpts' = Added(bkpts, a) /\ text' = [text EXCEPT ![a] = "break"]

\* Fault: the record goes, the instruction stays.
DeleteRecord(a) == bkpts' = [x \in DOMAIN bkpts \ {a} |-> bkpts[x]] /\ UNCHANGED text
\* delete_breakpoint
DeleteBreakpoint(a) ==
    IF a \in DOMAIN bkpts
    THEN /\ text' = [text EXCEPT ![a] = bkpts[a]]
         /\ bkpts' = [x \in DOMAIN bkpts \ {a} |-> bkpts[x]]
    ELSE UNCHANGED <<text, bkpts>>

---------------------------------------------------------------------------
(* Commands.                                                               *)

SetBreakpoint(a) ==
    /\ Prompt /\ AddBreakpoint(a) /\ wanted' = wanted \cup {a}
    /\ UNCHANGED <<mode, pc, slots, inSlot, cp0, devices, phase, steps, left, over, after, reused>>
Delete(a) ==
    /\ Prompt /\ DeleteBreakpoint(a) /\ wanted' = wanted \ {a}
    /\ UNCHANGED <<mode, pc, slots, inSlot, cp0, devices, phase, steps, left, over, after, reused>>

\* run_program with cont_bkpt for n steps at a: over a breakpoint first.
RunProgram(a, n) ==
    /\ IF text[a] = "break"
       THEN DeleteBreakpoint(a) /\ over' = a /\ after' = Less(n) /\ Enter(a, 1)
       ELSE Enter(a, n) /\ UNCHANGED <<text, bkpts, over, after>>
    /\ UNCHANGED <<mode, slots, inSlot, cp0, devices, wanted, reused>>

\* EXL survives an error in the exception handler: the user starts again only
\* what stopped elsewhere.
Run(a) ==
    /\ Prompt /\ ~cp0.exl /\ Enter(a, Forever)
    /\ UNCHANGED <<mode, text, slots, inSlot, cp0, devices, bkpts, over, after, wanted, reused>>
Continue == Prompt /\ RunProgram(pc, Forever)
StepCommand == Prompt /\ \E n \in StepCounts : RunProgram(pc, n)

\* Fault: with nothing left to run it is not put back.
PutBackToRun ==
    /\ phase = "done" /\ over # Nowhere
    /\ IF after = 0 THEN UNCHANGED <<text, bkpts>> ELSE AddBreakpoint(over)
    /\ over' = Nowhere /\ after' = 0 /\ Enter(pc, after)
    /\ UNCHANGED <<mode, slots, inSlot, cp0, devices, wanted, reused>>
\* run_spim has returned from the instruction at the breakpoint: it is put back
\* and the rest of the steps taken.
PutBack ==
    /\ phase = "done" /\ over # Nowhere
    /\ AddBreakpoint(over) /\ over' = Nowhere /\ after' = 0
    /\ Enter(pc, after)
    /\ UNCHANGED <<mode, slots, inSlot, cp0, devices, wanted, reused>>

\* run_program after a breakpoint: EXL off.
Encountered ==
    /\ phase = "break" /\ phase' = "done" /\ cp0' = [cp0 EXCEPT !.exl = FALSE]
    /\ UNCHANGED <<mode, text, pc, slots, inSlot, devices, steps, left, bkpts, over, after,
                   wanted, reused>>

\* reinitialize: memory and registers are new, breakpoints gone.  The devices
\* and running_in_delay_slot keep their state.
Reinitialize ==
    /\ Prompt
    /\ text' = [a \in DOMAIN text |-> IF a \in Text THEN "inst" ELSE "none"]
    /\ pc' = 0 /\ cp0' = InitCp0 /\ bkpts' = [a \in {} |-> "inst"]
    /\ wanted' = {} /\ reused' = TRUE /\ phase' = "done"
    /\ UNCHANGED <<mode, slots, inSlot, devices, steps, left, over, after>>

Command ==
    \/ \E a \in BreakAddrs : SetBreakpoint(a) \/ Delete(a)
    \/ \E a \in UserText : Run(a)
    \/ Continue \/ StepCommand \/ Reinitialize

Stopped ==
    /\ Abort /\ (over = Nowhere \/ "over" \in Aborts)
    /\ over' = Nowhere /\ UNCHANGED <<bkpts, after, wanted, reused>>

Stay == UNCHANGED <<bkpts, over, after, wanted, reused>>
Next ==
    \/ Command \/ PutBack \/ Encountered \/ Stopped
    \/ RunLoop /\ Stay

\* A program that runs goes on running, run_spim being a loop, and ends with an
\* error where no instruction is.  Nothing is assumed of the user, of the input
\* or of the timer.
Fairness == WF_vars((RunLoop /\ Stay) \/ (text[pc] = "none" /\ Stopped))
Spec == Init /\ [][Next]_vars /\ Fairness

---------------------------------------------------------------------------

TypeOK ==
    /\ mode \in Modes /\ pc \in DOMAIN text /\ cp0.epc \in DOMAIN text /\ Len(slots) <= 1
    /\ cp0.ie \in BOOLEAN /\ cp0.exl \in BOOLEAN /\ cp0.ip \subseteq Levels
    /\ \A d \in {recv, trans} : d.ready \in BOOLEAN /\ d.timer \in 0 .. Latency
    /\ phase \in {"poll", "exec", "done", "break", "error"}
    /\ over \in BreakAddrs \cup {Nowhere}

\* A device asks for an interrupt exactly when it is ready and the program has
\* enabled it, whatever the order of enabling, reading, writing and checking:
\* the handler is neither entered for nothing nor left out.
RequestsMatchDevices ==
    ~reused =>
       /\ ("recv" \in cp0.ip) <=> (recv.ready /\ recv.enable)
       /\ ("trans" \in cp0.ip) <=> (trans.ready /\ trans.enable)

\* At the prompt the breakpoints in the text are the ones the user has set, and
\* deleting them brings back what was there, however often the program has
\* stepped over, stopped at or been interrupted on one.
BreakpointsKept ==
    Prompt =>
       /\ \A a \in DOMAIN text : text[a] = "break" <=> a \in wanted
       /\ DOMAIN bkpts = wanted /\ \A a \in DOMAIN bkpts : bkpts[a] # "break"

\* With memory-mapped I/O an interrupt that is pending and enabled does not wait
\* for ever while the program runs: its handler is entered, or the program
\* disables or withdraws it.  (Without, run_spim looks only once.)
Running == phase \in {"poll", "exec"}
InterruptsTaken ==
    mode.mapped /\ ~mode.delayed =>
       (Running /\ Ready(cp0) ~> ~Running \/ ~Ready(cp0))

\* A busy transmitter gets ready while the program runs.
TransmitterFrees == mode.mapped => (Running /\ ~trans.ready ~> ~Running \/ trans.ready)

Handling == cp0.exl /\ phase # "break"
M == INSTANCE Mips WITH
        delayed <- mode.delayed, npc <- IF slots = <<>> THEN pc + 1 ELSE slots[1],
        slot <- slots # <<>>, exl <- Handling, epc <- IF Handling THEN cp0.epc ELSE Nowhere,
        stopped <- ~Running

\* The run loop follows the architecture: nested calls for delay slots, checks
\* between intervals and breakpoints stepped over never skip, repeat or reorder
\* an instruction, and every handler returns to where it was called from.
ImplementsMips == M!MipsSpec
=============================================================================
