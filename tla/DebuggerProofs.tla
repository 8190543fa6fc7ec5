---------------------------- MODULE DebuggerProofs ----------------------------
(***************************************************************************)
(* Proofs about Debugger: for any program, interval, latency, masks and    *)
(* breakpoints.                                                            *)
(***************************************************************************)
EXTENDS Debugger, TLAPS

-----------------------------------------------------------------------------
(* The shape of a machine *)

Addrs == Text \cup {t + 1 : t \in Text}
Cp0s == [ie : BOOLEAN, exl : BOOLEAN, ip : SUBSET Levels, im : Masks \cup {Levels}, epc : Int]
DeviceStates == [ready : BOOLEAN, enable : BOOLEAN, timer : 0 .. Latency]

\* What holds whatever the program does.
SlotsIn(S) == slots = <<>> \/ \E t \in S : slots = <<t>>
DevicesTyped == cp0 \in Cp0s /\ recv \in DeviceStates /\ trans \in DeviceStates
Typed == DevicesTyped /\ mode \in Modes /\ pc \in Int /\ SlotsIn(Int)

\* What holds when no error ends the program in a delay slot.
TextTyped ==
    /\ text \in [Addrs -> {"inst", "break", "none"}]
    /\ \A a \in Addrs : text[a] # "none" <=> a \in Text
FlowTyped ==
    /\ pc \in Addrs /\ cp0.epc \in Addrs /\ SlotsIn(Addrs)
    /\ phase \in {"poll", "exec", "done", "break", "error"}
    /\ over \in BreakAddrs \cup {Nowhere}
\* running_in_delay_slot says whether a nested run_spim runs, and the exception of
\* an instruction there finds the jump before it.
InSlot ==
    /\ inSlot <=> slots # <<>>
    /\ slots # <<>> => phase \in {"poll", "exec"} /\ (pc - 1 \in Text \/ cp0.exl)
\* Breakpoints are set where instructions are, and keep these.
BkptsTyped ==
    /\ DOMAIN bkpts \subseteq BreakAddrs /\ \A a \in DOMAIN bkpts : bkpts[a] = "inst"
    /\ \A a \in Addrs : text[a] = "break" => a \in BreakAddrs
Placed == Typed /\ TextTyped /\ BkptsTyped /\ FlowTyped /\ InSlot

LEMMA AddrShape ==
    /\ \A a \in Addrs : a \in Nat
    /\ \A t \in Text : t \in Addrs /\ t + 1 \in Addrs
    /\ 0 \in Addrs /\ 0 \in Text /\ Vector \in Addrs /\ Vector \in Text
    /\ \A a \in BreakAddrs : a \in Text /\ a \in UserText /\ a # Nowhere
BY CpuAssumption, UserAssumption DEF Addrs, Text, Nowhere

\* No instruction changes the text, and no step of the run loop the user's records.
LEMMA LoopKeepsText == RunLoop => UNCHANGED <<mode, text>>
BY DEF RunLoop, Execute, Poll, Plain, Fault, Jump, Nullify, Eret, WriteStatus, WriteCompare,
       WriteTransControl, WriteRecvControl, WriteTransBuffer, ReadRecvBuffer, Break, Mapped, Fetch

\* Where an instruction is, or a breakpoint, the text goes on.
LEMMA FetchShape ==
    ASSUME TextTyped, FlowTyped, Fetch \/ text[pc] = "break"
    PROVE  pc \in Text /\ pc + 1 \in Addrs
BY AddrShape DEF TextTyped, FlowTyped, Fetch

-----------------------------------------------------------------------------
(* The flow of control *)

LEMMA CompleteShape ==
    ASSUME NEW S, SlotsIn(S), NEW a \in S, Complete(a)
    PROVE  /\ pc' \in S /\ slots' = <<>> /\ phase' \in {"poll", "exec", "done"}
           /\ pc' = IF slots = <<>> THEN a ELSE slots[1]
           /\ inSlot' = IF slots = <<>> THEN inSlot ELSE FALSE
<1>1. slots # <<>> => slots[1] \in S
  BY DEF SlotsIn
<1>. QED BY <1>1 DEF Complete, EndStep

LEMMA JumpToShape ==
    ASSUME NEW S, SlotsIn(S), NEW t \in S, pc + 1 \in S, JumpTo(t)
    PROVE  /\ pc' \in S /\ SlotsIn(S)' /\ phase' \in {"poll", "exec", "done"}
           /\ \/ slots' = <<t>> /\ inSlot' = TRUE /\ pc' = pc + 1 /\ phase' = "poll"
              \/ slots' = <<>> /\ inSlot' = IF slots = <<>> THEN inSlot ELSE FALSE
<1>1. CASE Slot(t)
  BY <1>1 DEF Slot, SlotsIn
<1>2. CASE Complete(t)
  BY <1>2, CompleteShape DEF SlotsIn
<1>. QED BY <1>1, <1>2 DEF JumpTo

-----------------------------------------------------------------------------
(* Exceptions and devices *)

LEMMA ExceptedShape ==
    ASSUME NEW c \in Cp0s, NEW a \in Int
    PROVE  /\ Excepted(c, a) \in Cp0s
           /\ Excepted(c, a) = [c EXCEPT !.epc = Epc(c, a), !.exl = TRUE]
           /\ Excepted(c, a).ip = c.ip /\ Excepted(c, a).ie = c.ie /\ Excepted(c, a).exl
           /\ Excepted(c, a).epc = Epc(c, a) /\ Epc(c, a) \in Int
<1>1. Epc(c, a) \in Int
  BY DEF Epc, Cp0s
<1>. DEFINE e == Epc(c, a)
<1>. HIDE DEF e
<1>. QED BY <1>1 DEF e, Excepted, Cp0s

\* cp0 as it is after one of its operations.
LEMMA Cp0Shape ==
    ASSUME Typed
    PROVE  /\ cp0 \in Cp0s /\ \A tick \in BOOLEAN : Ticked(tick) \in Cp0s
           /\ \A tick \in BOOLEAN, a \in Int : Excepted(Ticked(tick), a) \in Cp0s
           /\ \A a \in Int : Excepted(cp0, a) \in Cp0s
           /\ \A b \in BOOLEAN : [cp0 EXCEPT !.exl = b] \in Cp0s
           /\ \A b \in BOOLEAN, m \in Masks : [cp0 EXCEPT !.ie = b, !.im = m] \in Cp0s
           /\ \A i \in SUBSET Levels : [cp0 EXCEPT !.ip = i] \in Cp0s
<1>. USE DEF Typed, DevicesTyped, Cp0s
<1>1. \A tick \in BOOLEAN : Ticked(tick) \in Cp0s
  BY DEF Ticked, Raise, Levels
<1>2. \A c \in Cp0s, a \in Int : Excepted(c, a) \in Cp0s
  BY ExceptedShape
<1>. QED BY <1>1, <1>2

LEMMA RaiseShape ==
    ASSUME NEW i \in SUBSET Levels, NEW l \in Levels, NEW p \in BOOLEAN
    PROVE  /\ Raise(i, l, p) \in SUBSET Levels
           /\ p => Raise(i, l, p) = i \cup {l}
           /\ ~p => Raise(i, l, p) = i
BY DEF Raise

\* cp0 before Poll looks for an interrupt.
Asked(input) == [cp0 EXCEPT !.ip = Requested(input)]

LEMMA AskedShape ==
    ASSUME Typed, NEW input \in BOOLEAN
    PROVE  /\ Asked(input) \in Cp0s
           /\ Asked(input).ie = cp0.ie /\ Asked(input).exl = cp0.exl /\ Asked(input).epc = cp0.epc
           /\ "recv" \in Asked(input).ip <=>
                 "recv" \in cp0.ip \/ (mode.mapped /\ Requests(recv, input))
           /\ "trans" \in Asked(input).ip <=>
                 "trans" \in cp0.ip \/ (mode.mapped /\ Requests(trans, ~trans.ready))
<1>. DEFINE r == Requests(recv, input)
            s == Requests(trans, ~trans.ready)
            i == Raise(cp0.ip, "recv", r)
            j == Raise(i, "trans", s)
<1>1. r \in BOOLEAN /\ s \in BOOLEAN
  BY DEF Requests
<1>2. cp0.ip \in SUBSET Levels /\ "recv" \in Levels /\ "trans" \in Levels
  BY DEF Typed, DevicesTyped, Cp0s, Levels
<1>3. Requested(input) = IF ~mode.mapped THEN cp0.ip ELSE j
  BY DEF Requested
<1>. HIDE DEF r, s
<1>4. i \in SUBSET Levels /\ (r => i = cp0.ip \cup {"recv"}) /\ (~r => i = cp0.ip)
  BY <1>1, <1>2, RaiseShape
<1>. HIDE DEF i
<1>5. j \in SUBSET Levels /\ (s => j = i \cup {"trans"}) /\ (~s => j = i)
  BY <1>1, <1>2, <1>4, RaiseShape
<1>. HIDE DEF j
<1>6. /\ Requested(input) \in SUBSET Levels
      /\ "recv" \in Requested(input) <=> "recv" \in cp0.ip \/ (mode.mapped /\ r)
      /\ "trans" \in Requested(input) <=> "trans" \in cp0.ip \/ (mode.mapped /\ s)
  BY <1>1, <1>2, <1>3, <1>4, <1>5
<1>7. /\ Asked(input) \in Cp0s /\ Asked(input).ip = Requested(input)
      /\ Asked(input).ie = cp0.ie /\ Asked(input).exl = cp0.exl /\ Asked(input).epc = cp0.epc
  BY <1>6 DEF Asked, Typed, DevicesTyped, Cp0s
<1>. QED BY <1>6, <1>7 DEF r, s

LEMMA CheckedShape ==
    ASSUME NEW d \in DeviceStates, NEW fires \in BOOLEAN
    PROVE  /\ Checked(d, fires) \in DeviceStates /\ Received(d, fires) \in DeviceStates
           /\ Checked(d, fires).enable = d.enable /\ Received(d, fires).enable = d.enable
           /\ Checked(d, fires).ready <=> (d.ready \/ (d.timer = 0 /\ fires))
           /\ Received(d, fires).ready <=> (d.ready \/ (d.timer = 0 /\ fires))
<1>1. /\ Checked(d, fires) \in DeviceStates
      /\ Checked(d, fires).enable = d.enable
      /\ Checked(d, fires).ready <=> (d.ready \/ (d.timer = 0 /\ fires))
  <2>1. CASE d.timer > 0
    BY <2>1, CpuAssumption DEF Checked, DeviceStates
  <2>2. CASE ~(d.timer > 0) /\ fires
    <3>1. d.timer = 0 /\ Checked(d, fires) = [d EXCEPT !.ready = TRUE]
      BY <2>2, CpuAssumption DEF Checked, DeviceStates
    <3>2. /\ [d EXCEPT !.ready = TRUE] \in DeviceStates
          /\ [d EXCEPT !.ready = TRUE].enable = d.enable /\ [d EXCEPT !.ready = TRUE].ready
      BY DEF DeviceStates
    <3>. QED BY <2>2, <3>1, <3>2
  <2>3. CASE ~(d.timer > 0) /\ ~fires
    BY <2>3, CpuAssumption DEF Checked, DeviceStates
  <2>. QED BY <2>1, <2>2, <2>3
<1>. DEFINE e == Checked(d, fires)
<1>. HIDE DEF e
<1>2. /\ Received(d, fires) = IF d.timer = 0 /\ fires THEN [e EXCEPT !.timer = Latency] ELSE e
      /\ e \in DeviceStates
  BY <1>1 DEF Received, e
<1>3. /\ Received(d, fires) \in DeviceStates
      /\ Received(d, fires).enable = e.enable /\ Received(d, fires).ready = e.ready
  BY <1>2, CpuAssumption DEF DeviceStates
<1>. QED BY <1>1, <1>3 DEF e

LEMMA PollShape ==
    ASSUME Typed, NEW input \in BOOLEAN, Poll(input)
    PROVE  /\ phase = "poll" /\ phase' = "exec" /\ UNCHANGED <<mode, text, slots, inSlot, steps>>
           /\ recv' = IF mode.mapped THEN Received(recv, input) ELSE recv
           /\ trans' = IF mode.mapped THEN Checked(trans, ~trans.ready) ELSE trans
           /\ cp0' = IF Ready(Asked(input)) THEN Excepted(Asked(input), pc) ELSE Asked(input)
           /\ pc' = IF Ready(Asked(input)) THEN Vector ELSE pc
           /\ cp0' \in Cp0s /\ cp0'.ip = Asked(input).ip /\ cp0'.ie = cp0.ie
           /\ recv' \in DeviceStates /\ trans' \in DeviceStates
<1>1. /\ cp0' = IF Ready(Asked(input)) THEN Excepted(Asked(input), pc) ELSE Asked(input)
      /\ pc' = IF Ready(Asked(input)) THEN Vector ELSE pc
  BY DEF Poll, Asked
<1>2. pc \in Int
  BY AddrShape DEF Typed, FlowTyped
<1>3. Received(recv, input) \in DeviceStates /\ Checked(trans, ~trans.ready) \in DeviceStates
  BY CheckedShape DEF Typed, DevicesTyped, DeviceStates
<1>4. /\ cp0' \in Cp0s /\ cp0'.ip = Asked(input).ip /\ cp0'.ie = cp0.ie
  BY <1>1, <1>2, AskedShape, ExceptedShape
<1>5. /\ phase = "poll" /\ phase' = "exec" /\ UNCHANGED <<mode, text, slots, inSlot, steps>>
      /\ recv' = IF mode.mapped THEN Received(recv, input) ELSE recv
      /\ trans' = IF mode.mapped THEN Checked(trans, ~trans.ready) ELSE trans
      /\ recv' \in DeviceStates /\ trans' \in DeviceStates
  BY <1>3 DEF Poll, Typed, DevicesTyped
<1>. QED BY <1>1, <1>2, <1>3, <1>4, <1>5

-----------------------------------------------------------------------------
(* What holds whatever the program does *)

LEMMA InitTyped == Init => Placed
<1>. SUFFICES ASSUME Init PROVE Placed
  OBVIOUS
<1>. USE DEF Init, CpuInit
<1>1. TextTyped
  BY AddrShape DEF TextTyped, Addrs
<1>2. Typed
  BY CpuAssumption DEF Typed, DevicesTyped, Cp0s, DeviceStates, InitCp0, Device, Levels, SlotsIn
<1>3. FlowTyped
  BY AddrShape DEF FlowTyped, Nowhere, InitCp0, SlotsIn
<1>4. BkptsTyped /\ InSlot
  BY AddrShape DEF BkptsTyped, InSlot, Addrs
<1>. QED BY <1>1, <1>2, <1>3, <1>4 DEF Placed

\* The devices ask for an interrupt when they are ready and enabled.
Matching ==
    /\ ("recv" \in cp0.ip) <=> (recv.ready /\ recv.enable)
    /\ ("trans" \in cp0.ip) <=> (trans.ready /\ trans.enable)

LEMMA PollMatches ==
    ASSUME Typed, NEW input \in BOOLEAN, Poll(input)
    PROVE  Typed' /\ (Matching => Matching')
<1>. USE PollShape
<1>1. Typed'
  BY CpuAssumption DEF Typed, DevicesTyped, SlotsIn
<1>2. Matching => Matching'
  BY AskedShape, CheckedShape DEF Matching, Requests, Typed, DevicesTyped, DeviceStates
<1>. QED BY <1>1, <1>2

\* Control stays among the addresses S.
LEMMA ExecuteStays ==
    ASSUME NEW S, Text \subseteq S, SlotsIn(S), pc \in S, cp0.epc \in S,
           text[pc] = "inst" => pc + 1 \in S, pc + 2 \in DOMAIN text => pc + 2 \in S,
           Execute
    PROVE  pc' \in S /\ SlotsIn(S)' /\ phase' \in {"poll", "exec", "done", "break"}
<1>. DEFINE Stays == pc' \in S /\ SlotsIn(S)' /\ phase' \in {"poll", "exec", "done", "break"}
<1>0. ASSUME NEW a \in S, Complete(a) PROVE Stays
  BY <1>0, CompleteShape DEF SlotsIn
<1>1. ASSUME NEW tick \in BOOLEAN, Plain(tick) \/ Fault(tick) PROVE Stays
  BY <1>0, <1>1, AddrShape DEF Plain, Fault, Fetch
<1>2. ASSUME NEW tick \in BOOLEAN, NEW t \in Text, Jump(t, tick) PROVE Stays
  BY <1>2, JumpToShape DEF Jump, Fetch
<1>3. ASSUME Nullify PROVE Stays
  BY <1>0, <1>3 DEF Nullify, Fetch
<1>4. ASSUME Eret PROVE Stays
  BY <1>4, JumpToShape DEF Eret, Fetch
<1>5. ASSUME NEW on \in BOOLEAN, NEW mask \in Masks, WriteStatus(on, mask) PROVE Stays
  BY <1>0, <1>5 DEF WriteStatus, Fetch
<1>6. ASSUME WriteCompare PROVE Stays
  BY <1>0, <1>6 DEF WriteCompare, Fetch
<1>7. ASSUME Mapped PROVE Stays
  BY <1>0, <1>7 DEF Mapped, Fetch
<1>8. ASSUME Break PROVE Stays
  <2>1. CASE slots = <<>>
    BY <1>8, <2>1 DEF Break, SlotsIn
  <2>2. CASE EndStep(Vector)
    BY <2>2, AddrShape DEF EndStep, SlotsIn
  <2>. QED BY <1>8, <2>1, <2>2 DEF Break
<1>. QED BY <1>1, <1>2, <1>3, <1>4, <1>5, <1>6, <1>7, <1>8
     DEF Execute, WriteTransControl, WriteRecvControl, WriteTransBuffer, ReadRecvBuffer

\* An instruction that does not touch the devices.
LEMMA Untouched ==
    ASSUME Typed, UNCHANGED <<recv, trans>>, cp0' \in Cp0s,
           \A l \in {"recv", "trans"} : l \in cp0'.ip <=> l \in cp0.ip
    PROVE  DevicesTyped' /\ (Matching => Matching')
BY DEF Typed, DevicesTyped, Matching

LEMMA TickedShape ==
    ASSUME Typed, NEW tick \in BOOLEAN
    PROVE  /\ Ticked(tick) \in Cp0s /\ Ticked(tick).ie = cp0.ie /\ Ticked(tick).exl = cp0.exl
           /\ Ticked(tick).epc = cp0.epc
           /\ \A l \in {"recv", "trans"} : l \in Ticked(tick).ip <=> l \in cp0.ip
<1>. DEFINE i == Raise(cp0.ip, "timer", tick)
<1>1. i \in SUBSET Levels /\ \A l \in {"recv", "trans"} : l \in i <=> l \in cp0.ip
  BY DEF Raise, Typed, DevicesTyped, Cp0s, Levels
<1>2. Ticked(tick) = [cp0 EXCEPT !.ip = i]
  BY DEF Ticked
<1>. HIDE DEF i
<1>. QED BY <1>1, <1>2 DEF Typed, DevicesTyped, Cp0s

LEMMA ControlShape ==
    ASSUME Typed, NEW l \in {"recv", "trans"}, NEW d \in DeviceStates, NEW on \in BOOLEAN,
           WriteControl(l, d, on)
    PROVE  /\ cp0' \in Cp0s
           /\ l \in cp0'.ip <=> on /\ (l \in cp0.ip \/ d.ready)
           /\ \A k \in {"recv", "trans"} \ {l} : k \in cp0'.ip <=> k \in cp0.ip
<1>. DEFINE i == IF on THEN Raise(cp0.ip, l, d.ready) ELSE cp0.ip \ {l}
<1>1. cp0.ip \in SUBSET Levels /\ l \in Levels /\ d.ready \in BOOLEAN
  BY DEF Typed, DevicesTyped, Cp0s, Levels, DeviceStates
<1>2. i \in SUBSET Levels
  BY <1>1, RaiseShape
<1>3. l \in i <=> on /\ (l \in cp0.ip \/ d.ready)
  BY <1>1, RaiseShape
<1>4. \A k \in {"recv", "trans"} \ {l} : k \in i <=> k \in cp0.ip
  BY <1>1, RaiseShape
<1>5. cp0' = [cp0 EXCEPT !.ip = i]
  BY DEF WriteControl
<1>. HIDE DEF i
<1>. QED BY <1>2, <1>3, <1>4, <1>5 DEF Typed, DevicesTyped, Cp0s

LEMMA TimerShape == 0 \in 0 .. Latency /\ Latency \in 0 .. Latency
BY CpuAssumption

LEMMA Silenced ==
    ASSUME NEW c \in Cp0s, NEW l, NEW d \in DeviceStates, NEW n \in 0 .. Latency
    PROVE  /\ [c EXCEPT !.ip = c.ip \ {l}] \in Cp0s /\ [c EXCEPT !.ip = c.ip \ {l}].ip = c.ip \ {l}
           /\ [d EXCEPT !.ready = FALSE, !.timer = n] \in DeviceStates
           /\ ~[d EXCEPT !.ready = FALSE, !.timer = n].ready
BY DEF Cp0s, DeviceStates

LEMMA ExecuteMatches ==
    ASSUME Typed, Execute
    PROVE  DevicesTyped' /\ (Matching => Matching')
<1>. DEFINE Kept == DevicesTyped' /\ (Matching => Matching')
<1>. USE Cp0Shape, Untouched
<1>1. ASSUME NEW tick \in BOOLEAN, Plain(tick) PROVE Kept
  BY <1>1, TickedShape DEF Plain
<1>2. ASSUME NEW tick \in BOOLEAN, Fault(tick) PROVE Kept
  BY <1>2, TickedShape, ExceptedShape DEF Fault, Typed
<1>3. ASSUME NEW tick \in BOOLEAN, NEW t \in Text, Jump(t, tick) PROVE Kept
  BY <1>3, TickedShape DEF Jump
<1>4. ASSUME Nullify PROVE Kept
  BY <1>4 DEF Nullify
<1>5. ASSUME Eret PROVE Kept
  BY <1>5 DEF Eret, Cp0s
<1>6. ASSUME NEW on \in BOOLEAN, NEW mask \in Masks, WriteStatus(on, mask) PROVE Kept
  BY <1>6 DEF WriteStatus, Cp0s
<1>7. ASSUME WriteCompare PROVE Kept
  BY <1>7 DEF WriteCompare, Cp0s
<1>8. ASSUME Break PROVE Kept
  BY <1>8, ExceptedShape DEF Break, Typed
<1>9. ASSUME NEW on \in BOOLEAN, WriteTransControl(on) PROVE Kept
  <2>1. cp0' \in Cp0s /\ trans' \in DeviceStates /\ trans'.ready = trans.ready /\ trans'.enable = on
    BY <1>9, ControlShape DEF WriteTransControl, Typed, DevicesTyped, DeviceStates
  <2>2. ("trans" \in cp0'.ip <=> on /\ ("trans" \in cp0.ip \/ trans.ready))
        /\ ("recv" \in cp0'.ip <=> "recv" \in cp0.ip)
    BY <1>9, ControlShape DEF WriteTransControl, Typed, DevicesTyped
  <2>. QED BY <1>9, <2>1, <2>2 DEF WriteTransControl, Typed, DevicesTyped, Matching
<1>10. ASSUME NEW on \in BOOLEAN, WriteRecvControl(on) PROVE Kept
  <2>1. cp0' \in Cp0s /\ recv' \in DeviceStates /\ recv'.ready = recv.ready /\ recv'.enable = on
    BY <1>10, ControlShape DEF WriteRecvControl, Typed, DevicesTyped, DeviceStates
  <2>2. ("recv" \in cp0'.ip <=> on /\ ("recv" \in cp0.ip \/ recv.ready))
        /\ ("trans" \in cp0'.ip <=> "trans" \in cp0.ip)
    BY <1>10, ControlShape DEF WriteRecvControl, Typed, DevicesTyped
  <2>. QED BY <1>10, <2>1, <2>2 DEF WriteRecvControl, Typed, DevicesTyped, Matching
<1>11. ASSUME WriteTransBuffer PROVE Kept
  <2>1. CASE ~trans.ready
    BY <1>11, <2>1 DEF WriteTransBuffer, Typed, DevicesTyped, Matching
  <2>2. CASE trans.ready
    <3>1. /\ cp0' \in Cp0s /\ cp0'.ip = cp0.ip \ {"trans"}
          /\ trans' \in DeviceStates /\ ~trans'.ready /\ recv' = recv
      <4>1. /\ trans' = [trans EXCEPT !.ready = FALSE, !.timer = Latency] /\ recv' = recv
            /\ cp0' = [cp0 EXCEPT !.ip = cp0.ip \ {"trans"}]
        BY <1>11, <2>2 DEF WriteTransBuffer, NotRequesting
      <4>2. trans \in DeviceStates /\ cp0 \in Cp0s
        BY DEF Typed, DevicesTyped
      <4>3. /\ [cp0 EXCEPT !.ip = cp0.ip \ {"trans"}] \in Cp0s
            /\ [cp0 EXCEPT !.ip = cp0.ip \ {"trans"}].ip = cp0.ip \ {"trans"}
            /\ [trans EXCEPT !.ready = FALSE, !.timer = Latency] \in DeviceStates
            /\ ~[trans EXCEPT !.ready = FALSE, !.timer = Latency].ready
        BY <4>2, Silenced, TimerShape
      <4>. QED BY <4>1, <4>3
    <3>. QED BY <3>1 DEF Typed, DevicesTyped, Matching
  <2>. QED BY <2>1, <2>2
<1>12. ASSUME ReadRecvBuffer PROVE Kept
  <2>1. /\ cp0' \in Cp0s /\ cp0'.ip = cp0.ip \ {"recv"}
        /\ recv' \in DeviceStates /\ ~recv'.ready /\ trans' = trans
    <3>1. /\ recv' = [recv EXCEPT !.ready = FALSE, !.timer = 0] /\ trans' = trans
          /\ cp0' = [cp0 EXCEPT !.ip = cp0.ip \ {"recv"}]
      BY <1>12 DEF ReadRecvBuffer
    <3>2. recv \in DeviceStates /\ cp0 \in Cp0s
      BY DEF Typed, DevicesTyped
    <3>3. /\ [cp0 EXCEPT !.ip = cp0.ip \ {"recv"}] \in Cp0s
          /\ [cp0 EXCEPT !.ip = cp0.ip \ {"recv"}].ip = cp0.ip \ {"recv"}
          /\ [recv EXCEPT !.ready = FALSE, !.timer = 0] \in DeviceStates
          /\ ~[recv EXCEPT !.ready = FALSE, !.timer = 0].ready
      BY <3>2, Silenced, TimerShape
    <3>. QED BY <3>1, <3>3
  <2>. QED BY <2>1 DEF Typed, DevicesTyped, Matching
<1>. QED BY <1>1, <1>2, <1>3, <1>4, <1>5, <1>6, <1>7, <1>8, <1>9, <1>10, <1>11, <1>12 DEF Execute

\* Requests match devices until spim is reinitialized after a run.
MatchInv == Typed /\ (~reused => Matching)

LEMMA CommandTyped ==
    ASSUME Typed, Command \/ PutBack \/ Encountered \/ Stopped
    PROVE  Typed' /\ (~reused' => ~reused /\ (Matching => Matching'))
<1>. DEFINE Kept == Typed' /\ (~reused' => ~reused /\ (Matching => Matching'))
<1>. USE DEF devices, Enter
<1>0. ASSUME UNCHANGED <<mode, slots, cp0, devices, reused>>, pc' \in Int PROVE Kept
  BY <1>0 DEF Typed, DevicesTyped, SlotsIn, Matching
<1>1. ASSUME NEW a \in BreakAddrs, SetBreakpoint(a) \/ Delete(a) PROVE Kept
  BY <1>0, <1>1 DEF SetBreakpoint, Delete, Typed
<1>2. ASSUME NEW a \in UserText, Run(a) PROVE Kept
  BY <1>0, <1>2, CpuAssumption DEF Run
<1>3. ASSUME Continue \/ StepCommand PROVE Kept
  BY <1>0, <1>3 DEF Continue, StepCommand, RunProgram, Typed
<1>4. ASSUME PutBack PROVE Kept
  BY <1>0, <1>4 DEF PutBack, Typed
<1>5. ASSUME Encountered PROVE Kept
  BY <1>5 DEF Encountered, Typed, DevicesTyped, Cp0s, SlotsIn, Matching
<1>6. ASSUME Reinitialize PROVE Kept
  BY <1>6 DEF Reinitialize, Typed, DevicesTyped, Cp0s, InitCp0, SlotsIn, Levels
<1>7. ASSUME Stopped PROVE Kept
  BY <1>7 DEF Stopped, Abort, Typed, DevicesTyped, SlotsIn, Matching
<1>. QED BY <1>1, <1>2, <1>3, <1>4, <1>5, <1>6, <1>7 DEF Command

LEMMA LoopTyped ==
    ASSUME Typed, RunLoop
    PROVE  Typed' /\ (Matching => Matching')
<1>1. ASSUME Execute PROVE Typed'
  <2>1. pc' \in Int /\ SlotsIn(Int)'
    <3>1. Text \subseteq Int /\ cp0.epc \in Int
      BY CpuAssumption DEF Text, Typed, DevicesTyped, Cp0s
    <3>. QED BY <1>1, <3>1, ExecuteStays DEF Typed
  <2>. QED BY <1>1, <2>1, ExecuteMatches, LoopKeepsText DEF Typed, RunLoop
<1>. QED BY <1>1, ExecuteMatches, PollMatches DEF RunLoop

LEMMA MatchInvStep == MatchInv /\ [Next]_vars => MatchInv'
<1>. SUFFICES ASSUME MatchInv, [Next]_vars PROVE MatchInv'
  OBVIOUS
<1>1. CASE RunLoop /\ Stay
  BY <1>1, LoopTyped DEF MatchInv, Stay
<1>2. CASE Command \/ PutBack \/ Encountered \/ Stopped
  BY <1>2, CommandTyped DEF MatchInv
<1>3. CASE UNCHANGED vars
  BY <1>3 DEF vars, cpuVars, MatchInv, Matching, Typed, DevicesTyped, SlotsIn
<1>. QED BY <1>1, <1>2, <1>3 DEF Next

LEMMA InitMatches == Init => MatchInv
BY InitTyped DEF Init, CpuInit, MatchInv, Placed, Matching, Device, InitCp0

\* A device asks for an interrupt exactly when it is ready and enabled, whatever
\* the program, the user and the input do, and wherever errors end programs.
THEOREM RequestsFollowDevices == Spec => []RequestsMatchDevices
<1>1. MatchInv => RequestsMatchDevices
  BY DEF MatchInv, Matching, RequestsMatchDevices
<1>. QED BY <1>1, InitMatches, MatchInvStep, PTL DEF Spec

-----------------------------------------------------------------------------
(* Where control, and exceptions, can be *)

\* The place an exception keeps is an address.
LEMMA EpcShape ==
    ASSUME Placed, NEW c \in Cp0s, c.exl = cp0.exl, c.epc = cp0.epc
    PROVE  Excepted(c, pc).epc \in Addrs /\ Excepted(c, pc).exl
<1>1. pc \in Int
  BY DEF Placed, Typed
<1>2. pc - 1 \in Text => pc - 1 \in Addrs
  BY AddrShape
<1>3. Epc(c, pc) \in Addrs
  BY <1>2 DEF Epc, Placed, FlowTyped, InSlot
<1>. QED BY <1>1, <1>3, ExceptedShape

LEMMA ExecuteEpc ==
    ASSUME Placed, Execute
    PROVE  cp0'.epc \in Addrs
<1>0. Typed /\ cp0.epc \in Addrs /\ cp0 \in Cp0s
  BY DEF Placed, Typed, DevicesTyped, FlowTyped
<1>1. ASSUME NEW tick \in BOOLEAN, Plain(tick) \/ \E t \in Text : Jump(t, tick)
      PROVE  cp0'.epc \in Addrs
  BY <1>0, <1>1, TickedShape DEF Plain, Jump
<1>2. ASSUME NEW tick \in BOOLEAN, Fault(tick) PROVE cp0'.epc \in Addrs
  BY <1>0, <1>2, TickedShape, EpcShape DEF Fault
<1>3. ASSUME Break PROVE cp0'.epc \in Addrs
  BY <1>0, <1>3, EpcShape DEF Break
<1>4. ASSUME Nullify \/ Eret \/ WriteCompare \/ WriteTransBuffer \/ ReadRecvBuffer
      PROVE  cp0'.epc \in Addrs
  BY <1>0, <1>4 DEF Nullify, Eret, WriteCompare, WriteTransBuffer, ReadRecvBuffer, Cp0s
<1>5. ASSUME NEW on \in BOOLEAN, \/ WriteTransControl(on) \/ WriteRecvControl(on)
                                 \/ \E mask \in Masks : WriteStatus(on, mask)
      PROVE  cp0'.epc \in Addrs
  BY <1>0, <1>5 DEF WriteTransControl, WriteRecvControl, WriteControl, WriteStatus, Cp0s
<1>. QED BY <1>1, <1>2, <1>3, <1>4, <1>5 DEF Execute

LEMMA ExecuteInSlot ==
    ASSUME Placed, Execute
    PROVE  InSlot'
<1>. USE DEF Placed, InSlot, SlotsIn
<1>0. ASSUME NEW a \in Addrs, Complete(a) PROVE InSlot'
  BY <1>0, CompleteShape DEF FlowTyped
<1>1. ASSUME NEW tick \in BOOLEAN, Plain(tick) \/ Fault(tick) PROVE InSlot'
  BY <1>0, <1>1, FetchShape, AddrShape DEF Plain, Fault
<1>2. ASSUME Fetch, NEW t \in Addrs, JumpTo(t) PROVE InSlot'
  <2>0. slots = <<>> => ~inSlot
    OBVIOUS
  <2>. HIDE DEF Placed, SlotsIn
  <2>1. pc \in Text /\ pc + 1 \in Addrs /\ pc \in Int
    BY <1>2, FetchShape DEF Placed, Typed
  <2>2. \/ slots' = <<t>> /\ inSlot' = TRUE /\ pc' = pc + 1 /\ phase' = "poll"
        \/ slots' = <<>> /\ inSlot' = IF slots = <<>> THEN inSlot ELSE FALSE
    BY <1>2, <2>1, JumpToShape DEF Placed, FlowTyped
  <2>3. <<t>> # <<>> /\ (slots = <<>> => ~inSlot) /\ pc + 1 - 1 = pc
    BY <2>0, <2>1
  <2>4. CASE slots' = <<t>> /\ inSlot' = TRUE /\ pc' = pc + 1 /\ phase' = "poll"
    BY <2>1, <2>3, <2>4
  <2>5. CASE slots' = <<>> /\ inSlot' = IF slots = <<>> THEN inSlot ELSE FALSE
    <3>1. ~inSlot'
      BY <2>3, <2>5
    <3>. QED BY <2>5, <3>1
  <2>. QED BY <2>2, <2>4, <2>5
<1>3. ASSUME NEW tick \in BOOLEAN, NEW t \in Text, Jump(t, tick) PROVE InSlot'
  BY <1>2, <1>3, AddrShape DEF Jump
<1>4. ASSUME Nullify PROVE InSlot'
  BY <1>0, <1>4 DEF Nullify, TextTyped
<1>5. ASSUME Eret PROVE InSlot'
  BY <1>2, <1>5 DEF Eret, FlowTyped
<1>6. ASSUME Complete(pc + 1), Fetch PROVE InSlot'
  BY <1>0, <1>6, FetchShape
<1>7. ASSUME Break PROVE InSlot'
  BY <1>7 DEF Break, EndStep
<1>. QED BY <1>1, <1>3, <1>4, <1>5, <1>6, <1>7
     DEF Execute, WriteCompare, WriteTransControl, WriteRecvControl, WriteTransBuffer, ReadRecvBuffer,
         WriteStatus, Mapped

LEMMA ExecutePlaced ==
    ASSUME Placed, Execute, Stay
    PROVE  Placed'
<1>1. Typed' /\ TextTyped' /\ BkptsTyped'
  <2>1. UNCHANGED <<text, bkpts, over>>
    BY LoopKeepsText DEF RunLoop, Stay
  <2>2. Typed'
    BY LoopTyped DEF RunLoop, Placed
  <2>. QED BY <2>1, <2>2 DEF Placed, TextTyped, BkptsTyped
<1>2. FlowTyped'
  <2>1. pc' \in Addrs /\ SlotsIn(Addrs)' /\ phase' \in {"poll", "exec", "done", "break"}
    <3>1. text[pc] = "inst" => pc + 1 \in Addrs
      BY AddrShape DEF Placed, TextTyped, FlowTyped
    <3>. QED BY <3>1, AddrShape, ExecuteStays DEF Placed, FlowTyped, TextTyped
  <2>. QED BY <2>1, ExecuteEpc DEF FlowTyped, Placed, Stay
<1>. QED BY <1>1, <1>2, ExecuteInSlot DEF Placed

LEMMA PollPlaced ==
    ASSUME Placed, NEW input \in BOOLEAN, Poll(input), Stay
    PROVE  Placed'
<1>0. Typed
  BY DEF Placed
<1>. USE <1>0, PollShape
<1>1. Typed' /\ TextTyped' /\ BkptsTyped'
  BY LoopTyped DEF RunLoop, Placed, Stay, TextTyped, BkptsTyped
<1>2. cp0'.epc \in Addrs
  BY AskedShape, EpcShape DEF Placed, FlowTyped
<1>3. FlowTyped'
  BY <1>2, AddrShape DEF FlowTyped, Placed, Stay, SlotsIn
<1>4. InSlot'
  <2>1. CASE Ready(Asked(input))
    BY <2>1, <1>0, AskedShape, ExceptedShape DEF InSlot, Placed, Typed
  <2>2. CASE ~Ready(Asked(input))
    BY <2>2, AskedShape DEF InSlot, Placed
  <2>. QED BY <2>1, <2>2
<1>. QED BY <1>1, <1>3, <1>4 DEF Placed

LEMMA AddShape ==
    ASSUME TextTyped, BkptsTyped, NEW a \in BreakAddrs, AddBreakpoint(a)
    PROVE  /\ TextTyped' /\ BkptsTyped'
           /\ \A x \in Addrs : text'[x] = "break" <=> text[x] = "break" \/ x = a
           /\ DOMAIN bkpts' = IF text[a] = "break" THEN DOMAIN bkpts ELSE DOMAIN bkpts \cup {a}
<1>. USE DEF TextTyped, BkptsTyped, AddBreakpoint, Added
<1>0. a \in Addrs /\ a \in Text
  BY AddrShape
<1>1. CASE text[a] = "break"
  BY <1>0, <1>1
<1>2. CASE text[a] # "break"
  <2>1. text[a] = "inst"
    BY <1>0, <1>2
  <2>. QED BY <1>0, <1>2, <2>1
<1>. QED BY <1>1, <1>2

LEMMA DeleteShape ==
    ASSUME TextTyped, BkptsTyped, NEW a \in BreakAddrs, DeleteBreakpoint(a)
    PROVE  /\ TextTyped' /\ BkptsTyped' /\ DOMAIN bkpts' = DOMAIN bkpts \ {a}
           /\ \A x \in Addrs : x # a => text'[x] = text[x]
           /\ a \in DOMAIN bkpts => text'[a] = "inst"
           /\ a \notin DOMAIN bkpts => text' = text
<1>. USE DEF TextTyped, BkptsTyped, DeleteBreakpoint
<1>0. a \in Addrs /\ a \in Text
  BY AddrShape
<1>1. CASE a \in DOMAIN bkpts
  BY <1>0, <1>1
<1>2. CASE a \notin DOMAIN bkpts
  BY <1>0, <1>2
<1>. QED BY <1>1, <1>2

\* A break is only at an address of BreakAddrs, also where PC is.
LEMMA BreakHere ==
    ASSUME Placed, text[pc] = "break"
    PROVE  pc \in BreakAddrs
BY DEF Placed, BkptsTyped, FlowTyped

LEMMA PromptShape ==
    ASSUME Placed, Prompt
    PROVE  slots = <<>> /\ over = Nowhere
BY DEF Placed, InSlot, Prompt

LEMMA ReinitializedText ==
    ASSUME TextTyped, Reinitialize
    PROVE  TextTyped' /\ BkptsTyped' /\ \A x \in Addrs : text'[x] # "break"
<1>1. text' = [a \in Addrs |-> IF a \in Text THEN "inst" ELSE "none"] /\ DOMAIN bkpts' = {}
  BY DEF Reinitialize, TextTyped
<1>. QED BY <1>1 DEF TextTyped, BkptsTyped

LEMMA CommandPlaced ==
    ASSUME Placed, Command \/ PutBack \/ Encountered
    PROVE  Placed'
<1>0. Typed' /\ pc \in Addrs /\ pc \in Int
  BY CommandTyped DEF Placed, Typed, FlowTyped
<1>. DEFINE Where == pc' \in Addrs /\ phase' \in {"poll", "exec", "done", "break", "error"}
<1>. USE DEF Enter
<1>1. ASSUME TextTyped', BkptsTyped', UNCHANGED <<slots, inSlot, cp0>>, slots = <<>>, Where,
             over' \in BreakAddrs \cup {Nowhere}
      PROVE  Placed'
  BY <1>0, <1>1 DEF Placed, FlowTyped, InSlot, SlotsIn
<1>2. ASSUME NEW a \in BreakAddrs, SetBreakpoint(a) PROVE Placed'
  BY <1>1, <1>2, AddShape, PromptShape DEF SetBreakpoint, Placed, FlowTyped
<1>3. ASSUME NEW a \in BreakAddrs, Delete(a) PROVE Placed'
  BY <1>1, <1>3, DeleteShape, PromptShape DEF Delete, Placed, FlowTyped
<1>4. ASSUME NEW a \in UserText, Run(a) PROVE Placed'
  <2>1. a \in Addrs
    BY AddrShape DEF Text
  <2>2. TextTyped' /\ BkptsTyped'
    BY <1>4 DEF Run, Placed, TextTyped, BkptsTyped
  <2>. QED BY <1>1, <1>4, <2>1, <2>2, PromptShape DEF Run, Placed, FlowTyped
<1>5. ASSUME Prompt, NEW n, RunProgram(pc, n) PROVE Placed'
  <2>1. CASE text[pc] = "break"
    <3>1. pc \in BreakAddrs /\ DeleteBreakpoint(pc) /\ over' = pc /\ Where
      BY <1>5, <1>0, <2>1, BreakHere DEF RunProgram
    <3>2. TextTyped' /\ BkptsTyped'
      BY <3>1, DeleteShape DEF Placed
    <3>. QED BY <1>1, <1>5, <3>1, <3>2, PromptShape DEF RunProgram
  <2>2. CASE text[pc] # "break"
    <3>1. TextTyped' /\ BkptsTyped' /\ Where /\ over' = over
      BY <1>5, <1>0, <2>2 DEF RunProgram, Placed, TextTyped, BkptsTyped
    <3>. QED BY <1>1, <1>5, <3>1, PromptShape DEF RunProgram
  <2>. QED BY <2>1, <2>2
<1>6. ASSUME PutBack PROVE Placed'
  <2>1. over \in BreakAddrs /\ AddBreakpoint(over) /\ slots = <<>> /\ Where /\ over' = Nowhere
    BY <1>6, <1>0 DEF PutBack, Placed, FlowTyped, InSlot
  <2>2. TextTyped' /\ BkptsTyped'
    BY <2>1, AddShape DEF Placed
  <2>. QED BY <1>1, <1>6, <2>1, <2>2 DEF PutBack
<1>7. ASSUME Encountered PROVE Placed'
  BY <1>7, <1>0 DEF Encountered, Placed, TextTyped, BkptsTyped, FlowTyped, InSlot, SlotsIn, Typed, DevicesTyped, Cp0s
<1>8. ASSUME Reinitialize PROVE Placed'
  <2>1. TextTyped' /\ BkptsTyped'
    BY <1>8, ReinitializedText DEF Placed
  <2>. QED BY <1>8, <1>0, <2>1, PromptShape, AddrShape
       DEF Reinitialize, Placed, FlowTyped, InSlot, SlotsIn, InitCp0
<1>. QED BY <1>2, <1>3, <1>4, <1>5, <1>6, <1>7, <1>8 DEF Command, Continue, StepCommand

LEMMA StoppedPlaced ==
    ASSUME Placed, Stopped, "slot" \notin Aborts
    PROVE  Placed'
<1>1. Typed'
  BY CommandTyped DEF Placed
<1>. QED BY <1>1 DEF Stopped, Abort, Placed, TextTyped, BkptsTyped, FlowTyped, InSlot, SlotsIn

LEMMA PlacedStep ==
    ASSUME "slot" \notin Aborts
    PROVE  Placed /\ [Next]_vars => Placed'
<1>. SUFFICES ASSUME Placed, [Next]_vars PROVE Placed'
  OBVIOUS
<1>1. CASE UNCHANGED vars
  BY <1>1 DEF vars, cpuVars, Placed, Typed, DevicesTyped, TextTyped, BkptsTyped, FlowTyped, InSlot, SlotsIn
<1>. QED BY <1>1, ExecutePlaced, PollPlaced, CommandPlaced, StoppedPlaced DEF Next, RunLoop

\* Execution never leaves the text, running_in_delay_slot is only set while a
\* slot runs, and so the place an exception keeps is always an address.
THEOREM MachineTypeCorrect ==
    ASSUME "slot" \notin Aborts
    PROVE  Spec => []TypeOK
<1>1. Placed => TypeOK
  <2>. SUFFICES ASSUME Placed PROVE TypeOK
    OBVIOUS
  <2>1. DOMAIN text = Addrs
    BY DEF Placed, TextTyped
  <2>2. Len(<<>>) = 0 /\ \A t \in Addrs : Len(<<t>>) = 1
    OBVIOUS
  <2>3. Len(slots) <= 1
    <3>1. slots = <<>> \/ \E t \in Addrs : slots = <<t>>
      BY DEF Placed, FlowTyped, SlotsIn
    <3>. DEFINE n == Len(slots)
    <3>2. n = 0 \/ n = 1
      BY <2>2, <3>1
    <3>. HIDE DEF n
    <3>3. n <= 1
      BY <3>2
    <3>. QED BY <3>3 DEF n
  <2>4. /\ cp0.ie \in BOOLEAN /\ cp0.exl \in BOOLEAN /\ cp0.ip \subseteq Levels
        /\ \A d \in {recv, trans} : d.ready \in BOOLEAN /\ d.timer \in 0 .. Latency
    <3>1. cp0 \in Cp0s /\ recv \in DeviceStates /\ trans \in DeviceStates
      BY DEF Placed, Typed, DevicesTyped
    <3>2. cp0.ie \in BOOLEAN /\ cp0.exl \in BOOLEAN /\ cp0.ip \subseteq Levels
      BY <3>1 DEF Cp0s
    <3>3. \A d \in DeviceStates : d.ready \in BOOLEAN /\ d.timer \in 0 .. Latency
      BY DEF DeviceStates
    <3>. QED BY <3>1, <3>2, <3>3
  <2>5. /\ mode \in Modes /\ pc \in Addrs /\ cp0.epc \in Addrs
        /\ phase \in {"poll", "exec", "done", "break", "error"}
        /\ over \in BreakAddrs \cup {Nowhere}
    BY DEF Placed, Typed, FlowTyped
  <2>. QED BY <2>1, <2>3, <2>4, <2>5 DEF TypeOK
<1>. QED BY <1>1, InitTyped, PlacedStep, PTL DEF Spec

-----------------------------------------------------------------------------
(* Breakpoints *)

\* The breakpoints in the text are those the user wants, but for the one
\* run_program steps over.
BreakInv ==
    /\ DOMAIN bkpts = wanted \ {over} /\ wanted \subseteq BreakAddrs
    /\ \A a \in Addrs : text[a] = "break" <=> a \in wanted \ {over}
    /\ over # Nowhere => over \in wanted

LEMMA BreakInvCommand ==
    ASSUME Placed, BreakInv, Command \/ PutBack \/ Encountered
    PROVE  BreakInv'
<1>0. TextTyped /\ BkptsTyped /\ \A a \in BreakAddrs : a # Nowhere
  BY AddrShape DEF Placed
<1>. USE DEF BreakInv
<1>1. ASSUME NEW a \in BreakAddrs, SetBreakpoint(a) PROVE BreakInv'
  <2>1. AddBreakpoint(a) /\ over = Nowhere /\ over' = Nowhere /\ wanted' = wanted \cup {a}
    BY <1>1, PromptShape DEF SetBreakpoint
  <2>2. /\ \A x \in Addrs : text'[x] = "break" <=> text[x] = "break" \/ x = a
        /\ DOMAIN bkpts' = IF text[a] = "break" THEN DOMAIN bkpts ELSE DOMAIN bkpts \cup {a}
    BY <1>0, <2>1, AddShape
  <2>3. a \in Addrs /\ (text[a] = "break" => a \in DOMAIN bkpts)
    BY AddrShape
  <2>4. DOMAIN bkpts' = wanted' \ {over'} /\ wanted' \subseteq BreakAddrs
    BY <1>0, <2>1, <2>2, <2>3
  <2>5. \A x \in Addrs : text'[x] = "break" <=> x \in wanted' \ {over'}
    BY <1>0, <2>1, <2>2, <2>3
  <2>. QED BY <2>1, <2>4, <2>5
<1>2. ASSUME NEW a \in BreakAddrs, Delete(a) PROVE BreakInv'
  BY <1>0, <1>2, DeleteShape, PromptShape DEF Delete
<1>3. ASSUME UNCHANGED <<text, bkpts, over, wanted>> PROVE BreakInv'
  BY <1>3
<1>4. ASSUME Prompt, NEW n, RunProgram(pc, n) PROVE BreakInv'
  <2>1. CASE text[pc] = "break"
    <3>1. pc \in BreakAddrs /\ DeleteBreakpoint(pc) /\ over' = pc /\ wanted' = wanted /\ pc \in Addrs
      BY <1>4, <2>1, BreakHere DEF RunProgram, Placed, FlowTyped
    <3>2. over = Nowhere /\ pc \in DOMAIN bkpts
      BY <1>4, <2>1, <3>1, PromptShape
    <3>3. /\ \A x \in Addrs : x # pc => text'[x] = text[x]
          /\ text'[pc] = "inst" /\ DOMAIN bkpts' = DOMAIN bkpts \ {pc}
      BY <1>0, <3>1, <3>2, DeleteShape
    <3>. QED BY <1>0, <3>1, <3>2, <3>3
  <2>2. CASE text[pc] # "break"
    BY <1>3, <1>4, <2>2 DEF RunProgram
  <2>. QED BY <2>1, <2>2
<1>5. ASSUME PutBack PROVE BreakInv'
  <2>1. over \in BreakAddrs /\ AddBreakpoint(over) /\ over' = Nowhere /\ wanted' = wanted
    BY <1>5 DEF PutBack, Placed, FlowTyped
  <2>2. over \in Addrs /\ text[over] # "break"
    BY <2>1, AddrShape
  <2>3. /\ \A x \in Addrs : text'[x] = "break" <=> text[x] = "break" \/ x = over
        /\ DOMAIN bkpts' = DOMAIN bkpts \cup {over}
    BY <1>0, <2>1, <2>2, AddShape
  <2>. QED BY <1>0, <2>1, <2>2, <2>3
<1>6. ASSUME Reinitialize PROVE BreakInv'
  <2>1. DOMAIN bkpts' = {} /\ wanted' = {} /\ over' = Nowhere
    BY <1>6, PromptShape DEF Reinitialize
  <2>. QED BY <1>0, <1>6, <2>1, ReinitializedText
<1>. QED BY <1>1, <1>2, <1>3, <1>4, <1>5, <1>6
     DEF Command, Run, Continue, StepCommand, Encountered

LEMMA BreakInvStep ==
    ASSUME "over" \notin Aborts
    PROVE  Placed /\ BreakInv /\ [Next]_vars => BreakInv'
<1>. SUFFICES ASSUME Placed, BreakInv, [Next]_vars PROVE BreakInv'
  OBVIOUS
<1>1. CASE UNCHANGED vars \/ (RunLoop /\ Stay) \/ Stopped
  BY <1>1, LoopKeepsText DEF vars, cpuVars, Stay, Stopped, Abort, BreakInv
<1>. QED BY <1>1, BreakInvCommand DEF Next

LEMMA InitBreaks == Init => BreakInv
BY AddrShape DEF Init, CpuInit, BreakInv, Addrs

\* However often the program steps over, stops at or is interrupted on
\* breakpoints, those in the text are the user's when the prompt is back, and
\* the records for deleting them hold what was there.
THEOREM BreakpointsAreKept ==
    ASSUME "over" \notin Aborts, "slot" \notin Aborts
    PROVE  Spec => []BreakpointsKept
<1>1. Placed /\ BreakInv => BreakpointsKept
  BY AddrShape DEF Placed, TextTyped, BkptsTyped, BreakInv, BreakpointsKept, Prompt
<1>. QED BY <1>1, InitTyped, PlacedStep, InitBreaks, BreakInvStep, PTL DEF Spec

-----------------------------------------------------------------------------
(* The refinement.  Programs are those that cannot fault, or be interrupted,  *)
(* in a delay slot: for others the run delayslot shows what goes wrong.       *)

\* A delay slot holds an instruction, and nothing interrupts it.
SlotQuiet ==
    /\ slots # <<>> => mode.delayed /\ text[pc] = "inst"
    /\ mode.delayed => ~cp0.ie

\* Handlers run in the kernel, out of reach of breakpoints.
KernelSide == {a \in Int : \A u \in UserText : u < a}
HandlerInKernel ==
    cp0.exl /\ phase # "break" =>
        pc \in KernelSide /\ (slots # <<>> => slots[1] \in KernelSide)
Quiet == SlotQuiet /\ HandlerInKernel

LEMMA KernelBehind ==
    /\ \A k \in KernelText : k \in KernelSide
    /\ \A a \in Addrs : a \in KernelSide => a + 1 \in KernelSide /\ a + 2 \in KernelSide
    /\ \A a \in Text : a \in KernelSide => a \in KernelText /\ a \notin BreakAddrs
BY CpuAssumption, UserAssumption, AddrShape DEF KernelSide, Text

\* While an instruction is executed, and no exception was raised before, slots.
LEMMA SlotQuietExecute ==
    ASSUME Placed, SlotQuiet, ~SlotFaults, Execute
    PROVE  SlotQuiet'
<1>. USE DEF SlotQuiet
<1>0. mode' = mode /\ text' = text /\ Typed /\ cp0 \in Cp0s
  BY LoopKeepsText DEF RunLoop, Placed, Typed, DevicesTyped
<1>1. ASSUME NEW a, EndStep(a), mode.delayed => ~cp0'.ie PROVE SlotQuiet'
  BY <1>0, <1>1 DEF EndStep
<1>2. ASSUME NEW a, JumpTo(a), cp0'.ie = cp0.ie PROVE SlotQuiet'
  BY <1>0, <1>1, <1>2 DEF JumpTo, Slot, Complete
<1>3. ASSUME NEW tick \in BOOLEAN, Plain(tick) PROVE SlotQuiet'
  BY <1>0, <1>1, <1>3, TickedShape DEF Plain, Complete
<1>4. ASSUME NEW tick \in BOOLEAN, Fault(tick) PROVE SlotQuiet'
  BY <1>0, <1>1, <1>4, TickedShape, ExceptedShape DEF Fault, Complete, Typed
<1>5. ASSUME NEW tick \in BOOLEAN, NEW t \in Text, Jump(t, tick) PROVE SlotQuiet'
  BY <1>0, <1>2, <1>5, TickedShape DEF Jump
<1>6. ASSUME Nullify PROVE SlotQuiet'
  BY <1>0, <1>1, <1>6 DEF Nullify, Complete
<1>7. ASSUME Eret PROVE SlotQuiet'
  BY <1>0, <1>2, <1>7 DEF Eret, Cp0s
<1>8. ASSUME NEW on \in BOOLEAN, NEW mask \in Masks, WriteStatus(on, mask) PROVE SlotQuiet'
  BY <1>0, <1>1, <1>8 DEF WriteStatus, Complete, Cp0s
<1>9. ASSUME WriteCompare \/ WriteTransBuffer \/ ReadRecvBuffer PROVE SlotQuiet'
  BY <1>0, <1>1, <1>9 DEF WriteCompare, WriteTransBuffer, ReadRecvBuffer, Mapped, Complete, Cp0s
<1>10. ASSUME NEW on \in BOOLEAN, WriteTransControl(on) \/ WriteRecvControl(on) PROVE SlotQuiet'
  BY <1>0, <1>1, <1>10 DEF WriteTransControl, WriteRecvControl, WriteControl, Mapped, Complete, Cp0s
<1>11. ASSUME Break PROVE SlotQuiet'
  <2>1. cp0'.ie = cp0.ie
    BY <1>0, <1>11, ExceptedShape DEF Break, Typed
  <2>2. slots = <<>>
    BY <1>11 DEF Break
  <2>. QED BY <1>0, <1>11, <2>1, <2>2 DEF Break
<1>. QED BY <1>3, <1>4, <1>5, <1>6, <1>7, <1>8, <1>9, <1>10, <1>11 DEF Execute

\* In a handler control goes on in the kernel, until ERET.
LEMMA HandlerExecute ==
    ASSUME Placed, Quiet, ~SlotFaults, Execute
    PROVE  HandlerInKernel'
<1>. USE KernelBehind, AddrShape DEF HandlerInKernel, Quiet
<1>0. /\ mode' = mode /\ text' = text /\ Typed /\ cp0 \in Cp0s /\ phase # "break" /\ pc \in Addrs
      /\ Vector \in KernelSide
  BY LoopKeepsText, CpuAssumption DEF RunLoop, Placed, Typed, DevicesTyped, FlowTyped, Execute, Break, Plain, Fault,
     Jump, Nullify, Eret, WriteStatus, WriteCompare, WriteTransBuffer, ReadRecvBuffer, WriteTransControl,
     WriteRecvControl, Mapped, Fetch
<1>1. ASSUME NEW a, Complete(a), cp0'.exl => IF slots = <<>> THEN a \in KernelSide ELSE cp0.exl
      PROVE  HandlerInKernel'
  BY <1>0, <1>1 DEF Complete, EndStep
<1>2. ASSUME NEW a, Complete(a), cp0'.exl = cp0.exl, cp0.exl => a \in KernelSide
      PROVE  HandlerInKernel'
  BY <1>1, <1>2
<1>3. ASSUME NEW a, JumpTo(a), cp0'.exl => cp0.exl /\ a \in KernelSide
      PROVE  HandlerInKernel'
  BY <1>0, <1>1, <1>3 DEF JumpTo, Slot
<1>4. ASSUME NEW tick \in BOOLEAN, Plain(tick) PROVE HandlerInKernel'
  BY <1>0, <1>2, <1>4, TickedShape DEF Plain
<1>5. ASSUME NEW tick \in BOOLEAN, Fault(tick) PROVE HandlerInKernel'
  BY <1>0, <1>1, <1>5 DEF Fault
<1>6. ASSUME NEW tick \in BOOLEAN, NEW t \in Text, Jump(t, tick) PROVE HandlerInKernel'
  <2>1. cp0.exl => t \in KernelSide
    BY <1>0, <1>6, FetchShape DEF Jump, InKernel, Placed
  <2>. QED BY <1>0, <1>3, <1>6, <2>1, TickedShape DEF Jump
<1>7. ASSUME Nullify PROVE HandlerInKernel'
  BY <1>0, <1>2, <1>7 DEF Nullify
<1>8. ASSUME Eret PROVE HandlerInKernel'
  BY <1>0, <1>3, <1>8 DEF Eret, Cp0s
<1>9. ASSUME NEW on \in BOOLEAN, NEW mask \in Masks, WriteStatus(on, mask) PROVE HandlerInKernel'
  BY <1>0, <1>2, <1>9 DEF WriteStatus, Cp0s
<1>10. ASSUME WriteCompare \/ WriteTransBuffer \/ ReadRecvBuffer PROVE HandlerInKernel'
  BY <1>0, <1>2, <1>10 DEF WriteCompare, WriteTransBuffer, ReadRecvBuffer, Mapped, Cp0s
<1>11. ASSUME NEW on \in BOOLEAN, WriteTransControl(on) \/ WriteRecvControl(on) PROVE HandlerInKernel'
  BY <1>0, <1>2, <1>11 DEF WriteTransControl, WriteRecvControl, WriteControl, Mapped, Cp0s
<1>12. ASSUME Break PROVE HandlerInKernel'
  <2>1. slots = <<>>
    BY <1>12 DEF Break, Quiet, SlotQuiet
  <2>. QED BY <1>12, <2>1 DEF Break
<1>. QED BY <1>4, <1>5, <1>6, <1>7, <1>8, <1>9, <1>10, <1>11, <1>12 DEF Execute

LEMMA QuietPoll ==
    ASSUME Placed, Quiet, NEW input \in BOOLEAN, Poll(input)
    PROVE  /\ Quiet' /\ (Ready(Asked(input)) => slots = <<>> /\ ~cp0.exl /\ cp0'.exl)
           /\ ~Ready(Asked(input)) => cp0'.exl = cp0.exl /\ cp0'.epc = cp0.epc
<1>0. /\ Typed /\ Asked(input) \in Cp0s /\ pc \in Int
      /\ Asked(input).exl = cp0.exl /\ Asked(input).ie = cp0.ie /\ Asked(input).epc = cp0.epc
  BY AskedShape DEF Placed, Typed
<1>1. /\ phase = "poll" /\ phase' = "exec" /\ UNCHANGED <<mode, text, slots>>
      /\ cp0' = IF Ready(Asked(input)) THEN Excepted(Asked(input), pc) ELSE Asked(input)
      /\ pc' = IF Ready(Asked(input)) THEN Vector ELSE pc
      /\ cp0'.ie = cp0.ie
  BY <1>0, PollShape
<1>2. Ready(Asked(input)) => slots = <<>> /\ ~cp0.exl /\ cp0'.exl
  BY <1>0, <1>1, ExceptedShape DEF Ready, Quiet, SlotQuiet
<1>3. SlotQuiet'
  BY <1>1, <1>2 DEF SlotQuiet, Quiet
<1>4. HandlerInKernel'
  BY <1>0, <1>1, <1>2, KernelBehind, CpuAssumption DEF HandlerInKernel, Quiet
<1>. QED BY <1>0, <1>1, <1>2, <1>3, <1>4 DEF Quiet

LEMMA QuietCommand ==
    ASSUME Placed, Quiet, Command \/ PutBack \/ Encountered \/ Stopped
    PROVE  Quiet'
<1>0. Prompt => slots = <<>> /\ phase \in {"done", "error"}
  BY PromptShape DEF Prompt
<1>. USE DEF Quiet, SlotQuiet, HandlerInKernel, Enter
<1>1. ASSUME slots = <<>>, UNCHANGED <<mode, slots, cp0, pc>>, phase # "break" PROVE Quiet'
  BY <1>1
<1>2. ASSUME NEW a \in BreakAddrs, SetBreakpoint(a) \/ Delete(a) PROVE Quiet'
  BY <1>0, <1>1, <1>2 DEF SetBreakpoint, Delete
<1>3. ASSUME NEW a \in UserText, Run(a) PROVE Quiet'
  BY <1>0, <1>3 DEF Run
<1>4. ASSUME Prompt, NEW n, RunProgram(pc, n) PROVE Quiet'
  BY <1>0, <1>1, <1>4 DEF RunProgram
<1>5. ASSUME PutBack PROVE Quiet'
  BY <1>1, <1>5 DEF PutBack, Placed, InSlot
<1>6. ASSUME Encountered PROVE Quiet'
  <2>1. cp0'.ie = cp0.ie /\ ~cp0'.exl
    BY <1>6 DEF Encountered, Placed, Typed, DevicesTyped, Cp0s
  <2>2. slots = <<>>
    BY <1>6 DEF Encountered, Placed, InSlot
  <2>. QED BY <1>6, <2>1, <2>2 DEF Encountered
<1>7. ASSUME Reinitialize PROVE Quiet'
  BY <1>0, <1>7 DEF Reinitialize, InitCp0
<1>8. ASSUME Stopped PROVE Quiet'
  BY <1>8 DEF Stopped, Abort
<1>. QED BY <1>2, <1>3, <1>4, <1>5, <1>6, <1>7, <1>8 DEF Command, Continue, StepCommand

LEMMA QuietStep ==
    ASSUME ~SlotFaults
    PROVE  Placed /\ Quiet /\ [Next]_vars => Quiet'
<1>. SUFFICES ASSUME Placed, Quiet, [Next]_vars PROVE Quiet'
  OBVIOUS
<1>1. CASE Execute
  BY <1>1, SlotQuietExecute, HandlerExecute DEF Quiet
<1>2. CASE UNCHANGED vars
  BY <1>2 DEF vars, cpuVars, Quiet, SlotQuiet, HandlerInKernel
<1>. QED BY <1>1, <1>2, QuietPoll, QuietCommand DEF Next, RunLoop

LEMMA InitQuiet == Init => Quiet
BY DEF Init, CpuInit, InitCp0, Quiet, SlotQuiet, HandlerInKernel

\* What the mapping makes of the state.
Follows == IF slots = <<>> THEN pc + 1 ELSE slots[1]
Kept == IF Handling THEN cp0.epc ELSE Nowhere

\* Plain instructions, and a branch that nullifies its slot, are sequential.
LEMMA MapsSequential ==
    ASSUME phase = "exec", pc \in Int, mode' = mode, cp0'.exl = cp0.exl, cp0'.epc = cp0.epc,
           Complete(pc + 1) \/ (mode.delayed /\ slots = <<>> /\ Complete(pc + 2))
    PROVE  M!MipsNext
<1>1. UNCHANGED <<Handling, Kept>>
  BY DEF Handling, Kept, Complete, EndStep
<1>2. CASE Complete(pc + 1)
  <2>1. M!Sequential
    BY <1>1, <1>2 DEF M!Sequential, M!Running, M!Go, Running, Kept, Complete, EndStep
  <2>. QED BY <2>1 DEF M!MipsNext
<1>3. CASE mode.delayed /\ slots = <<>> /\ Complete(pc + 2)
  <2>1. M!Nullify
    BY <1>1, <1>3 DEF M!Nullify, M!Running, M!Go, Running, Kept, Complete, EndStep
  <2>. QED BY <2>1 DEF M!MipsNext
<1>. QED BY <1>2, <1>3

LEMMA MapsGoto ==
    ASSUME Quiet, mode' = mode, NEW t, JumpTo(t)
    PROVE  M!Goto(t)
<1>1. CASE mode.delayed
  BY <1>1 DEF M!Goto, JumpTo, Slot
<1>2. CASE ~mode.delayed
  BY <1>2 DEF M!Goto, M!Go, JumpTo, Complete, EndStep, Quiet, SlotQuiet
<1>. QED BY <1>1, <1>2

\* Every instruction is a step of the processor.
LEMMA MapsExecute ==
    ASSUME Placed, Quiet, ~SlotFaults, Execute
    PROVE  M!MipsNext
<1>0. /\ mode' = mode /\ Typed /\ cp0 \in Cp0s /\ phase = "exec" /\ pc \in Addrs /\ pc \in Int
      /\ cp0.exl \in BOOLEAN /\ (slots = <<>> => ~inSlot)
  BY LoopKeepsText DEF RunLoop, Placed, Typed, DevicesTyped, FlowTyped, Cp0s, Execute, Break, Plain, Fault,
     Jump, Nullify, Eret, WriteStatus, WriteCompare, WriteTransBuffer, ReadRecvBuffer, WriteTransControl,
     WriteRecvControl, Mapped, Fetch, InSlot
<1>1. ASSUME NEW tick \in BOOLEAN, Plain(tick) PROVE M!MipsNext
  BY <1>0, <1>1, TickedShape, MapsSequential DEF Plain
<1>2. ASSUME Nullify PROVE M!MipsNext
  BY <1>0, <1>2, MapsSequential DEF Nullify
<1>3. ASSUME NEW on \in BOOLEAN, NEW mask \in Masks, WriteStatus(on, mask) PROVE M!MipsNext
  BY <1>0, <1>3, MapsSequential DEF WriteStatus, Cp0s
<1>4. ASSUME WriteCompare \/ WriteTransBuffer \/ ReadRecvBuffer PROVE M!MipsNext
  BY <1>0, <1>4, MapsSequential DEF WriteCompare, WriteTransBuffer, ReadRecvBuffer, Mapped, Cp0s
<1>5. ASSUME NEW on \in BOOLEAN, WriteTransControl(on) \/ WriteRecvControl(on) PROVE M!MipsNext
  BY <1>0, <1>5, MapsSequential DEF WriteTransControl, WriteRecvControl, WriteControl, Mapped, Cp0s
<1>6. ASSUME NEW t, JumpTo(t) PROVE phase' # "break"
  BY <1>6 DEF JumpTo, Slot, Complete, EndStep
<1>7. ASSUME NEW tick \in BOOLEAN, NEW t \in Text, Jump(t, tick) PROVE M!MipsNext
  <2>1. UNCHANGED <<Handling, Kept>>
    BY <1>0, <1>6, <1>7, TickedShape DEF Jump, Handling, Kept
  <2>2. M!Goto(t)
    BY <1>0, <1>7, MapsGoto DEF Jump
  <2>3. M!Jump
    BY <1>0, <2>1, <2>2 DEF M!Jump, M!Running, Running, Kept
  <2>. QED BY <2>3 DEF M!MipsNext
<1>8. ASSUME Eret PROVE M!MipsNext
  <2>1. Handling /\ Kept = cp0.epc /\ ~Handling' /\ Kept' = Nowhere
    BY <1>0, <1>8 DEF Eret, Handling, Kept, Cp0s
  <2>2. M!Goto(cp0.epc)
    BY <1>0, <1>8, MapsGoto DEF Eret
  <2>3. M!Return
    BY <1>0, <2>1, <2>2 DEF M!Return, M!Running, Running, Kept
  <2>. QED BY <2>3 DEF M!MipsNext
<1>9. ASSUME NEW tick \in BOOLEAN, Fault(tick) PROVE M!MipsNext
  <2>1. slots = <<>> /\ Complete(Vector) /\ cp0' = Excepted(Ticked(tick), pc)
    BY <1>9 DEF Fault
  <2>2. cp0'.exl /\ cp0'.epc = (IF cp0.exl THEN cp0.epc ELSE pc)
    <3>1. cp0'.exl /\ cp0'.epc = Epc(Ticked(tick), pc)
      BY <1>0, <2>1, TickedShape, ExceptedShape
    <3>2. Epc(Ticked(tick), pc) = IF cp0.exl THEN cp0.epc ELSE pc
      BY <1>0, <2>1, TickedShape DEF Epc
    <3>. QED BY <3>1, <3>2
  <2>3. Handling = cp0.exl /\ Handling' /\ Kept' = (IF Handling THEN Kept ELSE pc)
    BY <1>0, <2>1, <2>2 DEF Handling, Kept, Complete, EndStep
  <2>4. M!Go(Vector)
    BY <2>1 DEF M!Go, Complete, EndStep
  <2>5. M!Exception
    BY <1>0, <2>1, <2>3, <2>4 DEF M!Exception, M!Running, Running, Kept
  <2>. QED BY <2>5 DEF M!MipsNext
<1>10. ASSUME Break PROVE M!MipsNext
  <2>1. slots = <<>> /\ pc \in BreakAddrs /\ pc \in Text
    BY <1>0, <1>10, BreakHere, AddrShape DEF Break, Quiet, SlotQuiet
  <2>2. ~cp0.exl
    BY <1>0, <2>1, KernelBehind DEF Quiet, HandlerInKernel
  <2>3. phase' = "break" /\ pc' = pc /\ slots' = slots
    BY <1>10, <2>1 DEF Break
  <2>4. UNCHANGED <<Handling, Kept>>
    BY <1>0, <2>2, <2>3 DEF Handling, Kept
  <2>5. M!Stop
    BY <1>0, <2>3, <2>4 DEF M!Stop, M!Running, Running, Kept
  <2>. QED BY <2>5 DEF M!MipsNext
<1>. QED BY <1>1, <1>2, <1>3, <1>4, <1>5, <1>7, <1>8, <1>9, <1>10 DEF Execute

LEMMA MapsPoll ==
    ASSUME Placed, Quiet, NEW input \in BOOLEAN, Poll(input)
    PROVE  M!MipsNext \/ UNCHANGED M!mipsVars
<1>0. /\ phase = "poll" /\ phase' = "exec" /\ UNCHANGED <<mode, slots>> /\ pc \in Int
      /\ cp0' = IF Ready(Asked(input)) THEN Excepted(Asked(input), pc) ELSE Asked(input)
      /\ pc' = IF Ready(Asked(input)) THEN Vector ELSE pc
      /\ Asked(input) \in Cp0s /\ Asked(input).exl = cp0.exl /\ Asked(input).epc = cp0.epc
  BY PollShape, AskedShape DEF Placed, Typed
<1>1. CASE Ready(Asked(input))
  <2>1. slots = <<>> /\ ~cp0.exl /\ cp0'.exl
    BY <1>1, QuietPoll
  <2>2. cp0'.epc = pc
    <3>1. cp0'.epc = Epc(Asked(input), pc)
      BY <1>0, <1>1, ExceptedShape
    <3>2. Epc(Asked(input), pc) = pc
      BY <1>0, <2>1 DEF Epc, Placed, InSlot
    <3>. QED BY <3>1, <3>2
  <2>3. ~Handling /\ Handling' /\ Kept' = pc
    BY <1>0, <2>1, <2>2 DEF Handling, Kept
  <2>4. M!Exception
    BY <1>0, <1>1, <2>1, <2>3 DEF M!Exception, M!Running, M!Go, Running, Kept
  <2>. QED BY <2>4 DEF M!MipsNext
<1>2. CASE ~Ready(Asked(input))
  <2>1. UNCHANGED <<Handling, Kept>>
    BY <1>0, <1>2 DEF Handling, Kept
  <2>. QED BY <1>0, <1>2, <2>1 DEF M!mipsVars, Running, Kept
<1>. QED BY <1>1, <1>2

LEMMA MapsCommand ==
    ASSUME Placed, Command \/ PutBack \/ Encountered
    PROVE  M!MipsNext \/ UNCHANGED M!mipsVars
<1>. DEFINE Mapped0 == M!MipsNext \/ UNCHANGED M!mipsVars
<1>0. /\ Prompt => slots = <<>> /\ phase \in {"done", "error"}
      /\ PutBack => slots = <<>> /\ phase = "done"
  BY PromptShape DEF Prompt, PutBack, Placed, InSlot
<1>. USE DEF Enter
\* The run loop is entered where it stopped, or not at all.
<1>1. ASSUME phase \in {"done", "error"}, UNCHANGED <<mode, slots, cp0, pc>>, slots = <<>>,
             phase' \in {"done", "error", "poll"}
      PROVE  Mapped0
  <2>1. UNCHANGED <<Handling, Kept>>
    BY <1>1 DEF Handling, Kept
  <2>2. CASE phase' = "poll"
    <3>1. M!Start
      BY <1>1, <2>1, <2>2 DEF M!Start, Running, Kept
    <3>. QED BY <3>1 DEF M!MipsNext
  <2>3. CASE phase' # "poll"
    BY <1>1, <2>1, <2>3 DEF M!mipsVars, Running, Kept
  <2>. QED BY <2>2, <2>3
<1>2. ASSUME NEW a \in BreakAddrs, SetBreakpoint(a) \/ Delete(a) PROVE Mapped0
  BY <1>0, <1>1, <1>2 DEF SetBreakpoint, Delete
<1>3. ASSUME Prompt, NEW n, RunProgram(pc, n) PROVE Mapped0
  BY <1>0, <1>1, <1>3 DEF RunProgram
<1>4. ASSUME PutBack PROVE Mapped0
  BY <1>0, <1>1, <1>4 DEF PutBack
\* The run loop is entered somewhere else, or the processor reset.
<1>5. ASSUME NEW a \in UserText, Run(a) PROVE Mapped0
  <2>1. slots = <<>> /\ slots' = <<>> /\ phase \in {"done", "error"} /\ mode' = mode /\ ~cp0.exl
        /\ cp0' = cp0 /\ pc' = a /\ phase' \in {"done", "poll"}
    BY <1>0, <1>5 DEF Run
  <2>2. Handling' = Handling /\ ~Handling /\ Kept = Nowhere /\ Kept' = Nowhere
    BY <2>1 DEF Handling, Kept
  <2>3. CASE phase' = "poll"
    <3>1. M!Start
      BY <2>1, <2>2, <2>3 DEF M!Start, M!Go, Running, Kept
    <3>. QED BY <3>1 DEF M!MipsNext
  <2>4. CASE phase' = "done"
    <3>1. M!Reset
      BY <2>1, <2>2, <2>4 DEF M!Reset, M!Go, Running, Kept
    <3>. QED BY <3>1 DEF M!MipsNext
  <2>. QED BY <2>1, <2>3, <2>4
<1>6. ASSUME Reinitialize PROVE Mapped0
  <2>1. slots' = <<>> /\ phase \in {"done", "error"} /\ mode' = mode /\ ~cp0'.exl /\ phase' = "done"
    BY <1>0, <1>6 DEF Reinitialize, InitCp0
  <2>2. ~Handling' /\ Kept' = Nowhere
    BY <2>1 DEF Handling, Kept
  <2>3. M!Reset
    BY <2>1, <2>2 DEF M!Reset, M!Go, Running, Kept
  <2>. QED BY <2>3 DEF M!MipsNext
<1>7. ASSUME Encountered PROVE Mapped0
  <2>1. ~cp0'.exl /\ phase = "break" /\ phase' = "done" /\ UNCHANGED <<mode, pc, slots>>
    BY <1>7 DEF Encountered, Placed, Typed, DevicesTyped, Cp0s
  <2>2. Handling' = Handling /\ ~Handling /\ Kept = Nowhere /\ Kept' = Nowhere
    BY <2>1 DEF Handling, Kept
  <2>. QED BY <2>1, <2>2 DEF M!mipsVars, Running, Kept
<1>. QED BY <1>2, <1>3, <1>4, <1>5, <1>6, <1>7 DEF Command, Continue, StepCommand

LEMMA MapsStopped ==
    ASSUME Placed, Stopped, "slot" \notin Aborts
    PROVE  M!MipsNext
<1>1. phase \in {"poll", "exec"} /\ phase' = "error" /\ UNCHANGED <<mode, pc, slots, cp0>>
  BY DEF Stopped, Abort
<1>2. UNCHANGED <<Handling, Kept>>
  BY <1>1 DEF Handling, Kept
<1>3. M!Stop
  BY <1>1, <1>2 DEF M!Stop, M!Running, Running, Kept
<1>. QED BY <1>3 DEF M!MipsNext

LEMMA MapsInit == Init => M!MipsInit
BY DEF Init, CpuInit, InitCp0, M!MipsInit, Handling, Running

LEMMA MapsStep ==
    ASSUME ~SlotFaults, "slot" \notin Aborts
    PROVE  Placed /\ Quiet /\ [Next]_vars => [M!MipsNext]_(M!mipsVars)
<1>. SUFFICES ASSUME Placed, Quiet, [Next]_vars PROVE M!MipsNext \/ UNCHANGED M!mipsVars
  OBVIOUS
<1>1. CASE UNCHANGED vars
  BY <1>1 DEF vars, cpuVars, M!mipsVars, Handling, Running
<1>. QED BY <1>1, MapsExecute, MapsPoll, MapsCommand, MapsStopped DEF Next, RunLoop

\* The run loop follows the architecture, if programs neither fault nor are
\* interrupted in a delay slot and no error ends them there: nested calls for
\* slots, checks between intervals and breakpoints stepped over never skip,
\* repeat or reorder an instruction.
THEOREM RunLoopImplementsMips ==
    ASSUME ~SlotFaults, "slot" \notin Aborts
    PROVE  Spec => ImplementsMips
BY InitTyped, PlacedStep, InitQuiet, QuietStep, MapsInit, MapsStep, PTL
   DEF Spec, ImplementsMips, M!MipsSpec
=============================================================================
