------------------------------ MODULE CallStack ------------------------------
(***************************************************************************)
(* What calls promise: every activation has its own parameters, locals and *)
(* view of the callee-saved registers, a call does not disturb those of    *)
(* its callers, and a return goes on where the call was.  A step of the    *)
(* program is stated as a relation of frames and frames'.                  *)
(***************************************************************************)
EXTENDS Naturals, Sequences

CONSTANTS Values,       \* what a program stores
          Begin(_),     \* the first position of the function called there
          Slot(_),      \* the slot of the argument that is passed there
          Passed(_),    \* the position after an argument is passed
          After(_)      \* the position after the innermost pending call

\* The activations, oldest first, each [at, params, locals, saved, args]: at is
\* its position in the code, args the argument lists being built, innermost last.
VARIABLE frames

top == frames[Len(frames)]
Below == SubSeq(frames, 1, Len(frames) - 1)
Replace(f) == frames' = Append(Below, f)

SetLocal == \E i \in DOMAIN top.locals, v \in Values :
                Replace([top EXCEPT !.locals[i] = v])
SetSaved == \E r \in DOMAIN top.saved, v \in Values :
                Replace([top EXCEPT !.saved[r] = v])

\* The slots of a new argument list hold anything until the arguments, passed in
\* order, reach them.
Prepare ==
    /\ Len(frames') = Len(frames) /\ SubSeq(frames', 1, Len(frames) - 1) = Below
    /\ LET f == frames'[Len(frames)] IN
       /\ Len(f.args) = Len(top.args) + 1
       /\ SubSeq(f.args, 1, Len(top.args)) = top.args
       /\ f = [top EXCEPT !.at = f.at, !.args = f.args]

Pass ==
    /\ top.args # <<>>
    /\ Slot(top.at) \in DOMAIN top.args[Len(top.args)]
    /\ \E v \in Values :
       Replace([top EXCEPT !.at = Passed(top.at),
                           !.args[Len(top.args)][Slot(top.at)] = v])

\* The callee starts with the arguments and with the registers of its caller.
Call ==
    /\ top.args # <<>>
    /\ Len(frames') = Len(frames) + 1
    /\ SubSeq(frames', 1, Len(frames)) = frames
    /\ LET f == frames'[Len(frames')] IN
       /\ f.params = top.args[Len(top.args)]
       /\ f.at = Begin(top.at) /\ f.saved = top.saved /\ f.args = <<>>

\* The caller goes on after the call with everything as it left it.
Return ==
    /\ Len(frames) > 1
    /\ frames[Len(frames) - 1].args # <<>>
    /\ LET caller == frames[Len(frames) - 1]
           n == Len(caller.args) IN
       frames' = Append(SubSeq(frames, 1, Len(frames) - 2),
                        [caller EXCEPT !.at = After(caller.at),
                                       !.args = SubSeq(caller.args, 1, n - 1)])

NextFrames == SetLocal \/ SetSaved \/ Prepare \/ Pass \/ Call \/ Return
=============================================================================
