------------------------------ MODULE OutputChain ------------------------------
(***************************************************************************)
(* What the L2 output oracle promises to those who read it: a list of      *)
(* outputs, each one taken on trust or following from the one before it by *)
(* a proof, that grows at its end and may be cut, but never among the      *)
(* outputs that are final.                                                 *)
(***************************************************************************)
EXTENDS Integers, Sequences

CONSTANTS
    Output,            \* outputs; the field trusted tells which need no proof
    Follows(_, _)      \* whether a proof leads from an output to the next

VARIABLES
    chain,     \* the outputs
    final      \* how many of them, from the first, are final

vars == <<chain, final>>

Init == chain = <<>> /\ final = 0

\* An output is added; later ones may become final at once.
Extend(o) ==
    /\ o.trusted \/ (chain # <<>> /\ Follows(chain[Len(chain)], o))
    /\ chain' = Append(chain, o)
    /\ final' \in final .. Len(chain) + 1

\* Outputs from the nth on are withdrawn.
Cut(n) ==
    /\ final < n
    /\ chain' = SubSeq(chain, 1, n - 1)
    /\ final' = final

\* Time passes, or the rule for what is final changes.
Judge ==
    /\ chain' = chain
    /\ final' \in 0 .. Len(chain)

Next == (\E o \in Output : Extend(o)) \/ (\E n \in DOMAIN chain : Cut(n)) \/ Judge

Spec == Init /\ [][Next]_vars
================================================================================
