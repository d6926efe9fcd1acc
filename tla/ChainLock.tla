------------------------------ MODULE ChainLock ------------------------------
(***************************************************************************)
(* The row of chain_locks that is to keep a second validity proposer away  *)
(* from a chain: checked and then written by Proposer::new, written again  *)
(* at the end of every successful turn of the loop, and taken for expired  *)
(* once it is a loop interval old.  Time is the database's NOW().          *)
(***************************************************************************)
EXTENDS Integers

CONSTANTS Proposers,     \* processes configured for the same database and chain
          LoopInterval,  \* loop_interval, the pause after a turn and the lock's age limit
          ErrorPause,    \* the pause after a turn that failed, 10 seconds
          MaxTime        \* bound: the clock stops here

VARIABLES now,
          lockedAt,  \* locked_at of the row; a time long gone when there is none
          pc,        \* where each process is
          until      \* when each process's pause ends

vars == <<now, lockedAt, pc, until>>

\* is_chain_locked
Locked == lockedAt > now - LoopInterval

Init ==
    /\ now = 0 /\ lockedAt = - LoopInterval
    /\ pc = [p \in Proposers |-> "down"]
    /\ until = [p \in Proposers |-> 0]

Goto(p, l) == pc' = [pc EXCEPT ![p] = l]

\* Proposer::new finds the chain free ...
Check(p) ==
    /\ pc[p] = "down" /\ ~Locked
    /\ Goto(p, "checked")
    /\ UNCHANGED <<now, lockedAt, until>>

\* ... and then takes the lock, whoever holds it by now.
AddChainLock(p) ==
    /\ pc[p] = "checked"
    /\ lockedAt' = now
    /\ Goto(p, "turn")
    /\ UNCHANGED <<now, until>>

\* A turn of the loop ends well and renews the lock.
TurnSucceeds(p) ==
    /\ pc[p] = "turn"
    /\ lockedAt' = now
    /\ until' = [until EXCEPT ![p] = now + LoopInterval]
    /\ Goto(p, "pause")
    /\ UNCHANGED now

\* A turn fails and does not.
TurnFails(p) ==
    /\ pc[p] = "turn"
    /\ until' = [until EXCEPT ![p] = now + ErrorPause]
    /\ Goto(p, "pause")
    /\ UNCHANGED <<now, lockedAt>>

NextTurn(p) ==
    /\ pc[p] = "pause" /\ now >= until[p]
    /\ Goto(p, "turn")
    /\ UNCHANGED <<now, lockedAt, until>>

Crash(p) ==
    /\ pc[p] # "down"
    /\ Goto(p, "down")
    /\ UNCHANGED <<now, lockedAt, until>>

Tick == now < MaxTime /\ now' = now + 1 /\ UNCHANGED <<lockedAt, pc, until>>

Next ==
    \/ Tick
    \/ \E p \in Proposers :
        \/ Check(p) \/ AddChainLock(p)
        \/ TurnSucceeds(p) \/ TurnFails(p) \/ NextTurn(p) \/ Crash(p)

Spec == Init /\ [][Next]_vars

-----------------------------------------------------------------------------
Working(p) == pc[p] \in {"turn", "pause"}

\* "This check prevents users from running multiple proposers for the same chain at the
\* same time": no process passes the check of Proposer::new while another is working.
\* (That two may pass it together, before either takes the lock, is left aside.)
AdmittedAlone ==
    [][\A p \in Proposers : Check(p) => \A q \in Proposers : ~Working(q)]_vars
=============================================================================
