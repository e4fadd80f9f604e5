---------------------------- MODULE AtLeastOnce ----------------------------
(***************************************************************************)
(* What a queue with retries promises of an item of work: once the queue   *)
(* has it, the work gets done, unless more faults than Tolerated hit it;   *)
(* and work that was done stays done.                                      *)
(***************************************************************************)
EXTENDS Naturals

CONSTANTS Item, Tolerated

VARIABLES
  state,   \* what became of each item
  faults   \* the faults that have hit its work

Outcome == {"unknown", "owed", "done", "abandoned"}

Init ==
  /\ state = [i \in Item |-> "unknown"]
  /\ faults = [i \in Item |-> 0]

Owe(i) ==
  /\ state[i] = "unknown"
  /\ state' = [state EXCEPT ![i] = "owed"]
  /\ UNCHANGED faults

\* A fault may hit an attempt whose work is already done: it is then repeated.
Fault(i) ==
  /\ state[i] # "unknown"
  /\ faults' = [faults EXCEPT ![i] = @ + 1]
  /\ UNCHANGED state

Do(i) ==
  /\ state[i] = "owed"
  /\ state' = [state EXCEPT ![i] = "done"]
  /\ UNCHANGED faults

\* The fault that is one too many, or the end of what it left running.
GiveUp(i) ==
  /\ state[i] = "owed"
  /\ \E n \in {faults[i], faults[i] + 1} :
       /\ n > Tolerated
       /\ faults' = [faults EXCEPT ![i] = n]
  /\ state' = [state EXCEPT ![i] = "abandoned"]

Next == \E i \in Item : Owe(i) \/ Fault(i) \/ Do(i) \/ GiveUp(i)

Safety == Init /\ [][Next]_<<state, faults>>

\* An item that is owed does not stay owed.
Settle(i) == Do(i) \/ GiveUp(i)
Spec == Safety /\ \A i \in Item : WF_<<state, faults>>(Settle(i))
=============================================================================
