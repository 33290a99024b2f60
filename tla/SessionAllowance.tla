-------------------------- MODULE SessionAllowance --------------------------
(***************************************************************************)
(* What a contract that holds an owner's money promises about the agents   *)
(* it lets spend: the owner opens an allowance with a budget and an end,   *)
(* may replace or close it at any time, and while it is open and has not   *)
(* ended the agent pays out of what is left of it, and of nothing else.    *)
(***************************************************************************)
EXTENDS Integers

CONSTANT Spenders

VARIABLES
  time,   \* ledger time
  open,   \* the spenders whose allowance is neither absent nor closed
  ends,   \* the last moment each allowance may be used
  left,   \* what is left of each budget
  paid    \* what each spender has paid in its life

avars == <<time, open, ends, left, paid>>

Init ==
  /\ time = 0
  /\ open = {}
  /\ ends = [s \in Spenders |-> 0]
  /\ left = [s \in Spenders |-> 0]
  /\ paid = [s \in Spenders |-> 0]

Open(s) ==
  /\ open' = open \cup {s}
  /\ left'[s] \in Nat \ {0} /\ left' = [left EXCEPT ![s] = left'[s]]
  /\ ends'[s] \in Nat /\ ends'[s] > time /\ ends' = [ends EXCEPT ![s] = ends'[s]]
  /\ UNCHANGED <<time, paid>>

Close(s) ==
  /\ open' = open \ {s}
  /\ UNCHANGED <<time, ends, left, paid>>

Spend(s) ==
  /\ s \in open /\ time <= ends[s]
  /\ \E amount \in 1 .. left[s] :
       /\ left' = [left EXCEPT ![s] = @ - amount]
       /\ paid' = [paid EXCEPT ![s] = @ + amount]
  /\ UNCHANGED <<time, open, ends>>

Pass ==
  /\ time' = time + 1
  /\ UNCHANGED <<open, ends, left, paid>>

Next == Pass \/ \E s \in Spenders : Open(s) \/ Close(s) \/ Spend(s)

Spec == Init /\ [][Next]_avars
=============================================================================
