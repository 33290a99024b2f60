--------------------------- MODULE BridgeLifecycle ---------------------------
(***************************************************************************)
(* What the Base to Stellar bridge promises about one transfer, free of    *)
(* handlers, reads and retries: it is prepared, takes on one burn that is  *)
(* on Base, and from then on moves, needs review or is settled, as what    *)
(* has really happened to that burn allows.                                *)
(***************************************************************************)
CONSTANTS Bridges, Burns, None

VARIABLES
  stage,    \* where each bridge is
  burned,   \* the burn it is about
  base,     \* the burns that are on Base
  minted,   \* the burns whose money has arrived on Stellar
  given     \* the burns Circle has given up on

lvars == <<stage, burned, base, minted, given>>

Init ==
  /\ stage = [b \in Bridges |-> "absent"]
  /\ burned = [b \in Bridges |-> None]
  /\ base = {} /\ minted = {} /\ given = {}

Create(b) ==
  /\ stage[b] = "absent"
  /\ stage' = [stage EXCEPT ![b] = "created"]
  /\ UNCHANGED <<burned, base, minted, given>>

Prepare(b) ==
  /\ stage[b] = "created"
  /\ stage' = [stage EXCEPT ![b] = "prepared"]
  /\ UNCHANGED <<burned, base, minted, given>>

TakeBurn(b) ==
  /\ stage[b] = "prepared"
  /\ \E h \in base : burned' = [burned EXCEPT ![b] = h]
  /\ stage' = [stage EXCEPT ![b] = "moving"]
  /\ UNCHANGED <<base, minted, given>>

Ending(h) == {"moving"} \cup {s \in {"settled"} : h \in minted} \cup {s \in {"review"} : h \in given}

\* What is heard of a burn may be old, so a bridge may be moving again.
Hear(b) ==
  /\ burned[b] # None
  /\ \E s \in Ending(burned[b]) : stage' = [stage EXCEPT ![b] = s]
  /\ UNCHANGED <<burned, base, minted, given>>

World ==
  /\ \E h \in Burns :
       \/ base' = base \cup {h} /\ UNCHANGED <<minted, given>>
       \/ h \in base /\ minted' = minted \cup {h} /\ UNCHANGED <<base, given>>
       \/ h \in base /\ given' = given \cup {h} /\ UNCHANGED <<base, minted>>
  /\ UNCHANGED <<stage, burned>>

Next ==
  \/ \E b \in Bridges : Create(b) \/ Prepare(b) \/ TakeBurn(b) \/ Hear(b)
  \/ World

Spec == Init /\ [][Next]_lvars
=============================================================================
