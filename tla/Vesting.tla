------------------------------- MODULE Vesting -------------------------------
(***************************************************************************)
(* What a stream promises, without rates, remaining balances, ids or       *)
(* reserves.  A grant, once made, vests linearly between its start and its *)
(* stop; what is paid never exceeds what has vested; and a grant is closed *)
(* only by a payment that settles it, to the last unit vested by then.     *)
(***************************************************************************)
EXTENDS Integers

CONSTANT Grants          \* names of the possible grants

VARIABLES
  now,
  deposit, start, stop,  \* the terms of each grant
  paid,                  \* what it has paid so far
  made, open             \* the grants made, and those not yet closed

vars == <<now, deposit, start, stop, paid, made, open>>

\* The part of the deposit that has vested by now.
Vested(g) ==
  IF now <= start[g] THEN 0
  ELSE IF now >= stop[g] THEN deposit[g]
  ELSE (deposit[g] * (now - start[g])) \div (stop[g] - start[g])

Init ==
  /\ made = {} /\ open = {}
  /\ \A g \in Grants : paid[g] = 0

\* A proposal makes one or several grants at once, none in the past.
MakeGrants(new) ==
  /\ new # {} /\ new \cap made = {}
  /\ made' = made \cup new /\ open' = open \cup new
  /\ \A g \in new : deposit'[g] > 0 /\ now <= start'[g] /\ start'[g] < stop'[g]
  /\ \A g \in Grants \ new :
       /\ deposit'[g] = deposit[g]
       /\ start'[g] = start[g] /\ stop'[g] = stop[g]
  /\ UNCHANGED <<now, paid>>

\* The grant pays part of what has vested, and stays open.
Pay(g) ==
  /\ g \in open
  /\ paid[g] < paid'[g] /\ paid'[g] <= Vested(g) /\ paid'[g] < deposit[g]
  /\ \A h \in Grants \ {g} : paid'[h] = paid[h]
  /\ UNCHANGED <<now, deposit, start, stop, made, open>>

\* The grant pays all that has vested and ends: complete, or revoked.
Settle(g) ==
  /\ g \in open
  /\ paid'[g] = Vested(g)
  /\ open' = open \ {g}
  /\ \A h \in Grants \ {g} : paid'[h] = paid[h]
  /\ UNCHANGED <<now, deposit, start, stop, made>>

Pass ==
  /\ now' > now
  /\ UNCHANGED <<deposit, start, stop, paid, made, open>>

Next ==
  \/ \E new \in SUBSET Grants : MakeGrants(new)
  \/ \E g \in Grants : Pay(g) \/ Settle(g)
  \/ Pass

Spec == Init /\ [][Next]_vars
=============================================================================
