---------------------------- MODULE AtomicProposals ---------------------------
(***************************************************************************)
(* What governance promises of a proposal, without transactions, calls in  *)
(* progress or senders: the reserves change only when a queued proposal is *)
(* executed within its window, then by all its calls at once, the last     *)
(* word on each reserve counting, and a proposal is executed at most once. *)
(***************************************************************************)
EXTENDS Integers

CONSTANTS Ids, Grace, Assets

VARIABLES
  now,
  configs,   \* the reserves
  state,     \* state[i] of proposal i
  eta,       \* from when on i can be executed
  calls      \* the configurator calls that i stands for: calls[i][k] are
             \* those of its k-th target

vars == <<now, configs, state, eta, calls>>

\* The place <<k, m>> is that of the m-th call of the k-th target.
Places(codes) == UNION {{k} \X DOMAIN codes[k] : k \in DOMAIN codes}
Before(p, q) == p[1] < q[1] \/ (p[1] = q[1] /\ p[2] < q[2])
Latest(places) == CHOOSE p \in places : \A q \in places \ {p} : Before(q, p)

CallAt(codes, p) == codes[p[1]][p[2]]
Doing(op, asset, codes, places) ==
  {p \in places : CallAt(codes, p).op = op /\ CallAt(codes, p).asset = asset}

\* The reserves after the calls at these places: a reserve has the values
\* of the latest call that configures it, and is frozen if any call says so.
Outcome(reserves, codes, places) ==
  [asset \in Assets |->
     LET written == Doing("configure", asset, codes, places)
         values == IF written = {} THEN reserves[asset]
                                   ELSE CallAt(codes, Latest(written))
     IN [ltv |-> values.ltv,
         liquidationThreshold |-> values.liquidationThreshold,
         liquidationBonus |-> values.liquidationBonus,
         isFrozen |-> IF Doing("freeze", asset, codes, places) = {}
                      THEN reserves[asset].isFrozen ELSE TRUE]]

Init == \A i \in Ids : state[i] # "Executed"

Execute(i) ==
  /\ state[i] = "Queued"
  /\ eta[i] <= now /\ now <= eta[i] + Grace
  /\ configs' = Outcome(configs, calls[i], Places(calls[i]))
  /\ state'[i] = "Executed"
  /\ \A j \in Ids \ {i} : state'[j] = state[j]
  /\ UNCHANGED <<now, eta, calls>>

\* Anything else: submission, voting, cancellation, deployment, time.
Prepare ==
  /\ configs' = configs
  /\ \A i \in Ids : (state[i] = "Executed") <=> (state'[i] = "Executed")

Next == (\E i \in Ids : Execute(i)) \/ Prepare

Spec == Init /\ [][Next]_vars
=============================================================================
