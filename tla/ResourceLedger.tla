--------------------------- MODULE ResourceLedger ---------------------------
(***************************************************************************)
(* The resources of a product (engine/resources.ts): transactions planned  *)
(* on balances and committed into the product's map, and the arbitration   *)
(* of actions that claim the same resources (engine/resource-claims.ts).   *)
(*                                                                         *)
(* A turn arbitrates the actions offered, plans a transaction for each of  *)
(* the accepted ones on the balances of that moment, and commits the plans *)
(* one after the other, in any order.  commitResourceTransaction writes    *)
(* the planned balances without looking at the present ones: it is only    *)
(* because accepted actions share no resource that nothing is overwritten. *)
(***************************************************************************)
EXTENDS Integers, Sequences, SequencesExt, FiniteSets

CONSTANTS Definitions,   \* by resource: initial, min, max
          Actions,       \* by action: resources claimed, priority, needs, effects
          Modes,         \* "all-fail", "priority"
          MaxTurns, None

VARIABLES
    balances,   \* the product's map
    plans,      \* plans of the turn's accepted actions, not yet committed
    ledger,     \* the transactions committed, in order
    turns

vars == <<balances, plans, ledger, turns>>

Resources == DOMAIN Definitions

-----------------------------------------------------------------------------
\* arbitrateResourceClaims

Shares(a, b) == Actions[a].resources \cap Actions[b].resources # {}

AllFail(offered) ==
    {k \in DOMAIN offered : \A j \in DOMAIN offered : j # k => ~Shares(offered[j], offered[k])}

\* Lower priorities first, then the order they were offered in; a claim is taken when none
\* of its resources is
Ranked(offered) ==
    SetToSortSeq(DOMAIN offered,
        LAMBDA j, k : \/ Actions[offered[j]].priority < Actions[offered[k]].priority
                      \/ Actions[offered[j]].priority = Actions[offered[k]].priority /\ j < k)

ByPriority(offered) ==
    FoldLeft(LAMBDA taken, k :
                IF \E j \in taken : Shares(offered[j], offered[k]) THEN taken ELSE taken \cup {k},
             {}, Ranked(offered))

Accepted(offered, mode) == IF mode = "all-fail" THEN AllFail(offered) ELSE ByPriority(offered)

-----------------------------------------------------------------------------
\* planResourceTransaction: requirements on the balances as they are, then each effect on
\* those the effects before it leave

Meets(b, needs) == \A k \in DOMAIN needs : b[needs[k].id] >= needs[k].amount

Effect(out, e) ==
    LET next == out.balances[e.id] + e.delta
    IN  IF ~out.ok THEN out
        ELSE IF next < Definitions[e.id].min \/ next > Definitions[e.id].max
             THEN [out EXCEPT !.ok = FALSE]
             ELSE [out EXCEPT !.balances[e.id] = next,
                              !.changes = Append(@, [id |-> e.id, current |-> next])]

Planned(b, a) ==
    LET out == FoldLeft(Effect, [ok |-> Meets(b, Actions[a].needs), balances |-> b,
                                 changes |-> <<>>], Actions[a].effects)
    IN  [action |-> a, ok |-> out.ok, changes |-> IF out.ok THEN out.changes ELSE <<>>]

\* commitResourceTransaction
Committed(b, plan) ==
    FoldLeft(LAMBDA out, c : [out EXCEPT ![c.id] = c.current], b, plan.changes)

-----------------------------------------------------------------------------
Init ==
    /\ balances = [r \in Resources |-> Definitions[r].initial]
    /\ plans = {}
    /\ ledger = <<>>
    /\ turns = 0

\* A turn: the actions offered are arbitrated and the accepted ones planned
Turn(offered, mode) ==
    /\ plans = {}
    /\ turns < MaxTurns
    /\ turns' = turns + 1
    /\ plans' = {Planned(balances, offered[k]) : k \in Accepted(offered, mode)}
    /\ UNCHANGED <<balances, ledger>>

Commit(plan) ==
    /\ plan \in plans
    /\ plans' = plans \ {plan}
    /\ IF plan.ok
       THEN balances' = Committed(balances, plan) /\ ledger' = Append(ledger, plan.action)
       ELSE UNCHANGED <<balances, ledger>>
    /\ UNCHANGED turns

Offers == UNION {[1..n -> DOMAIN Actions] : n \in 1..Cardinality(DOMAIN Actions)}
Distinct(s) == \A j, k \in DOMAIN s : j # k => s[j] # s[k]

Next ==
    \/ \E offered \in {s \in Offers : Distinct(s)}, mode \in Modes : Turn(offered, mode)
    \/ \E plan \in plans : Commit(plan)

Spec == Init /\ [][Next]_vars

-----------------------------------------------------------------------------
\* Properties

\* The sum of what the committed transactions do to a resource
Total(r) ==
    FoldLeft(LAMBDA sum, a :
                FoldLeft(LAMBDA t, e : IF e.id = r THEN t + e.delta ELSE t, sum, Actions[a].effects),
             Definitions[r].initial, ledger)

TypeOK ==
    /\ turns \in 0..MaxTurns
    /\ \A r \in Resources : balances[r] \in Definitions[r].min..Definitions[r].max

\* No effect is lost: every balance is its initial value and the sum of all committed
\* effects, within its bounds, whatever the order in which a turn's plans are committed.
NothingOverwritten == \A r \in Resources : balances[r] = Total(r)

\* Accepted claims never share a resource; an action left out by priority shares one with an
\* accepted action that ranks before it.
ClaimsSettled ==
    \A offered \in {s \in Offers : Distinct(s)} : \A mode \in Modes :
        LET won == Accepted(offered, mode)
        IN  /\ \A j, k \in won : j # k => ~Shares(offered[j], offered[k])
            /\ mode = "priority" => \A k \in DOMAIN offered \ won :
                 \E j \in won : /\ Shares(offered[j], offered[k])
                                /\ Actions[offered[j]].priority <= Actions[offered[k]].priority
=============================================================================
