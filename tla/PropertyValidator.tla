--------------------------- MODULE PropertyValidator ---------------------------
(* The limits on the user properties of a publish, and the bytes of them each  *)
(* client id has sent (broker/modules/defense/property_validator.go).          *)
EXTENDS Naturals, Sequences, Functions, SequencesExt, FiniteSetsExt

CONSTANTS MaxProperties, MaxKeySize, MaxValueSize, MaxPropertyPayload, MaxClientBudget

TotalSize(user) == FoldSeq(LAMBDA p, sum : sum + Len(p[1]) + Len(p[2]), 0, user)
Oversized(user) ==
    \/ Len(user) > MaxProperties
    \/ \E p \in ToSet(user) : Len(p[1]) > MaxKeySize \/ Len(p[2]) > MaxValueSize
    \/ TotalSize(user) > MaxPropertyPayload

Budget(budgets, id) == IF id \in DOMAIN budgets THEN budgets[id] ELSE 0
\* What is over the budget is charged all the same.
Charge(budgets, id, user) ==
    IF user = <<>> \/ Oversized(user) THEN budgets
    ELSE [i \in DOMAIN budgets \cup {id} |->
             IF i = id THEN Budget(budgets, id) + TotalSize(user) ELSE budgets[i]]
PropertiesRejected(budgets, id, user) ==
    user # <<>> /\ (Oversized(user) \/ Budget(budgets, id) + TotalSize(user) > MaxClientBudget)
ForgetBudget(budgets, id) == Restrict(budgets, DOMAIN budgets \ {id})
=================================================================================
