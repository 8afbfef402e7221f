------------------------------- MODULE Wallet -------------------------------
(* What an account of credits promises to its owner, without transactions: the
   balance moves in single steps, each named by a key that is used once and
   each by the amount that kind of key allows. *)
EXTENDS Integers

CONSTANTS User, KeySet, Whose, GRANT, ALLOTMENT, PACK, PROMO, PRICE, COST

VARIABLES opened, balance, applied

Init == opened = {} /\ balance = [u \in User |-> 0] /\ applied = {}

\* An account that is opened starts with the free grant.
Before(u) == IF u \in opened THEN balance[u] ELSE GRANT

Change(kind, now) ==
  CASE kind \in {"debit", "meter"} -> {IF now < COST THEN 0 ELSE now - COST}
    [] kind = "flat"  -> {n \in {now - PRICE} : n >= 0}
    [] kind = "bonus" -> {now + PACK}
    [] kind = "promo" -> {now + PROMO}
    [] kind = "plan"  -> now .. now + ALLOTMENT  \* what is left of the last cycle expires

Open(u) ==
  /\ u \notin opened
  /\ opened' = opened \cup {u}
  /\ balance' = [balance EXCEPT ![u] = GRANT]
  /\ UNCHANGED applied

Apply(k) ==
  LET u == Whose[k]
  IN  /\ k \notin applied
      /\ applied' = applied \cup {k}
      /\ opened' = opened \cup {u}
      /\ \E n \in Change(k[1], Before(u)) : balance' = [balance EXCEPT ![u] = n]

Next == (\E u \in User : Open(u)) \/ (\E k \in KeySet : Apply(k))

Spec == Init /\ [][Next]_<<opened, balance, applied>>
=============================================================================
