--------------------------- MODULE PayrollPromise ---------------------------
(***************************************************************************)
(* What the payroll component promises to the employer and the ledger,     *)
(* without handlers, claims or snapshots: each employee's money moves from *)
(* being asked for to being paid or refused, and never back; a second      *)
(* payment is asked for only after one was refused; an outcome is reported *)
(* only when there is such a payment; and an employee who was paid is      *)
(* posted to the ledger, once.                                             *)
(***************************************************************************)
CONSTANTS
  Employees,
  Payments    \* the payments that may be asked for, for one employee

VARIABLES
  money,      \* what the provider holds of each payment
  report,     \* what is reported of each employee's payment
  posted,     \* the postings of each employee in the ledger
  confirmed   \* the employees reported as posted

vars == <<money, report, posted, confirmed>>

Holding == {"none", "pending", "paid", "failed"}

TypeOK ==
  /\ money \in [Employees -> [Payments -> Holding]]
  /\ report \in [Employees -> {"open", "success", "failed"}]
  /\ posted \in [Employees -> SUBSET Payments]
  /\ confirmed \subseteq Employees

Init ==
  /\ money = [e \in Employees |-> [k \in Payments |-> "none"]]
  /\ report = [e \in Employees |-> "open"]
  /\ posted = [e \in Employees |-> {}]
  /\ confirmed = {}

Has(e, holding) == \E k \in Payments : money[e][k] = holding

\* The first payment, or another one after a refusal.
Ask(e, k) ==
  /\ money[e][k] = "none"
  /\ Has(e, "failed") \/ \A l \in Payments : money[e][l] = "none"
  /\ \E h \in Holding \ {"none"} : money' = [money EXCEPT ![e][k] = h]
  /\ UNCHANGED <<report, posted, confirmed>>

Decide(e, k) ==
  /\ money[e][k] = "pending"
  /\ \E h \in {"paid", "failed"} : money' = [money EXCEPT ![e][k] = h]
  /\ UNCHANGED <<report, posted, confirmed>>

Report(e, r) ==
  /\ r = "success" => Has(e, "paid")
  /\ r = "failed" => Has(e, "failed")
  /\ report' = [report EXCEPT ![e] = r]
  /\ UNCHANGED <<money, posted, confirmed>>

Post(e, k) ==
  /\ Has(e, "paid")
  /\ posted[e] = {}
  /\ posted' = [posted EXCEPT ![e] = {k}]
  /\ UNCHANGED <<money, report, confirmed>>

Confirm(e) ==
  /\ posted[e] # {}
  /\ confirmed' = confirmed \cup {e}
  /\ UNCHANGED <<money, report, posted>>

\* A later posting attempt that was not accepted.
Withdraw(e) ==
  /\ confirmed' = confirmed \ {e}
  /\ UNCHANGED <<money, report, posted>>

Next ==
  \E e \in Employees :
    \/ Confirm(e) \/ Withdraw(e)
    \/ \E k \in Payments : Ask(e, k) \/ Decide(e, k) \/ Post(e, k)
    \/ \E r \in {"open", "success", "failed"} : Report(e, r)

Spec == Init /\ [][Next]_vars

=============================================================================
