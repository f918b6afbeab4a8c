--------------------------- MODULE BillingProofs ---------------------------
(***************************************************************************)
(* Proofs about Billing for any sets of accounts, sessions and handlers,   *)
(* any packs and any number of crashes.                                    *)
(***************************************************************************)
EXTENDS Billing, FiniteSetTheorems, TLAPS

(* A row of the credits table stays a row under both statements. *)
LEMMA AddedType ==
  ASSUME NEW row \in CreditRow, NEW n \in Int, NEW k
  PROVE  Added(row, n, k) \in CreditRow
<1>1. row.balance + n \in Int
  BY DEF CreditRow
<1>2. (IF k = "grant" /\ n >= 0 THEN row.granted + n ELSE row.granted) \in Nat
  BY DEF CreditRow
<1>3. (IF k = "purchase" /\ n >= 0 THEN row.purchased + n ELSE row.purchased) \in Nat
  BY DEF CreditRow
<1> QED
  BY <1>1, <1>2, <1>3, Zenon DEF Added, CreditRow

LEMMA DeductedType ==
  ASSUME NEW row \in CreditRow
  PROVE  Deducted(row) \in CreditRow
<1>1. row.balance - 1 \in Int /\ row.used + 1 \in Nat
  BY DEF CreditRow
<1> QED
  BY <1>1, Zenon DEF Deducted, CreditRow

(* What the two ways of changing task do to its type. *)
LEMMA GotoType ==
  ASSUME TypeOK, NEW h \in Handlers, NEW s \in Sessions,
         NEW pc \in {"record", "credit", "tier", "clawback", "mark"},
         NEW via \in EventTypes \union {"none"}, Goto(h, pc, s, via)
  PROVE  task' \in [Handlers -> Task]
BY DEF TypeOK, Goto, Task

LEMMA ReturnType ==
  ASSUME TypeOK, NEW h \in Handlers, Return(h), task[h] # Idle
  PROVE  /\ task' \in [Handlers -> Task]
         /\ acked' \subseteq Event
BY DEF TypeOK, Return, Answered, Task, Idle, Event

LEMMA BusyType ==
  ASSUME TypeOK, NEW h \in Handlers, task[h].pc # "idle"
  PROVE  task[h] # Idle /\ task[h].s \in Sessions /\ task[h].via \in EventTypes \union {"none"}
BY DEF TypeOK, Task, Idle

LEMMA NoOpType ==
  ASSUME TypeOK, NEW s \in Sessions, NEW via \in EventTypes, NoOp(s, via)
  PROVE  TypeOK'
BY DEF TypeOK, NoOp, Answered, Event, EventTypes, external, table, spending, sweeps, history

LEMMA StripeStepType ==
  ASSUME TypeOK, NEW s \in Sessions, NEW from, NEW to \in StripeState, NEW type \in EventTypes,
         StripeStep(s, from, to, type)
  PROVE  TypeOK'
BY DEF TypeOK, StripeStep, Emit, Event, table, spending, sweeps, history

LEMMA ClaimType ==
  ASSUME TypeOK, NEW h \in Handlers, NEW s \in Sessions,
         NEW via \in EventTypes \union {"none"}, Claim(h, s, via)
  PROVE  TypeOK'
<1>1. task' \in [Handlers -> Task]
  BY GotoType DEF Claim
<1> QED
  BY <1>1 DEF TypeOK, Claim, Status, external, spending, sweeps, history

LEMMA TypeInit == BillingAssumption /\ Init => TypeOK
BY DEF Init, TypeOK, BillingAssumption, StripeState, Status, EmptyRow, CreditRow, Task

(* Every step keeps the types. *)
LEMMA TypeStep == BillingAssumption /\ TypeOK /\ [Next]_vars => TypeOK'
<1> SUFFICES ASSUME BillingAssumption, TypeOK, [Next]_vars PROVE TypeOK'
  OBVIOUS
<1>1. ASSUME NEW s \in Sessions, Stripe(s) PROVE TypeOK'
  <2>1. CASE RefundCharge(s)
    BY <2>1 DEF RefundCharge, TypeOK, Emit, Event, EventTypes, table, spending, sweeps, history
  <2>2. CASE Pay(s) \/ PayLater(s) \/ Settle(s) \/ Bounce(s) \/ Expire(s)
    BY <2>2, StripeStepType
    DEF Pay, PayLater, Settle, Bounce, Expire, StripeState, EventTypes
  <2> QED BY <1>1, <2>1, <2>2 DEF Stripe
<1>2. ASSUME NEW s \in Sessions, DeliverIgnored(s) PROVE TypeOK'
  BY <1>2, NoOpType DEF DeliverIgnored
<1>3. ASSUME NEW h \in Handlers, NEW s \in Sessions, OpenCheckout(h, s) PROVE TypeOK'
  <2>1. task' \in [Handlers -> Task]
    BY <1>3, GotoType DEF OpenCheckout
  <2> QED
    BY <1>3, <2>1 DEF OpenCheckout, TypeOK, StripeState, table, spending, sweeps, history
<1>4. ASSUME NEW h \in Handlers, NEW s \in Sessions, VisitSuccess(h, s) PROVE TypeOK'
  BY <1>4, ClaimType DEF VisitSuccess
<1>5. ASSUME NEW h \in Handlers, NEW s \in Sessions, DeliverCompleted(h, s) PROVE TypeOK'
  BY <1>5, ClaimType, NoOpType DEF DeliverCompleted, GrantingTypes, EventTypes
<1>6. ASSUME NEW h \in Handlers, NEW s \in Sessions, DeliverRefunded(h, s) PROVE TypeOK'
  <2>1. CASE NoOp(s, "refunded")
    BY <2>1, NoOpType DEF EventTypes
  <2>2. CASE ~NoOp(s, "refunded")
    <3>1. task' \in [Handlers -> Task]
      BY <1>6, <2>2, GotoType DEF DeliverRefunded, EventTypes
    <3> QED
      BY <1>6, <2>2, <3>1 DEF DeliverRefunded, TypeOK, Status, external, spending, sweeps, history
  <2> QED BY <2>1, <2>2
<1>7. ASSUME NEW h \in Handlers, NEW s \in Sessions, DeliverClosed(h, s) PROVE TypeOK'
  <2>1. PICK type \in ClosingTypes :
          \/ /\ Goto(h, "mark", s, type)
             /\ UNCHANGED <<external, acked, table, credit, spending, crashes, sweeps, history>>
          \/ NoOp(s, type)
    BY <1>7 DEF DeliverClosed
  <2>2. type \in EventTypes
    BY DEF ClosingTypes, EventTypes
  <2>3. CASE NoOp(s, type)
    BY <2>2, <2>3, NoOpType
  <2>4. CASE Goto(h, "mark", s, type)
             /\ UNCHANGED <<external, acked, table, credit, spending, crashes, sweeps, history>>
    <3>1. task' \in [Handlers -> Task]
      BY <2>2, <2>4, GotoType
    <3> QED
      BY <2>4, <3>1 DEF TypeOK, external, table, spending, sweeps, history
  <2> QED BY <2>1, <2>3, <2>4
<1>8. ASSUME NEW h \in Handlers, Continue(h) PROVE TypeOK'
  <2>0. /\ task[h] # Idle /\ task[h].s \in Sessions
        /\ task[h].via \in EventTypes \union {"none"}
    BY <1>8, BusyType
    DEF Continue, RecordPending, AddPurchased, UpgradeTier, Clawback, MarkClosed
  <2>1. CASE RecordPending(h)
    <3>1. task' \in [Handlers -> Task] /\ acked' \subseteq Event
      BY <2>0, <2>1, ReturnType DEF RecordPending
    <3> QED
      BY <2>0, <2>1, <3>1 DEF RecordPending, TypeOK, Status, spending, sweeps, history
  <2>2. CASE AddPurchased(h)
    <3> DEFINE s == task[h].s
    <3>1. task' \in [Handlers -> Task] /\ acked' \subseteq Event
      <4>1. CASE NeedsTier(s)
        BY <2>0, <2>2, <4>1, GotoType DEF AddPurchased, TypeOK
      <4>2. CASE ~NeedsTier(s)
        BY <2>0, <2>2, <4>2, ReturnType DEF AddPurchased
      <4> QED BY <4>1, <4>2
    <3>0. credit[Buyer[s]] \in CreditRow /\ Credits[s] \in Int /\ -Credits[s] \in Int
      BY <2>0 DEF TypeOK, BillingAssumption
    <3>2. Added(credit[Buyer[s]], Credits[s], "purchase") \in CreditRow
      BY <3>0, AddedType
    <3>3. credit' \in [Users -> CreditRow]
      BY <2>0, <2>2, <3>2 DEF AddPurchased, TypeOK
    <3>4. applied' \in [Sessions -> Nat]
      BY <2>0, <2>2 DEF AddPurchased, TypeOK
    <3> QED
      BY <2>2, <3>1, <3>3, <3>4 DEF AddPurchased, TypeOK, external, table, spending, sweeps
  <2>3. CASE UpgradeTier(h)
    <3>1. task' \in [Handlers -> Task] /\ acked' \subseteq Event
      BY <2>0, <2>3, ReturnType DEF UpgradeTier
    <3> QED
      BY <2>0, <2>3, <3>1 DEF UpgradeTier, TypeOK, external, spending, sweeps, history
  <2>4. CASE Clawback(h)
    <3> DEFINE s == task[h].s
    <3>1. task' \in [Handlers -> Task] /\ acked' \subseteq Event
      BY <2>0, <2>4, ReturnType DEF Clawback
    <3>0. credit[Buyer[s]] \in CreditRow /\ Credits[s] \in Int /\ -Credits[s] \in Int
      BY <2>0 DEF TypeOK, BillingAssumption
    <3>2. Added(credit[Buyer[s]], -Credits[s], "purchase") \in CreditRow
      BY <3>0, AddedType
    <3>3. credit' \in [Users -> CreditRow]
      BY <2>0, <2>4, <3>2 DEF Clawback, TypeOK
    <3>4. clawed' \in [Sessions -> Nat]
      BY <2>0, <2>4 DEF Clawback, TypeOK
    <3> QED
      BY <2>4, <3>1, <3>3, <3>4 DEF Clawback, TypeOK, external, table, spending, sweeps
  <2>5. CASE MarkClosed(h)
    <3>1. task' \in [Handlers -> Task] /\ acked' \subseteq Event
      BY <2>0, <2>5, ReturnType DEF MarkClosed
    <3> QED
      BY <2>0, <2>5, <3>1 DEF MarkClosed, TypeOK, Status, external, spending, sweeps, history
  <2> QED BY <1>8, <2>1, <2>2, <2>3, <2>4, <2>5 DEF Continue
<1>9. ASSUME NEW h \in Handlers, Crash(h) PROVE TypeOK'
  BY <1>9 DEF Crash, TypeOK, Task, external, table, spending, sweeps, history
<1>10. ASSUME NEW u \in Users, Ledger(u) PROVE TypeOK'
  <2>1. CASE Spend(u)
    <3>1. credit' \in [Users -> CreditRow]
      BY <2>1, DeductedType DEF Spend, TypeOK
    <3> QED BY <2>1, <3>1 DEF Spend, TypeOK, external, table, sweeps, history
  <2>2. CASE FinishGeneration(u)
    BY <2>2 DEF FinishGeneration, TypeOK, external, table, sweeps, history
  <2>3. CASE ReturnCredit(u)
    <3>1. credit' \in [Users -> CreditRow]
      BY <2>3, AddedType DEF ReturnCredit, TypeOK
    <3> QED BY <2>3, <3>1 DEF ReturnCredit, TypeOK, external, table, sweeps, history
  <2>4. ASSUME NEW n \in AdminAmounts, AdminAdjust(u, n) PROVE TypeOK'
    <3>0. n \in Int
      BY DEF BillingAssumption
    <3>1. credit' \in [Users -> CreditRow]
      BY <2>4, <3>0, AddedType DEF AdminAdjust, TypeOK
    <3>2. revoked' \in [Users -> Nat]
      BY <2>4, <3>0 DEF AdminAdjust, TypeOK
    <3> QED BY <2>4, <3>1, <3>2 DEF AdminAdjust, TypeOK, external, table, sweeps
  <2> QED BY <1>10, <2>1, <2>2, <2>3, <2>4 DEF Ledger
<1>11. ASSUME NEW s \in Sessions, Age(s) PROVE TypeOK'
  BY <1>11 DEF Age, TypeOK, external, table, spending, history
<1>12. CASE Sweep
  BY <1>12 DEF Sweep, Stale, TypeOK, Status, external, spending, history
<1>13. CASE UNCHANGED vars
  BY <1>13 DEF vars, TypeOK, external, table, spending, sweeps, history
<1> QED
  BY <1>1, <1>2, <1>3, <1>4, <1>5, <1>6, <1>7, <1>8, <1>9, <1>10, <1>11, <1>12, <1>13
  DEF Next, Deliver

(* The tables, Stripe's states and every handler stay within their types. *)
THEOREM TypeCorrect == Spec => []TypeOK
BY BillingAssumption, TypeInit, TypeStep, PTL DEF Spec

-----------------------------------------------------------------------------
(***************************************************************************)
(* The inductive invariant                                                 *)
(***************************************************************************)

(* Only the handler that acts changes what it does next. *)
LEMMA GotoEffect ==
  ASSUME TypeOK, NEW h \in Handlers, NEW s, NEW pc, NEW via, Goto(h, pc, s, via)
  PROVE  /\ task'[h] = [pc |-> pc, s |-> s, via |-> via]
         /\ \A g \in Handlers : g # h => task'[g] = task[g]
BY DEF TypeOK, Goto

LEMMA ReturnEffect ==
  ASSUME TypeOK, NEW h \in Handlers, task' = [task EXCEPT ![h] = Idle]
  PROVE  /\ task'[h].pc = "idle"
         /\ \A g \in Handlers : g # h => task'[g] = task[g]
BY DEF TypeOK, Idle

LEMMA IInvInit == BillingAssumption /\ Init => IInv
<1> SUFFICES ASSUME BillingAssumption, Init PROVE IInv
  OBVIOUS
<1>1. TypeOK
  BY TypeInit
<1>2. \A h \in Handlers, s \in Sessions : task[h].s # s
  BY DEF Init, Idle, BillingAssumption
<1>3. RecordInv
  BY <1>2 DEF RecordInv, Doing, Init
<1>4. OutcomeInv
  BY <1>2 DEF OutcomeInv, Doing, Init
<1>5. GrantInv /\ ReversalInv
  BY <1>2 DEF GrantInv, ReversalInv, Doing, Init
<1> QED
  BY <1>1, <1>3, <1>4, <1>5 DEF IInv

(* A step of Stripe leaves the rows and the handlers alone and respects    *)
(* what is recorded about them.                                            *)
LEMMA StripeInv ==
  ASSUME IInv, NEW s \in Sessions, Stripe(s)
  PROVE  RecordInv' /\ OutcomeInv' /\ GrantInv' /\ ReversalInv'
<1> USE DEF IInv
<1>1. UNCHANGED <<status, url, task, swept, applied, clawed>>
  BY DEF Stripe, Pay, PayLater, Settle, Bounce, Expire, StripeStep, RefundCharge,
         table, sweeps, history
<1>2. GrantInv' /\ ReversalInv'
  BY <1>1 DEF GrantInv, ReversalInv, Doing
<1>3. CASE RefundCharge(s)
  <2>1. UNCHANGED stripe /\ events' = events \union {[type |-> "refunded", s |-> s]}
    BY <1>3 DEF RefundCharge, Emit
  <2>2. \A e \in events' : e \in events \/ e.type = "refunded"
    BY <2>1
  <2>3. OutcomeInv'
    BY <1>1, <2>1, <2>2 DEF OutcomeInv, Doing
  <2> QED
    BY <1>1, <2>1, <2>3, <1>2 DEF RecordInv, Doing
<1>4. ASSUME NEW from, NEW to, NEW type, StripeStep(s, from, to, type),
             \/ from = "open" /\ to = "paid" /\ type = "completed_paid" /\ s \in url
             \/ from = "open" /\ to = "unpaid" /\ type = "completed_unpaid" /\ s \in url
             \/ from = "unpaid" /\ to = "paid" /\ type = "async_succeeded"
             \/ from = "unpaid" /\ to = "failed" /\ type = "async_failed"
             \/ /\ from = "open" /\ to = "expired" /\ type = "expired"
                /\ \A h \in Handlers : task[h].s # s
      PROVE  RecordInv' /\ OutcomeInv'
  <2>1. stripe[s] = from /\ stripe'[s] = to /\ \A t \in Sessions \ {s} : stripe'[t] = stripe[t]
    BY <1>4 DEF StripeStep, TypeOK
  <2>2. events' = events \union {[type |-> type, s |-> s]}
    BY <1>4 DEF StripeStep, Emit
  <2>3. RecordInv'
    BY <1>1, <1>4, <2>1 DEF RecordInv, Doing
  <2>4. \A t \in Sessions : stripe[t] \in {"paid", "failed", "expired"} => stripe'[t] = stripe[t]
    BY <1>4, <2>1
  <2>5. OutcomeInv'
    <3>1. ASSUME NEW e \in events'
          PROVE  /\ e.type = "completed_paid" => stripe'[e.s] = "paid"
                 /\ e.type = "expired" => stripe'[e.s] = "expired"
                 /\ e.type = "async_failed" => stripe'[e.s] = "failed"
      <4>1. CASE e \in events
        <5>1. e.s \in Sessions
          BY <4>1 DEF TypeOK, Event
        <5> QED BY <4>1, <5>1, <2>4 DEF OutcomeInv
      <4>2. CASE e = [type |-> type, s |-> s]
        BY <4>2, <2>1, <1>4
      <4> QED BY <4>1, <4>2, <2>2
    <3>2. ASSUME NEW t \in Sessions
          PROVE  /\ status[t] \in {"completed", "refunded"} => stripe'[t] = "paid"
                 /\ status[t] = "expired" => stripe'[t] = "expired" \/ t \in swept
                 /\ status[t] = "failed" => stripe'[t] = "failed"
                 /\ \A h \in Handlers :
                      Doing(h, t, "mark") =>
                        /\ t \in url
                        /\ stripe'[t] = IF task[h].via = "expired" THEN "expired" ELSE "failed"
      BY <2>4 DEF OutcomeInv
    <3> QED BY <1>1, <3>1, <3>2 DEF OutcomeInv, Doing
  <2> QED BY <2>3, <2>5
<1>5. CASE Pay(s) \/ PayLater(s)
  BY <1>2, <1>4, <1>5 DEF Pay, PayLater
<1>6. CASE Settle(s) \/ Bounce(s) \/ Expire(s)
  BY <1>2, <1>4, <1>6 DEF Settle, Bounce, Expire
<1> QED
  BY <1>2, <1>3, <1>5, <1>6 DEF Stripe

(* Winning the row: nobody else holds it, because it was still pending. *)
LEMMA ClaimInv ==
  ASSUME IInv, NEW h \in Handlers, NEW s \in Sessions, NEW via,
         task[h] = Idle, stripe[s] = "paid", Claim(h, s, via)
  PROVE  RecordInv' /\ OutcomeInv' /\ GrantInv' /\ ReversalInv'
<1> USE DEF IInv
<1>1. /\ task'[h] = [pc |-> "credit", s |-> s, via |-> via]
      /\ \A g \in Handlers : g # h => task'[g] = task[g]
  BY GotoEffect DEF Claim
<1>2. /\ status[s] = "pending" /\ status'[s] = "completed"
      /\ \A t \in Sessions \ {s} : status'[t] = status[t]
      /\ UNCHANGED <<stripe, url, events, swept, applied, clawed>>
  BY DEF Claim, Claimable, TypeOK, external, sweeps, history
<1>3. RecordInv'
  BY <1>1, <1>2 DEF RecordInv, Doing
<1>4. OutcomeInv'
  BY <1>1, <1>2 DEF OutcomeInv, Doing
<1>5. applied \in [Sessions -> Nat] /\ clawed \in [Sessions -> Nat]
  BY DEF TypeOK
<1>6. applied[s] = 0
  BY <1>2, <1>5 DEF GrantInv
<1>7. GrantInv'
  BY <1>1, <1>2, <1>6 DEF GrantInv, Doing
<1>8. ReversalInv'
  BY <1>1, <1>2 DEF ReversalInv, Doing
<1> QED BY <1>3, <1>4, <1>7, <1>8

(* A step that changes none of these keeps the invariant. *)
LEMMA QuietInv ==
  ASSUME IInv, UNCHANGED <<stripe, events, url, status, task, swept, applied, clawed>>
  PROVE  RecordInv' /\ OutcomeInv' /\ GrantInv' /\ ReversalInv'
BY DEF IInv, RecordInv, OutcomeInv, GrantInv, ReversalInv, Doing

(* A handler that ends or dies takes only its own obligation with it. *)
LEMMA EndInv ==
  ASSUME IInv, NEW h \in Handlers, task' = [task EXCEPT ![h] = Idle],
         UNCHANGED <<stripe, events, url, status, swept, applied, clawed>>
  PROVE  RecordInv' /\ OutcomeInv' /\ GrantInv' /\ ReversalInv'
<1> USE DEF IInv
<1>1. /\ task'[h].pc = "idle"
      /\ \A g \in Handlers : g # h => task'[g] = task[g]
  BY ReturnEffect
<1>2. RecordInv'
  BY <1>1 DEF RecordInv, Doing
<1>3. OutcomeInv'
  BY <1>1 DEF OutcomeInv, Doing
<1>4. GrantInv' /\ ReversalInv'
  BY <1>1 DEF GrantInv, ReversalInv, Doing
<1> QED BY <1>2, <1>3, <1>4

LEMMA OpenCheckoutInv ==
  ASSUME IInv, NEW h \in Handlers, NEW s \in Sessions, OpenCheckout(h, s)
  PROVE  RecordInv' /\ OutcomeInv' /\ GrantInv' /\ ReversalInv'
<1> USE DEF IInv
<1>1. /\ task'[h] = [pc |-> "record", s |-> s, via |-> "none"]
      /\ \A g \in Handlers : g # h => task'[g] = task[g]
  BY GotoEffect DEF OpenCheckout
<1>2. /\ stripe[s] = "none" /\ stripe'[s] = "open"
      /\ \A t \in Sessions \ {s} : stripe'[t] = stripe[t]
      /\ UNCHANGED <<url, events, status, swept, applied, clawed>>
  BY DEF OpenCheckout, TypeOK, table, sweeps, history
<1>3. RecordInv'
  BY <1>1, <1>2 DEF RecordInv, Doing
<1>4. events \subseteq Event
  BY DEF TypeOK
<1>5. OutcomeInv'
  <2>1. ASSUME NEW e \in events
        PROVE  /\ e.type = "completed_paid" => stripe'[e.s] = "paid"
               /\ e.type = "expired" => stripe'[e.s] = "expired"
               /\ e.type = "async_failed" => stripe'[e.s] = "failed"
    <3>1. e.s \in Sessions
      BY <1>4 DEF Event
    <3> QED BY <3>1, <1>2 DEF OutcomeInv
  <2> QED BY <1>1, <1>2, <2>1 DEF OutcomeInv, Doing
<1>6. GrantInv' /\ ReversalInv'
  BY <1>1, <1>2 DEF GrantInv, ReversalInv, Doing
<1> QED BY <1>3, <1>5, <1>6

LEMMA DeliverCompletedInv ==
  ASSUME IInv, NEW h \in Handlers, NEW s \in Sessions, DeliverCompleted(h, s)
  PROVE  RecordInv' /\ OutcomeInv' /\ GrantInv' /\ ReversalInv'
<1>1. /\ task[h] = Idle /\ [type |-> "completed_paid", s |-> s] \in events
      /\ Claim(h, s, "completed_paid") \/ NoOp(s, "completed_paid")
  BY DEF DeliverCompleted, GrantingTypes
<1>2. stripe[s] = "paid"
  BY <1>1 DEF IInv, OutcomeInv
<1>3. CASE Claim(h, s, "completed_paid")
  BY <1>1, <1>2, <1>3, ClaimInv
<1>4. CASE NoOp(s, "completed_paid")
  BY <1>4, QuietInv DEF NoOp, external, table, sweeps, history
<1> QED BY <1>1, <1>3, <1>4

LEMMA DeliverRefundedInv ==
  ASSUME IInv, NEW h \in Handlers, NEW s \in Sessions, DeliverRefunded(h, s)
  PROVE  RecordInv' /\ OutcomeInv' /\ GrantInv' /\ ReversalInv'
<1> USE DEF IInv
<1>1. CASE NoOp(s, "refunded")
  BY <1>1, QuietInv DEF NoOp, external, table, sweeps, history
<1>2. CASE ~NoOp(s, "refunded")
  <2>1. /\ task'[h] = [pc |-> "clawback", s |-> s, via |-> "refunded"]
        /\ \A g \in Handlers : g # h => task'[g] = task[g]
    BY <1>2, GotoEffect DEF DeliverRefunded
  <2>2. /\ status[s] = "completed" /\ status'[s] = "refunded"
        /\ \A t \in Sessions \ {s} : status'[t] = status[t]
        /\ UNCHANGED <<stripe, url, events, swept, applied, clawed>>
    BY <1>2 DEF DeliverRefunded, Reversible, TypeOK, external, sweeps, history
  <2>3. task[h] = Idle
    BY DEF DeliverRefunded
  <2>4. RecordInv'
    BY <2>1, <2>2 DEF RecordInv, Doing
  <2>5. OutcomeInv'
    BY <2>1, <2>2 DEF OutcomeInv, Doing
  <2>6. GrantInv'
    BY <2>1, <2>2 DEF GrantInv, Doing
  <2>7. clawed \in [Sessions -> Nat]
    BY DEF TypeOK
  <2>8. clawed[s] = 0
    BY <2>2, <2>7 DEF ReversalInv
  <2>9. ReversalInv'
    BY <2>1, <2>2, <2>8 DEF ReversalInv, Doing
  <2> QED BY <2>4, <2>5, <2>6, <2>9
<1> QED BY <1>1, <1>2

LEMMA DeliverClosedInv ==
  ASSUME IInv, NEW h \in Handlers, NEW s \in Sessions, DeliverClosed(h, s)
  PROVE  RecordInv' /\ OutcomeInv' /\ GrantInv' /\ ReversalInv'
<1> USE DEF IInv
<1>1. PICK type \in ClosingTypes :
        /\ task[h] = Idle /\ [type |-> type, s |-> s] \in events
        /\ \/ /\ status[s] = "pending"
              /\ Goto(h, "mark", s, type)
              /\ UNCHANGED <<external, acked, table, credit, spending, crashes, sweeps, history>>
           \/ NoOp(s, type)
  BY DEF DeliverClosed
<1>2. CASE NoOp(s, type)
  BY <1>2, QuietInv DEF NoOp, external, table, sweeps, history
<1>3. CASE ~NoOp(s, type)
  <2>1. /\ task'[h] = [pc |-> "mark", s |-> s, via |-> type]
        /\ \A g \in Handlers : g # h => task'[g] = task[g]
    BY <1>1, <1>3, GotoEffect
  <2>2. /\ status[s] = "pending"
        /\ UNCHANGED <<stripe, url, events, status, swept, applied, clawed>>
    BY <1>1, <1>3 DEF external, table, sweeps, history
  <2>3. stripe[s] = IF type = "expired" THEN "expired" ELSE "failed"
    BY <1>1 DEF OutcomeInv, ClosingTypes
  <2>4. RecordInv'
    BY <2>1, <2>2 DEF RecordInv, Doing
  <2>5. s \in url
    BY <2>2 DEF RecordInv
  <2>6. OutcomeInv'
    BY <2>1, <2>2, <2>3, <2>5 DEF OutcomeInv, Doing
  <2>7. GrantInv' /\ ReversalInv'
    BY <2>1, <2>2 DEF GrantInv, ReversalInv, Doing
  <2> QED BY <2>4, <2>6, <2>7
<1> QED BY <1>2, <1>3

LEMMA RecordPendingInv ==
  ASSUME IInv, NEW h \in Handlers, RecordPending(h)
  PROVE  RecordInv' /\ OutcomeInv' /\ GrantInv' /\ ReversalInv'
<1> USE DEF IInv
<1> DEFINE s == task[h].s
<1>1. s \in Sessions /\ Doing(h, s, "record")
  BY BusyType DEF RecordPending, Doing
<1>2. /\ task'[h].pc = "idle"
      /\ \A g \in Handlers : g # h => task'[g] = task[g]
  BY ReturnEffect DEF RecordPending, Return
<1>3. /\ status'[s] = "pending" /\ url' = url \union {s}
      /\ \A t \in Sessions \ {s} : status'[t] = status[t]
      /\ UNCHANGED <<stripe, events, swept, applied, clawed>>
  BY <1>1 DEF RecordPending, TypeOK, sweeps, history
<1>4. status[s] = "absent" /\ stripe[s] = "open"
  BY <1>1 DEF RecordInv
<1> HIDE DEF s
<1>5. RecordInv'
  BY <1>1, <1>2, <1>3, <1>4 DEF RecordInv, Doing
<1>6. OutcomeInv'
  BY <1>1, <1>2, <1>3, <1>4 DEF OutcomeInv, Doing
<1>7. GrantInv'
  BY <1>1, <1>2, <1>3, <1>4 DEF GrantInv, Doing
<1>8. ReversalInv'
  BY <1>1, <1>2, <1>3, <1>4 DEF ReversalInv, Doing
<1> QED BY <1>5, <1>6, <1>7, <1>8

(* Paying out: the handler that won the row is the only one that owes it. *)
LEMMA AddPurchasedInv ==
  ASSUME IInv, NEW h \in Handlers, AddPurchased(h)
  PROVE  RecordInv' /\ OutcomeInv' /\ GrantInv' /\ ReversalInv'
<1> USE DEF IInv
<1> DEFINE s == task[h].s
<1>1. s \in Sessions /\ Doing(h, s, "credit")
  BY BusyType DEF AddPurchased, Doing
<1>2. /\ task'[h].pc \in {"idle", "tier"}
      /\ \A g \in Handlers : g # h => task'[g] = task[g]
  <2>1. CASE NeedsTier(s)
    <3>1. Goto(h, "tier", s, task[h].via)
      BY <2>1 DEF AddPurchased
    <3>2. /\ task'[h] = [pc |-> "tier", s |-> s, via |-> task[h].via]
          /\ \A g \in Handlers : g # h => task'[g] = task[g]
      BY <3>1, GotoEffect
    <3> QED BY <3>2
  <2>2. CASE ~NeedsTier(s)
    BY <2>2, ReturnEffect DEF AddPurchased, Return
  <2> QED BY <2>1, <2>2
<1>3. /\ applied'[s] = applied[s] + 1
      /\ \A t \in Sessions \ {s} : applied'[t] = applied[t]
      /\ UNCHANGED <<stripe, events, url, status, swept, clawed>>
  BY <1>1 DEF AddPurchased, TypeOK, external, table, sweeps
<1>4. applied[s] = 0 /\ status[s] \in {"completed", "refunded"}
  BY <1>1 DEF GrantInv
<1> HIDE DEF s
<1>5. RecordInv'
  BY <1>2, <1>3 DEF RecordInv, Doing
<1>6. OutcomeInv'
  BY <1>2, <1>3 DEF OutcomeInv, Doing
<1>7. GrantInv'
  BY <1>1, <1>2, <1>3, <1>4 DEF GrantInv, Doing
<1>8. ReversalInv'
  BY <1>2, <1>3 DEF ReversalInv, Doing
<1> QED BY <1>5, <1>6, <1>7, <1>8

LEMMA ClawbackInv ==
  ASSUME IInv, NEW h \in Handlers, Clawback(h)
  PROVE  RecordInv' /\ OutcomeInv' /\ GrantInv' /\ ReversalInv'
<1> USE DEF IInv
<1> DEFINE s == task[h].s
<1>1. s \in Sessions /\ Doing(h, s, "clawback")
  BY BusyType DEF Clawback, Doing
<1>2. /\ task'[h].pc = "idle"
      /\ \A g \in Handlers : g # h => task'[g] = task[g]
  BY ReturnEffect DEF Clawback, Return
<1>3. /\ clawed'[s] = clawed[s] + 1
      /\ \A t \in Sessions \ {s} : clawed'[t] = clawed[t]
      /\ UNCHANGED <<stripe, events, url, status, swept, applied>>
  BY <1>1 DEF Clawback, TypeOK, external, table, sweeps
<1>4. clawed[s] = 0 /\ status[s] = "refunded"
  BY <1>1 DEF ReversalInv
<1> HIDE DEF s
<1>5. RecordInv'
  BY <1>2, <1>3 DEF RecordInv, Doing
<1>6. OutcomeInv'
  BY <1>2, <1>3 DEF OutcomeInv, Doing
<1>7. GrantInv'
  BY <1>2, <1>3 DEF GrantInv, Doing
<1>8. ReversalInv'
  BY <1>1, <1>2, <1>3, <1>4 DEF ReversalInv, Doing
<1> QED BY <1>5, <1>6, <1>7, <1>8

(* The update that does not look at the status again only ever meets a     *)
(* session Stripe has closed, so it overwrites no completed row.           *)
LEMMA MarkClosedInv ==
  ASSUME IInv, NEW h \in Handlers, MarkClosed(h)
  PROVE  RecordInv' /\ OutcomeInv' /\ GrantInv' /\ ReversalInv'
<1> USE DEF IInv
<1> DEFINE s == task[h].s
           closed == IF task[h].via = "expired" THEN "expired" ELSE "failed"
<1>1. s \in Sessions /\ Doing(h, s, "mark")
  BY BusyType DEF MarkClosed, Doing
<1>2. /\ task'[h].pc = "idle"
      /\ \A g \in Handlers : g # h => task'[g] = task[g]
  BY ReturnEffect DEF MarkClosed, Return
<1>3. /\ status'[s] = closed
      /\ \A t \in Sessions \ {s} : status'[t] = status[t]
      /\ UNCHANGED <<stripe, events, url, swept, applied, clawed>>
  BY <1>1 DEF MarkClosed, TypeOK, external, sweeps, history
<1>4. stripe[s] = closed /\ s \in url
  BY <1>1 DEF OutcomeInv
<1>5. closed \in {"expired", "failed"}
  OBVIOUS
<1>6. status[s] \notin {"completed", "refunded", "absent"}
  BY <1>1, <1>4, <1>5 DEF OutcomeInv, RecordInv
<1> HIDE DEF s, closed
<1>7. RecordInv'
  BY <1>1, <1>2, <1>3, <1>4, <1>5, <1>6 DEF RecordInv, Doing
<1>8. OutcomeInv'
  BY <1>1, <1>2, <1>3, <1>4, <1>5, <1>6 DEF OutcomeInv, Doing
<1>9. GrantInv'
  BY <1>1, <1>2, <1>3, <1>6 DEF GrantInv, Doing
<1>10. ReversalInv'
  BY <1>1, <1>2, <1>3, <1>6 DEF ReversalInv, Doing
<1> QED BY <1>7, <1>8, <1>9, <1>10

(* The sweep closes pending rows only, and remembers which. *)
LEMMA SweepInv ==
  ASSUME IInv, Sweep
  PROVE  RecordInv' /\ OutcomeInv' /\ GrantInv' /\ ReversalInv'
<1> USE DEF IInv
<1>1. /\ \A s \in Sessions :
           \/ status'[s] = status[s]
           \/ status[s] = "pending" /\ status'[s] = "expired" /\ s \in swept'
      /\ swept \subseteq swept'
      /\ UNCHANGED <<stripe, events, url, task, applied, clawed>>
  BY DEF Sweep, Stale, external, history
<1>2. RecordInv'
  BY <1>1 DEF RecordInv, Doing
<1>3. OutcomeInv'
  BY <1>1 DEF OutcomeInv, Doing
<1>4. GrantInv'
  BY <1>1 DEF GrantInv, Doing
<1>5. ReversalInv'
  BY <1>1 DEF ReversalInv, Doing
<1> QED BY <1>2, <1>3, <1>4, <1>5

LEMMA IInvStep == BillingAssumption /\ IInv /\ [Next]_vars => IInv'
<1> SUFFICES ASSUME BillingAssumption, IInv, [Next]_vars
             PROVE  RecordInv' /\ OutcomeInv' /\ GrantInv' /\ ReversalInv'
  BY TypeStep DEF IInv
<1>1. ASSUME NEW s \in Sessions, Stripe(s)
      PROVE  RecordInv' /\ OutcomeInv' /\ GrantInv' /\ ReversalInv'
  BY <1>1, StripeInv
<1>2. ASSUME NEW s \in Sessions, DeliverIgnored(s)
      PROVE  RecordInv' /\ OutcomeInv' /\ GrantInv' /\ ReversalInv'
  BY <1>2, QuietInv DEF DeliverIgnored, NoOp, external, table, sweeps, history
<1>3. ASSUME NEW h \in Handlers, NEW s \in Sessions, OpenCheckout(h, s)
      PROVE  RecordInv' /\ OutcomeInv' /\ GrantInv' /\ ReversalInv'
  BY <1>3, OpenCheckoutInv
<1>4. ASSUME NEW h \in Handlers, NEW s \in Sessions, VisitSuccess(h, s)
      PROVE  RecordInv' /\ OutcomeInv' /\ GrantInv' /\ ReversalInv'
  BY <1>4, ClaimInv DEF VisitSuccess
<1>5. ASSUME NEW h \in Handlers, NEW s \in Sessions, Deliver(h, s)
      PROVE  RecordInv' /\ OutcomeInv' /\ GrantInv' /\ ReversalInv'
  BY <1>5, DeliverCompletedInv, DeliverRefundedInv, DeliverClosedInv DEF Deliver
<1>6. ASSUME NEW h \in Handlers, Continue(h)
      PROVE  RecordInv' /\ OutcomeInv' /\ GrantInv' /\ ReversalInv'
  <2>1. CASE UpgradeTier(h)
    BY <2>1, EndInv DEF UpgradeTier, Return, external, sweeps, history
  <2> QED
    BY <1>6, <2>1, RecordPendingInv, AddPurchasedInv, ClawbackInv, MarkClosedInv DEF Continue
<1>7. ASSUME NEW h \in Handlers, Crash(h)
      PROVE  RecordInv' /\ OutcomeInv' /\ GrantInv' /\ ReversalInv'
  BY <1>7, EndInv DEF Crash, external, table, sweeps, history
<1>8. ASSUME NEW u \in Users, Ledger(u)
      PROVE  RecordInv' /\ OutcomeInv' /\ GrantInv' /\ ReversalInv'
  BY <1>8, QuietInv
  DEF Ledger, Spend, FinishGeneration, ReturnCredit, AdminAdjust, external, table, sweeps, history
<1>9. ASSUME NEW s \in Sessions, Age(s)
      PROVE  RecordInv' /\ OutcomeInv' /\ GrantInv' /\ ReversalInv'
  BY <1>9, QuietInv DEF Age, external, table, history
<1>10. CASE Sweep
  BY <1>10, SweepInv
<1>11. CASE UNCHANGED vars
  BY <1>11, QuietInv DEF vars, external, table, sweeps, history
<1> QED
  BY <1>1, <1>2, <1>3, <1>4, <1>5, <1>6, <1>7, <1>8, <1>9, <1>10, <1>11 DEF Next

(* Between two commits a handler's claim, reversal or insert still stands: *)
(* no row is claimed or reversed twice, and Stripe's outcomes exclude each *)
(* other (stripe_webhook, the grant, the reversal and the startup sweep).  *)
THEOREM InvariantHolds == Spec => []IInv
BY BillingAssumption, IInvInit, IInvStep, PTL DEF Spec

(* Webhook and success page together add a session's credits at most once, *)
(* and repeated refund events take them back at most once, whatever the    *)
(* number of handlers, of deliveries and of crashes.                       *)
THEOREM GrantedAtMostOnce == Spec => []AtMostOnce
<1>1. IInv => AtMostOnce
  BY DEF IInv, GrantInv, ReversalInv, AtMostOnce
<1> QED BY <1>1, InvariantHolds, PTL

(* No credits are added for a session Stripe does not hold as paid. *)
THEOREM GrantsArePaidFor == Spec => []CreditsArePaidFor
<1>1. IInv => CreditsArePaidFor
  BY DEF IInv, GrantInv, OutcomeInv, CreditsArePaidFor
<1> QED BY <1>1, InvariantHolds, PTL

(* The row of a paid session exists, and only the startup sweep can close  *)
(* it as expired or failed, although MarkClosed does not look at the       *)
(* status.                                                                 *)
THEOREM PaidRowsStayClaimable == Spec => []PaidSessionIsClaimable
<1>1. IInv => PaidSessionIsClaimable
  BY DEF IInv, RecordInv, OutcomeInv, PaidSessionIsClaimable
<1> QED BY <1>1, InvariantHolds, PTL

-----------------------------------------------------------------------------
(***************************************************************************)
(* What a step may do to a row and to the promise                          *)
(***************************************************************************)

(* Every change of a row's status is one of StatusMoves. *)
RowsAdvance ==
  \A s \in Sessions : status'[s] # status[s] => <<status[s], status'[s]>> \in StatusMoves

(* MarkClosed is blind, but the row it hits is pending or already closed:  *)
(* Stripe does not hold the session as paid.                               *)
LEMMA MarkClosedAdvances ==
  ASSUME IInv, NEW h \in Handlers, MarkClosed(h)
  PROVE  RowsAdvance
<1> DEFINE s == task[h].s
           to == IF task[h].via = "expired" THEN "expired" ELSE "failed"
<1>1. s \in Sessions /\ Doing(h, s, "mark")
  BY BusyType DEF IInv, MarkClosed, Doing
<1>2. s \in url /\ stripe[s] = to
  BY <1>1 DEF IInv, OutcomeInv
<1>3. status[s] \in Status \ {"absent", "completed", "refunded"}
  BY <1>1, <1>2 DEF IInv, TypeOK, RecordInv, OutcomeInv
<1>4. status[s] = "failed" => to = "failed"
  BY <1>1, <1>2 DEF IInv, OutcomeInv
<1>5. /\ status'[s] = to
      /\ \A t \in Sessions \ {s} : status'[t] = status[t]
  BY <1>1 DEF MarkClosed, IInv, TypeOK
<1>6. status[s] \in {"pending", "expired", "failed"}
  BY <1>3 DEF Status
<1>7. status'[s] # status[s] => <<status[s], status'[s]>> \in StatusMoves
  BY <1>4, <1>5, <1>6 DEF StatusMoves
<1> QED
  BY <1>5, <1>7 DEF RowsAdvance

LEMMA ClaimAdvances ==
  ASSUME IInv, NEW h, NEW s \in Sessions, NEW via, Claim(h, s, via)
  PROVE  RowsAdvance
BY DEF RowsAdvance, StatusMoves, Claim, Claimable, IInv, TypeOK

LEMMA RecordPendingAdvances ==
  ASSUME IInv, NEW h \in Handlers, RecordPending(h)
  PROVE  RowsAdvance
<1> DEFINE s == task[h].s
<1>1. s \in Sessions /\ Doing(h, s, "record")
  BY BusyType DEF IInv, RecordPending, Doing
<1>2. status[s] = "absent"
  BY <1>1 DEF IInv, RecordInv
<1> QED
  BY <1>1, <1>2 DEF RowsAdvance, StatusMoves, RecordPending, IInv, TypeOK

LEMMA StepAdvances == IInv /\ [Next]_vars => RowsAdvance
<1> SUFFICES ASSUME IInv, [Next]_vars PROVE RowsAdvance
  OBVIOUS
<1>0. UNCHANGED status => RowsAdvance
  BY DEF RowsAdvance
<1>1. ASSUME NEW s \in Sessions, Stripe(s) \/ DeliverIgnored(s) \/ Age(s) PROVE RowsAdvance
  BY <1>0, <1>1
  DEF Stripe, Pay, PayLater, Settle, Bounce, Expire, StripeStep, RefundCharge, DeliverIgnored,
      NoOp, Age, table
<1>2. CASE Sweep
  BY <1>2 DEF Sweep, Stale, RowsAdvance, StatusMoves
<1>3. ASSUME NEW h \in Handlers, NEW s \in Sessions,
             \/ OpenCheckout(h, s) \/ VisitSuccess(h, s)
             \/ DeliverCompleted(h, s) \/ DeliverClosed(h, s)
      PROVE  RowsAdvance
  BY <1>0, <1>3, ClaimAdvances
  DEF OpenCheckout, VisitSuccess, DeliverCompleted, DeliverClosed, NoOp, table
<1>4. ASSUME NEW h \in Handlers, NEW s \in Sessions, DeliverRefunded(h, s) PROVE RowsAdvance
  <2>1. CASE NoOp(s, "refunded")
    BY <1>0, <2>1 DEF NoOp, table
  <2>2. CASE status[s] = "completed" /\ status' = [status EXCEPT ![s] = "refunded"]
    BY <2>2 DEF RowsAdvance, StatusMoves, IInv, TypeOK
  <2> QED
    BY <1>4, <2>1, <2>2 DEF DeliverRefunded, Reversible
<1>5. ASSUME NEW h \in Handlers, Continue(h) PROVE RowsAdvance
  BY <1>0, <1>5, RecordPendingAdvances, MarkClosedAdvances
  DEF Continue, AddPurchased, UpgradeTier, Clawback, table
<1>6. ASSUME NEW h \in Handlers, Crash(h) PROVE RowsAdvance
  BY <1>0, <1>6 DEF Crash, table
<1>7. ASSUME NEW u \in Users, Ledger(u) PROVE RowsAdvance
  BY <1>0, <1>7 DEF Ledger, Spend, FinishGeneration, ReturnCredit, AdminAdjust, table
<1>8. CASE UNCHANGED vars
  BY <1>0, <1>8 DEF vars, table
<1> QED
  BY <1>1, <1>2, <1>3, <1>4, <1>5, <1>6, <1>7, <1>8 DEF Next, Deliver

(* A payments row never leaves a final status and never goes back, however *)
(* webhook calls, page visits and startup sweeps interleave.               *)
THEOREM RowsNeverGoBack == Spec => StatusOnlyAdvances
<1>1. IInv /\ [Next]_vars =>
        [\A s \in Sessions : status'[s] # status[s] => <<status[s], status'[s]>> \in StatusMoves]_vars
  BY StepAdvances DEF RowsAdvance
<1> QED
  BY <1>1, InvariantHolds, PTL DEF Spec, StatusOnlyAdvances

(* What the promise can see of a session: whether it is paid, and how      *)
(* often it was credited and reversed.                                     *)
PaidSessions == {s \in Sessions : stripe[s] = "paid"}

LEMMA PayKeepsPromise ==
  ASSUME IInv, NEW s \in Sessions, Stripe(s)
  PROVE  Promise!Next \/ UNCHANGED Promise!promised
<1>1. UNCHANGED <<applied, clawed>>
  BY DEF Stripe, Pay, PayLater, Settle, Bounce, Expire, StripeStep, RefundCharge, history
<1>2. \/ UNCHANGED stripe
      \/ \E from \in {"open", "unpaid"}, to \in {"unpaid", "paid", "failed", "expired"} :
           stripe[s] = from /\ stripe' = [stripe EXCEPT ![s] = to]
  BY DEF Stripe, Pay, PayLater, Settle, Bounce, Expire, StripeStep, RefundCharge
<1>3. stripe \in [Sessions -> StripeState]
  BY DEF IInv, TypeOK
<1>4. \/ PaidSessions' = PaidSessions
      \/ s \notin PaidSessions /\ PaidSessions' = PaidSessions \union {s}
  BY <1>2, <1>3 DEF PaidSessions
<1> QED
  BY <1>1, <1>4 DEF PaidSessions, Promise!Next, Promise!Pay, Promise!promised

LEMMA GrantKeepsPromise ==
  ASSUME IInv, NEW h \in Handlers, AddPurchased(h)
  PROVE  Promise!Next
<1> DEFINE s == task[h].s
<1>1. s \in Sessions /\ Doing(h, s, "credit")
  BY BusyType DEF IInv, AddPurchased, Doing
<1>2. applied[s] = 0 /\ stripe[s] = "paid"
  BY <1>1 DEF IInv, GrantInv, OutcomeInv
<1>3. applied' = [applied EXCEPT ![s] = 1] /\ UNCHANGED <<stripe, clawed>>
  BY <1>1, <1>2 DEF AddPurchased, IInv, TypeOK, external
<1> QED
  BY <1>1, <1>2, <1>3 DEF Promise!Next, Promise!Grant

LEMMA ReversalKeepsPromise ==
  ASSUME IInv, NEW h \in Handlers, Clawback(h)
  PROVE  Promise!Next
<1> DEFINE s == task[h].s
<1>1. s \in Sessions /\ Doing(h, s, "clawback")
  BY BusyType DEF IInv, Clawback, Doing
<1>2. clawed[s] = 0 /\ stripe[s] = "paid"
  BY <1>1 DEF IInv, ReversalInv, OutcomeInv
<1>3. clawed' = [clawed EXCEPT ![s] = 1] /\ UNCHANGED <<stripe, applied>>
  BY <1>1, <1>2 DEF Clawback, IInv, TypeOK, external
<1> QED
  BY <1>1, <1>2, <1>3 DEF Promise!Next, Promise!Reverse

LEMMA OpenKeepsPromise ==
  ASSUME IInv, NEW h \in Handlers, NEW s \in Sessions, OpenCheckout(h, s)
  PROVE  UNCHANGED Promise!promised
<1>1. PaidSessions' = PaidSessions
  BY DEF PaidSessions, OpenCheckout, IInv, TypeOK
<1> QED
  BY <1>1 DEF PaidSessions, OpenCheckout, Promise!promised, history

LEMMA StepKeepsPromise == IInv /\ [Next]_vars => [Promise!Next]_(Promise!promised)
<1> SUFFICES ASSUME IInv, [Next]_vars PROVE Promise!Next \/ UNCHANGED Promise!promised
  OBVIOUS
<1>0. UNCHANGED <<stripe, applied, clawed>> => UNCHANGED Promise!promised
  BY DEF Promise!promised
<1>1. ASSUME NEW s \in Sessions, DeliverIgnored(s) \/ Age(s)
      PROVE  UNCHANGED Promise!promised
  BY <1>0, <1>1 DEF DeliverIgnored, NoOp, Age, external, history
<1>2. CASE Sweep
  BY <1>0, <1>2 DEF Sweep, external, history
<1>3. ASSUME NEW h \in Handlers, NEW s \in Sessions, VisitSuccess(h, s) \/ Deliver(h, s)
      PROVE  UNCHANGED Promise!promised
  BY <1>0, <1>3
  DEF VisitSuccess, Deliver, DeliverCompleted, DeliverRefunded, DeliverClosed, Claim, NoOp,
      external, history
<1>4. ASSUME NEW h \in Handlers, Continue(h) PROVE Promise!Next \/ UNCHANGED Promise!promised
  <2>1. CASE RecordPending(h) \/ UpgradeTier(h) \/ MarkClosed(h)
    BY <1>0, <2>1 DEF RecordPending, UpgradeTier, MarkClosed, external, history
  <2> QED
    BY <1>4, <2>1, GrantKeepsPromise, ReversalKeepsPromise DEF Continue
<1>5. ASSUME NEW h \in Handlers, Crash(h) PROVE UNCHANGED Promise!promised
  BY <1>0, <1>5 DEF Crash, external, history
<1>6. ASSUME NEW u \in Users, Ledger(u) PROVE UNCHANGED Promise!promised
  BY <1>0, <1>6 DEF Ledger, Spend, FinishGeneration, ReturnCredit, AdminAdjust, external, history
<1>7. CASE UNCHANGED vars
  BY <1>0, <1>7 DEF vars, external, history
<1> QED
  BY <1>1, <1>2, <1>3, <1>4, <1>5, <1>6, <1>7, PayKeepsPromise, OpenKeepsPromise DEF Next

(* The billing code, with its handlers, races and crashes, implements the  *)
(* promise: paid first, then credited at most once and reversed at most    *)
(* once, nothing else.                                                     *)
THEOREM PromiseIsKept == Spec => ImplementsPromise
<1>1. Init => Promise!Init
  BY DEF Init, Promise!Init
<1> QED
  BY <1>1, StepKeepsPromise, InvariantHolds, PTL DEF Spec, ImplementsPromise, Promise!Spec

-----------------------------------------------------------------------------
(***************************************************************************)
(* Nothing is lost unless a handler dies                                   *)
(***************************************************************************)
Owing == {"credit", "tier", "clawback"}

(* A row whose books do not change stays settled if whoever owes it        *)
(* something still does.                                                   *)
LEMMA SettledKept ==
  ASSUME NEW s \in Sessions, Settled(s),
         status'[s] \in {"completed", "refunded"} /\ crashes'[s] = 0 =>
           /\ status'[s] = status[s] /\ crashes[s] = 0
           /\ applied'[s] = applied[s] /\ clawed'[s] = clawed[s]
           /\ tier[Buyer[s]] = "founder" => tier'[Buyer[s]] = "founder"
           /\ \A pc \in Owing : Owed(s, pc) => Owed(s, pc)'
  PROVE  Settled(s)'
BY DEF Settled, Owing

(* Only the handler that acts can stop owing something. *)
LEMMA OwedKept ==
  ASSUME TypeOK, NEW h \in Handlers, NEW s \in Sessions, NEW pc \in Owing,
         \A g \in Handlers : g # h => task'[g] = task[g],
         task[h].pc # pc \/ task[h].s # s
  PROVE  Owed(s, pc) => Owed(s, pc)'
<1> SUFFICES ASSUME Owed(s, pc) PROVE Owed(s, pc)'
  OBVIOUS
<1>1. PICK g \in Handlers : Doing(g, s, pc)
  BY DEF Owed
<1>2. g # h
  BY <1>1 DEF Doing
<1> QED
  BY <1>1, <1>2 DEF Owed, Doing

(* A handler that ends, or begins with, work other than paying out.        *)
LEMMA QuietSettled ==
  ASSUME OwedInv, NEW h \in Handlers, task[h].pc \notin Owing,
         \A g \in Handlers : g # h => task'[g] = task[g],
         UNCHANGED <<tier, crashes, applied, clawed>>,
         \A s \in Sessions : status'[s] \in {"completed", "refunded"} => status'[s] = status[s]
  PROVE  \A s \in Sessions : Settled(s)'
BY SettledKept, OwedKept DEF OwedInv, IInv

LEMMA SameTasksSettled ==
  ASSUME OwedInv, UNCHANGED <<task, tier, crashes, applied, clawed>>,
         \A s \in Sessions : status'[s] \in {"completed", "refunded"} => status'[s] = status[s]
  PROVE  \A s \in Sessions : Settled(s)'
BY SettledKept DEF OwedInv, Owed, Doing

LEMMA ClaimSettled ==
  ASSUME OwedInv, NEW h \in Handlers, NEW c \in Sessions, NEW via, task[h] = Idle,
         Claim(h, c, via)
  PROVE  \A s \in Sessions : Settled(s)'
<1>1. TypeOK /\ task[h].pc \notin Owing
  BY DEF OwedInv, IInv, Idle, Owing
<1>2. /\ task'[h] = [pc |-> "credit", s |-> c, via |-> via]
      /\ \A g \in Handlers : g # h => task'[g] = task[g]
  BY <1>1, GotoEffect DEF Claim
<1>3. /\ status[c] = "pending" /\ status'[c] = "completed"
      /\ \A s \in Sessions \ {c} : status'[s] = status[s]
      /\ UNCHANGED <<tier, crashes, applied, clawed>>
  BY <1>1 DEF Claim, Claimable, TypeOK, history
<1>4. Settled(c)'
  <2>1. Owed(c, "credit")'
    BY <1>2 DEF Owed, Doing
  <2>2. applied[c] = 0
    BY <1>3 DEF OwedInv, IInv, GrantInv, TypeOK
  <2> QED
    BY <1>3, <2>1, <2>2 DEF Settled
<1>5. ASSUME NEW s \in Sessions \ {c} PROVE Settled(s)'
  BY <1>1, <1>2, <1>3, SettledKept, OwedKept DEF OwedInv
<1> QED BY <1>4, <1>5

LEMMA RefundSettled ==
  ASSUME OwedInv, NEW h \in Handlers, NEW c \in Sessions, DeliverRefunded(h, c)
  PROVE  \A s \in Sessions : Settled(s)'
<1>1. CASE NoOp(c, "refunded")
  BY <1>1, SameTasksSettled DEF NoOp, table, history
<1>2. CASE /\ Reversible(c)
           /\ status' = [status EXCEPT ![c] = "refunded"]
           /\ Goto(h, "clawback", c, "refunded")
           /\ UNCHANGED <<external, acked, intent, tier, credit, spending, crashes, sweeps, history>>
  <2>1. TypeOK /\ task[h].pc \notin Owing
    BY DEF OwedInv, IInv, Idle, Owing, DeliverRefunded
  <2>2. /\ task'[h] = [pc |-> "clawback", s |-> c, via |-> "refunded"]
        /\ \A g \in Handlers : g # h => task'[g] = task[g]
    BY <1>2, <2>1, GotoEffect
  <2>3. /\ status[c] = "completed" /\ status'[c] = "refunded"
        /\ \A s \in Sessions \ {c} : status'[s] = status[s]
        /\ UNCHANGED <<tier, crashes, applied, clawed>>
    BY <1>2, <2>1 DEF Reversible, TypeOK, history
  <2>4. Owed(c, "clawback")'
    BY <2>2 DEF Owed, Doing
  <2>5. \A s \in Sessions, pc \in Owing : Owed(s, pc) => Owed(s, pc)'
    BY <2>1, <2>2, OwedKept
  <2>6. Settled(c)'
    BY <2>3, <2>4, <2>5 DEF Settled, OwedInv, Owing
  <2>7. ASSUME NEW s \in Sessions \ {c} PROVE Settled(s)'
    BY <2>3, <2>5, SettledKept DEF OwedInv
  <2> QED BY <2>6, <2>7
<1> QED BY <1>1, <1>2 DEF DeliverRefunded

LEMMA AddPurchasedSettled ==
  ASSUME OwedInv, NEW h \in Handlers, AddPurchased(h)
  PROVE  \A s \in Sessions : Settled(s)'
<1>0. task[h].s \in Sessions
  BY BusyType DEF OwedInv, IInv, AddPurchased
<1> PICK c \in Sessions : c = task[h].s
  BY <1>0
<1>1. TypeOK /\ task[h].pc = "credit" /\ Doing(h, c, "credit")
  BY BusyType DEF OwedInv, IInv, AddPurchased, Doing
<1>2. /\ applied'[c] = 1
      /\ \A s \in Sessions \ {c} : applied'[s] = applied[s]
      /\ UNCHANGED <<status, tier, crashes, clawed>>
  BY <1>1 DEF AddPurchased, OwedInv, IInv, GrantInv, TypeOK, table
<1>3. /\ \A g \in Handlers : g # h => task'[g] = task[g]
      /\ c \in AlphaPack => Owed(c, "tier")'
  <2>1. CASE c \in AlphaPack
    <3>1. /\ task'[h] = [pc |-> "tier", s |-> c, via |-> task[h].via]
          /\ \A g \in Handlers : g # h => task'[g] = task[g]
      BY <1>1, <2>1, GotoEffect DEF AddPurchased, NeedsTier
    <3> QED BY <3>1 DEF Owed, Doing
  <2>2. CASE c \notin AlphaPack
    BY <1>1, <2>2, ReturnEffect DEF AddPurchased, NeedsTier, Return
  <2> QED BY <2>1, <2>2
<1>4. \A s \in Sessions, pc \in Owing :
        s # c \/ pc # "credit" => (Owed(s, pc) => Owed(s, pc)')
  BY <1>1, <1>3, OwedKept
<1>5. Settled(c)'
  <2>1. Settled(c) /\ "clawback" \in Owing
    BY <1>1 DEF OwedInv, Owing
  <2> QED BY <1>1, <1>2, <1>3, <1>4, <2>1 DEF Settled
<1>6. ASSUME NEW s \in Sessions \ {c} PROVE Settled(s)'
  BY <1>2, <1>4, SettledKept DEF OwedInv
<1> QED BY <1>5, <1>6

LEMMA UpgradeTierSettled ==
  ASSUME BillingAssumption, OwedInv, NEW h \in Handlers, UpgradeTier(h)
  PROVE  \A s \in Sessions : Settled(s)'
<1>0. task[h].s \in Sessions
  BY BusyType DEF OwedInv, IInv, UpgradeTier
<1> PICK c \in Sessions : c = task[h].s
  BY <1>0
<1>1. TypeOK /\ Buyer[c] \in Users /\ task[h].pc = "tier"
  BY BusyType DEF OwedInv, IInv, UpgradeTier, BillingAssumption
<1>2. /\ tier'[Buyer[c]] = "founder"
      /\ \A u \in Users : tier[u] = "founder" => tier'[u] = "founder"
      /\ UNCHANGED <<status, crashes, applied, clawed>>
  BY <1>1 DEF UpgradeTier, TypeOK, history
<1>3. \A g \in Handlers : g # h => task'[g] = task[g]
  BY <1>1, ReturnEffect DEF UpgradeTier, Return
<1>4. \A s \in Sessions, pc \in Owing :
        s # c \/ pc # "tier" => (Owed(s, pc) => Owed(s, pc)')
  BY <1>1, <1>3, OwedKept
<1>5. Settled(c)'
  <2>1. Settled(c) /\ "credit" \in Owing /\ "clawback" \in Owing
    BY <1>1 DEF OwedInv, Owing
  <2> QED BY <1>1, <1>2, <1>4, <2>1 DEF Settled
<1>6. ASSUME NEW s \in Sessions \ {c} PROVE Settled(s)'
  <2>1. Buyer[s] \in Users
    BY DEF BillingAssumption
  <2> QED BY <1>2, <1>4, <2>1, SettledKept DEF OwedInv
<1> QED BY <1>5, <1>6

LEMMA ClawbackSettled ==
  ASSUME OwedInv, NEW h \in Handlers, Clawback(h)
  PROVE  \A s \in Sessions : Settled(s)'
<1>0. task[h].s \in Sessions
  BY BusyType DEF OwedInv, IInv, Clawback
<1> PICK c \in Sessions : c = task[h].s
  BY <1>0
<1>1. TypeOK /\ task[h].pc = "clawback" /\ Doing(h, c, "clawback")
  BY BusyType DEF OwedInv, IInv, Clawback, Doing
<1>2. /\ clawed'[c] = 1
      /\ \A s \in Sessions \ {c} : clawed'[s] = clawed[s]
      /\ UNCHANGED <<status, tier, crashes, applied>>
  BY <1>1 DEF Clawback, OwedInv, IInv, ReversalInv, TypeOK, table
<1>3. \A g \in Handlers : g # h => task'[g] = task[g]
  BY <1>1, ReturnEffect DEF Clawback, Return
<1>4. \A s \in Sessions, pc \in Owing :
        s # c \/ pc # "clawback" => (Owed(s, pc) => Owed(s, pc)')
  BY <1>1, <1>3, OwedKept
<1>5. Settled(c)'
  <2>1. Settled(c) /\ "credit" \in Owing /\ "tier" \in Owing
    BY <1>1 DEF OwedInv, Owing
  <2> QED BY <1>1, <1>2, <1>4, <2>1 DEF Settled
<1>6. ASSUME NEW s \in Sessions \ {c} PROVE Settled(s)'
  BY <1>2, <1>4, SettledKept DEF OwedInv
<1> QED BY <1>5, <1>6

(* The row of a handler that died is no longer vouched for. *)
LEMMA CrashSettled ==
  ASSUME OwedInv, NEW h \in Handlers, Crash(h)
  PROVE  \A s \in Sessions : Settled(s)'
<1>0. task[h].s \in Sessions
  BY DEF OwedInv, IInv, TypeOK, Crash, Task
<1> PICK c \in Sessions : c = task[h].s
  BY <1>0
<1>1. TypeOK
  BY DEF OwedInv, IInv, TypeOK, Crash, Task
<1>2. /\ crashes'[c] # 0
      /\ \A s \in Sessions \ {c} : crashes'[s] = crashes[s]
      /\ UNCHANGED <<status, tier, applied, clawed>>
  BY <1>1 DEF Crash, TypeOK, table, history
<1>3. \A g \in Handlers : g # h => task'[g] = task[g]
  BY <1>1, ReturnEffect DEF Crash
<1>4. \A s \in Sessions, pc \in Owing : s # c => (Owed(s, pc) => Owed(s, pc)')
  BY <1>1, <1>3, OwedKept
<1>5. Settled(c)'
  BY <1>2 DEF Settled
<1>6. ASSUME NEW s \in Sessions \ {c} PROVE Settled(s)'
  BY <1>2, <1>4, SettledKept DEF OwedInv
<1> QED BY <1>5, <1>6

LEMMA OwedInvStep == BillingAssumption /\ OwedInv /\ [Next]_vars => OwedInv'
<1> SUFFICES ASSUME BillingAssumption, OwedInv, [Next]_vars
             PROVE  \A s \in Sessions : Settled(s)'
  BY IInvStep DEF OwedInv
<1>0. IInv /\ TypeOK
  BY DEF OwedInv, IInv
<1>1. ASSUME NEW s \in Sessions, Stripe(s) \/ DeliverIgnored(s) \/ Age(s)
      PROVE  \A t \in Sessions : Settled(t)'
  BY <1>1, SameTasksSettled
  DEF Stripe, Pay, PayLater, Settle, Bounce, Expire, StripeStep, RefundCharge, DeliverIgnored,
      NoOp, Age, table, history
<1>2. CASE Sweep
  BY <1>2, SameTasksSettled DEF Sweep, history
<1>3. ASSUME NEW h \in Handlers, NEW s \in Sessions, OpenCheckout(h, s)
      PROVE  \A t \in Sessions : Settled(t)'
  <2>1. task[h].pc \notin Owing
    BY <1>3 DEF OpenCheckout, Idle, Owing
  <2>2. \A g \in Handlers : g # h => task'[g] = task[g]
    BY <1>0, <1>3, GotoEffect DEF OpenCheckout
  <2> QED
    BY <1>3, <2>1, <2>2, QuietSettled DEF OpenCheckout, table, history
<1>4. ASSUME NEW h \in Handlers, NEW s \in Sessions,
             VisitSuccess(h, s) \/ DeliverCompleted(h, s)
      PROVE  \A t \in Sessions : Settled(t)'
  BY <1>4, ClaimSettled, SameTasksSettled
  DEF VisitSuccess, DeliverCompleted, NoOp, table, history
<1>5. ASSUME NEW h \in Handlers, NEW s \in Sessions, DeliverClosed(h, s)
      PROVE  \A t \in Sessions : Settled(t)'
  <2>1. PICK type \in ClosingTypes :
          \/ /\ Goto(h, "mark", s, type)
             /\ UNCHANGED <<external, acked, table, credit, spending, crashes, sweeps, history>>
          \/ NoOp(s, type)
    BY <1>5 DEF DeliverClosed
  <2>2. CASE NoOp(s, type)
    BY <2>2, SameTasksSettled DEF NoOp, table, history
  <2>3. CASE /\ Goto(h, "mark", s, type)
             /\ UNCHANGED <<external, acked, table, credit, spending, crashes, sweeps, history>>
    <3>1. task[h].pc \notin Owing
      BY <1>5 DEF DeliverClosed, Idle, Owing
    <3>2. \A g \in Handlers : g # h => task'[g] = task[g]
      BY <1>0, <2>3, GotoEffect
    <3> QED
      BY <2>3, <3>1, <3>2, QuietSettled DEF table, history
  <2> QED BY <2>1, <2>2, <2>3
<1>6. ASSUME NEW h \in Handlers, RecordPending(h) \/ MarkClosed(h)
      PROVE  \A t \in Sessions : Settled(t)'
  <2>1. /\ task[h].pc \notin Owing
        /\ \A g \in Handlers : g # h => task'[g] = task[g]
    BY <1>0, <1>6, ReturnEffect DEF RecordPending, MarkClosed, Return, Owing
  <2>2. \A s \in Sessions : status'[s] \in {"completed", "refunded"} => status'[s] = status[s]
    BY <1>0, <1>6 DEF RecordPending, MarkClosed, TypeOK
  <2> QED
    BY <1>6, <2>1, <2>2, QuietSettled DEF RecordPending, MarkClosed, history
<1>7. ASSUME NEW h \in Handlers, Continue(h) PROVE \A t \in Sessions : Settled(t)'
  BY <1>6, <1>7, AddPurchasedSettled, UpgradeTierSettled, ClawbackSettled DEF Continue
<1>8. ASSUME NEW u \in Users, Ledger(u) PROVE \A t \in Sessions : Settled(t)'
  BY <1>8, SameTasksSettled
  DEF Ledger, Spend, FinishGeneration, ReturnCredit, AdminAdjust, table, history
<1>9. CASE UNCHANGED vars
  BY <1>9, SameTasksSettled DEF vars, table, history
<1> QED
  BY <1>1, <1>2, <1>3, <1>4, <1>5, <1>7, <1>8, <1>9, RefundSettled, CrashSettled
  DEF Next, Deliver

(* What a completed or refunded row has not been given is still to be done *)
(* by a handler at work on it, unless a handler died there                 *)
(* (grant_purchase_credits, reverse_purchase_credits).                     *)
THEOREM OwedInvHolds == Spec => []OwedInv
<1>1. Init => OwedInv
  BY BillingAssumption, IInvInit DEF OwedInv, Settled, Init
<1> QED
  BY <1>1, BillingAssumption, OwedInvStep, PTL DEF Spec

(* A completed or refunded row on which no handler died and none is at     *)
(* work has its credits, its buyer's tier and its reversal, whatever ran   *)
(* between the claim and the second commit.                                *)
THEOREM LossNeedsACrash == Spec => []OnlyACrashLosesAGrant
<1>1. OwedInv => OnlyACrashLosesAGrant
  <2> SUFFICES ASSUME OwedInv, NEW s \in Sessions,
                      status[s] \in {"completed", "refunded"}, ~WorkedOn(s), crashes[s] = 0
               PROVE  /\ applied[s] = 1 /\ (s \in AlphaPack => tier[Buyer[s]] = "founder")
                      /\ clawed[s] = IF status[s] = "refunded" THEN 1 ELSE 0
    BY DEF OnlyACrashLosesAGrant
  <2>1. \A pc : ~Owed(s, pc)
    BY DEF Owed, Doing, WorkedOn
  <2>2. clawed[s] \in Nat /\ (clawed[s] > 0 => status[s] = "refunded")
    BY DEF OwedInv, IInv, ReversalInv, TypeOK
  <2> QED
    BY <2>1, <2>2 DEF OwedInv, Settled
<1> QED BY <1>1, OwedInvHolds, PTL

-----------------------------------------------------------------------------
(***************************************************************************)
(* The books                                                               *)
(***************************************************************************)

(* What add_credits does to each column. *)
LEMMA AddedEffect ==
  ASSUME NEW row \in CreditRow, NEW n \in Int, NEW k
  PROVE  /\ Added(row, n, k).balance = row.balance + n
         /\ Added(row, n, k).used = row.used
         /\ Added(row, n, k).granted =
              IF k = "grant" /\ n >= 0 THEN row.granted + n ELSE row.granted
         /\ Added(row, n, k).purchased =
              IF k = "purchase" /\ n >= 0 THEN row.purchased + n ELSE row.purchased
BY DEF Added, CreditRow

LEMMA NoCoins == SumOfCredits({}) = 0
<1>1. Coins({}) = {}
  BY DEF Coins
<1> QED
  BY <1>1, FS_EmptySet DEF SumOfCredits

LEMMA CoinsFinite ==
  ASSUME BillingAssumption, NEW S \in SUBSET Sessions, IsFiniteSet(S)
  PROVE  IsFiniteSet(Coins(S)) /\ SumOfCredits(S) \in Nat
<1> DEFINE piles == {{s} \X (1 .. Credits[s]) : s \in S}
           pile == [s \in S |-> {s} \X (1 .. Credits[s])]
<1>1. pile \in Surjection(S, piles)
  BY DEF Surjection
<1>2. IsFiniteSet(piles)
  BY <1>1, FS_Surjection
<1>3. ASSUME NEW P \in piles PROVE IsFiniteSet(P)
  <2>1. PICK s \in S : P = {s} \X (1 .. Credits[s])
    OBVIOUS
  <2>2. IsFiniteSet({s}) /\ IsFiniteSet(1 .. Credits[s])
    <3>1. 1 \in Int /\ Credits[s] \in Int
      BY DEF BillingAssumption
    <3> QED BY <3>1, FS_Singleton, FS_Interval
  <2> QED BY <2>1, <2>2, FS_Product
<1>4. IsFiniteSet(UNION piles)
  BY <1>2, <1>3, FS_UNION
<1>5. IsFiniteSet(Coins(S))
  BY <1>4 DEF Coins
<1> QED
  BY <1>5, FS_CardinalityType DEF SumOfCredits

(* One more session adds the credits of its pack to the sum. *)
LEMMA CoinsOfOneMore ==
  ASSUME BillingAssumption, NEW S \in SUBSET Sessions, IsFiniteSet(S), NEW s \in Sessions \ S
  PROVE  SumOfCredits(S \union {s}) = SumOfCredits(S) + Credits[s]
<1> DEFINE pile == {s} \X (1 .. Credits[s])
<1>1. Coins(S \union {s}) = Coins(S) \union pile
  BY DEF Coins
<1>2. Coins(S) \intersect pile = {}
  BY DEF Coins
<1>3. IsFiniteSet(Coins(S))
  BY CoinsFinite
<1>4. IsFiniteSet(pile) /\ Cardinality(pile) = Credits[s]
  <2>1. 1 \in Int /\ Credits[s] \in Nat \ {0}
    BY DEF BillingAssumption
  <2>2. IsFiniteSet(1 .. Credits[s]) /\ Cardinality(1 .. Credits[s]) = Credits[s]
    BY <2>1, FS_Interval
  <2>3. IsFiniteSet({s}) /\ Cardinality({s}) = 1
    BY FS_Singleton
  <2>4. /\ IsFiniteSet(pile)
        /\ Cardinality(pile) = Cardinality({s}) * Cardinality(1 .. Credits[s])
    BY <2>2, <2>3, FS_Product
  <2> QED BY <2>1, <2>2, <2>3, <2>4
<1>5. Cardinality(Coins(S) \union pile)
        = Cardinality(Coins(S)) + Cardinality(pile) - Cardinality(Coins(S) \intersect pile)
  BY <1>3, <1>4, FS_Union
<1>6. Cardinality(Coins(S) \intersect pile) = 0
  BY <1>2, FS_EmptySet
<1>7. Cardinality(Coins(S)) \in Nat /\ Credits[s] \in Nat
  BY <1>3, FS_CardinalityType DEF BillingAssumption
<1>8. Cardinality(Coins(S) \union pile) = Cardinality(Coins(S)) + Credits[s]
  BY <1>4, <1>5, <1>6, <1>7
<1> QED
  BY <1>1, <1>8, Zenon DEF SumOfCredits

(* An account nothing happens to. *)
LEMMA AccountKept ==
  ASSUME NEW u \in Users, Account(u), Sold(u)' = Sold(u), TakenBack(u)' = TakenBack(u),
         credit'[u] = credit[u], revoked'[u] = revoked[u]
  PROVE  Account(u)'
BY DEF Account, SumOfCredits, Coins

LEMMA SameSessions ==
  ASSUME NEW u \in Users, UNCHANGED <<applied, clawed>>
  PROVE  Sold(u)' = Sold(u) /\ TakenBack(u)' = TakenBack(u)
BY DEF Sold, TakenBack

(* Spending, a returned credit and an administrator touch one account and  *)
(* no session.                                                             *)
LEMMA AccountAdjusted ==
  ASSUME BillingAssumption, TypeOK, NEW u \in Users, Account(u),
         UNCHANGED <<applied, clawed>>,
         \/ /\ HasCredits(credit[u]) /\ credit'[u] = Deducted(credit[u])
            /\ revoked'[u] = revoked[u]
         \/ \E n \in Int : /\ credit'[u] = Added(credit[u], n, "grant")
                           /\ revoked'[u] = IF n < 0 THEN revoked[u] - n ELSE revoked[u]
  PROVE  Account(u)'
<1>1. Sold(u)' = Sold(u) /\ TakenBack(u)' = TakenBack(u)
  BY DEF Sold, TakenBack
<1>2. SumOfCredits(Sold(u)) \in Nat /\ SumOfCredits(TakenBack(u)) \in Nat
  BY CoinsFinite DEF Account, Sold, TakenBack
<1>3. /\ SumOfCredits(Sold(u))' = SumOfCredits(Sold(u))
      /\ SumOfCredits(TakenBack(u))' = SumOfCredits(TakenBack(u))
  BY <1>1 DEF SumOfCredits, Coins
<1> PICK row \in CreditRow : row = credit[u]
  BY DEF TypeOK
<1>4. /\ row.balance \in Int /\ row.purchased \in Nat
      /\ row.granted \in Nat /\ row.used \in Nat /\ revoked[u] \in Nat
  BY DEF CreditRow, TypeOK
<1>5. CASE HasCredits(credit[u]) /\ credit'[u] = Deducted(credit[u]) /\ revoked'[u] = revoked[u]
  <2>1. /\ Deducted(row).balance = row.balance - 1
        /\ Deducted(row).used = row.used + 1
        /\ Deducted(row).granted = row.granted
        /\ Deducted(row).purchased = row.purchased
    BY DEF Deducted, CreditRow
  <2>2. row.balance > 0
    BY <1>5 DEF HasCredits
  <2> QED
    BY <1>1, <1>2, <1>3, <1>4, <1>5, <2>1, <2>2 DEF Account
<1>6. ASSUME NEW n \in Int, credit'[u] = Added(credit[u], n, "grant"),
             revoked'[u] = IF n < 0 THEN revoked[u] - n ELSE revoked[u]
      PROVE  Account(u)'
  <2>1. /\ Added(row, n, "grant").balance = row.balance + n
        /\ Added(row, n, "grant").used = row.used
        /\ Added(row, n, "grant").granted = IF n >= 0 THEN row.granted + n ELSE row.granted
        /\ Added(row, n, "grant").purchased = row.purchased
    BY DEF Added, CreditRow
  <2> QED
    BY <1>1, <1>2, <1>3, <1>4, <1>6, <2>1 DEF Account
<1> QED BY <1>5, <1>6

LEMMA AddPurchasedAccounts ==
  ASSUME BillingAssumption, LedgerInv, NEW h \in Handlers, AddPurchased(h)
  PROVE  \A u \in Users : Account(u)'
<1>0. TypeOK /\ task[h].s \in Sessions /\ Doing(h, task[h].s, "credit")
  BY BusyType DEF LedgerInv, OwedInv, IInv, AddPurchased, Doing
<1> PICK c \in Sessions : c = task[h].s
  BY <1>0
<1> PICK b \in Users : b = Buyer[c]
  BY DEF BillingAssumption
<1>1. applied[c] = 0 /\ Credits[c] \in Nat
  BY <1>0 DEF LedgerInv, OwedInv, IInv, GrantInv, BillingAssumption
<1>2. /\ applied'[c] > 0
      /\ \A s \in Sessions \ {c} : applied'[s] = applied[s]
      /\ UNCHANGED <<clawed, revoked>>
      /\ credit'[b] = Added(credit[b], Credits[c], "purchase")
      /\ \A u \in Users \ {b} : credit'[u] = credit[u]
  BY <1>0, <1>1 DEF AddPurchased, TypeOK
<1>3. ASSUME NEW u \in Users \ {b} PROVE Account(u)'
  <2>1. Sold(u)' = Sold(u) /\ TakenBack(u)' = TakenBack(u)
    BY <1>2 DEF Sold, TakenBack
  <2> QED
    BY <1>2, <2>1, AccountKept DEF LedgerInv
<1>4. Account(b)'
  <2>0. Account(b)
    BY DEF LedgerInv
  <2>1. TakenBack(b)' = TakenBack(b)
    BY <1>2 DEF TakenBack
  <2>2. Sold(b)' = Sold(b) \union {c} /\ c \notin Sold(b)
    BY <1>1, <1>2 DEF Sold
  <2>3. IsFiniteSet(Sold(b)) /\ IsFiniteSet(Sold(b)')
    BY <2>0, <2>2, FS_AddElement DEF Account
  <2>4. SumOfCredits(Sold(b) \union {c}) = SumOfCredits(Sold(b)) + Credits[c]
    BY <2>2, <2>3, CoinsOfOneMore DEF Sold
  <2>5. SumOfCredits(Sold(b)) \in Nat /\ SumOfCredits(TakenBack(b)) \in Nat
    BY <2>0, CoinsFinite DEF Account, Sold, TakenBack
  <2>6. /\ SumOfCredits(Sold(b))' = SumOfCredits(Sold(b)) + Credits[c]
        /\ SumOfCredits(TakenBack(b))' = SumOfCredits(TakenBack(b))
    BY <2>1, <2>2, <2>4 DEF SumOfCredits, Coins
  <2> PICK row \in CreditRow : row = credit[b]
    BY <1>0 DEF TypeOK
  <2>7. /\ row.balance \in Int /\ row.purchased \in Nat
        /\ row.granted \in Nat /\ row.used \in Nat /\ revoked[b] \in Nat
    BY <1>0 DEF CreditRow, TypeOK
  <2>8. /\ credit'[b].balance = row.balance + Credits[c]
        /\ credit'[b].used = row.used
        /\ credit'[b].granted = row.granted
        /\ credit'[b].purchased = row.purchased + Credits[c]
    BY <1>1, <1>2, AddedEffect
  <2>9. revoked'[b] = revoked[b]
    BY <1>2
  <2>10. /\ row.purchased = SumOfCredits(Sold(b))
         /\ row.balance = row.purchased + row.granted - row.used
                            - SumOfCredits(TakenBack(b)) - revoked[b]
         /\ row.used <= row.purchased + row.granted
    BY <2>0 DEF Account
  <2>11. credit'[b].balance = credit'[b].purchased + credit'[b].granted - credit'[b].used
                                - SumOfCredits(TakenBack(b))' - revoked'[b]
    BY <1>1, <2>5, <2>6, <2>7, <2>8, <2>9, <2>10
  <2>12. /\ credit'[b].purchased = SumOfCredits(Sold(b))'
         /\ credit'[b].used <= credit'[b].purchased + credit'[b].granted
    BY <1>1, <2>6, <2>7, <2>8, <2>10
  <2>13. IsFiniteSet(TakenBack(b)')
    BY <2>0, <2>1 DEF Account
  <2> QED
    BY <2>3, <2>11, <2>12, <2>13 DEF Account
<1> QED BY <1>3, <1>4

LEMMA ClawbackAccounts ==
  ASSUME BillingAssumption, LedgerInv, NEW h \in Handlers, Clawback(h)
  PROVE  \A u \in Users : Account(u)'
<1>0. TypeOK /\ task[h].s \in Sessions /\ Doing(h, task[h].s, "clawback")
  BY BusyType DEF LedgerInv, OwedInv, IInv, Clawback, Doing
<1> PICK c \in Sessions : c = task[h].s
  BY <1>0
<1> PICK b \in Users : b = Buyer[c]
  BY DEF BillingAssumption
<1>1. clawed[c] = 0 /\ Credits[c] \in Nat \ {0}
  BY <1>0 DEF LedgerInv, OwedInv, IInv, ReversalInv, BillingAssumption
<1>2. /\ clawed'[c] > 0
      /\ \A s \in Sessions \ {c} : clawed'[s] = clawed[s]
      /\ UNCHANGED <<applied, revoked>>
      /\ credit'[b] = Added(credit[b], -Credits[c], "purchase")
      /\ \A u \in Users \ {b} : credit'[u] = credit[u]
  BY <1>0, <1>1 DEF Clawback, TypeOK
<1>3. ASSUME NEW u \in Users \ {b} PROVE Account(u)'
  <2>1. Sold(u)' = Sold(u) /\ TakenBack(u)' = TakenBack(u)
    BY <1>2 DEF Sold, TakenBack
  <2> QED
    BY <1>2, <2>1, AccountKept DEF LedgerInv
<1>4. Account(b)'
  <2>0. Account(b)
    BY DEF LedgerInv
  <2>1. Sold(b)' = Sold(b)
    BY <1>2 DEF Sold
  <2>2. TakenBack(b)' = TakenBack(b) \union {c} /\ c \notin TakenBack(b)
    BY <1>1, <1>2 DEF TakenBack
  <2>3. IsFiniteSet(TakenBack(b)) /\ IsFiniteSet(TakenBack(b)')
    BY <2>0, <2>2, FS_AddElement DEF Account
  <2>4. SumOfCredits(TakenBack(b) \union {c}) = SumOfCredits(TakenBack(b)) + Credits[c]
    BY <2>2, <2>3, CoinsOfOneMore DEF TakenBack
  <2>5. SumOfCredits(Sold(b)) \in Nat /\ SumOfCredits(TakenBack(b)) \in Nat
    BY <2>0, CoinsFinite DEF Account, Sold, TakenBack
  <2>6. /\ SumOfCredits(Sold(b))' = SumOfCredits(Sold(b))
        /\ SumOfCredits(TakenBack(b))' = SumOfCredits(TakenBack(b)) + Credits[c]
    BY <2>1, <2>2, <2>4 DEF SumOfCredits, Coins
  <2> PICK row \in CreditRow : row = credit[b]
    BY <1>0 DEF TypeOK
  <2>7. /\ row.balance \in Int /\ row.purchased \in Nat
        /\ row.granted \in Nat /\ row.used \in Nat /\ revoked[b] \in Nat
    BY <1>0 DEF CreditRow, TypeOK
  <2>8. -Credits[c] \in Int /\ ~(-Credits[c] >= 0)
    BY <1>1
  <2>9. /\ credit'[b].balance = row.balance - Credits[c]
        /\ credit'[b].used = row.used
        /\ credit'[b].granted = row.granted
        /\ credit'[b].purchased = row.purchased
    BY <1>1, <1>2, <2>7, <2>8, AddedEffect
  <2>10. /\ Sold(b)' = Sold(b)
         /\ SumOfCredits(Sold(b))' = SumOfCredits(Sold(b)) /\ revoked'[b] = revoked[b]
    BY <1>2, <2>1, <2>6
  <2>11. credit'[b].balance = credit'[b].purchased + credit'[b].granted - credit'[b].used
                                - SumOfCredits(TakenBack(b))' - revoked'[b]
    BY <1>1, <2>0, <2>5, <2>6, <2>7, <2>9, <2>10 DEF Account
  <2>12. /\ credit'[b].purchased = SumOfCredits(Sold(b))'
         /\ credit'[b].used <= credit'[b].purchased + credit'[b].granted
    BY <2>0, <2>9, <2>10 DEF Account
  <2> QED
    BY <2>0, <2>3, <2>10, <2>11, <2>12 DEF Account
<1> QED BY <1>3, <1>4

LEMMA LedgerAccounts ==
  ASSUME BillingAssumption, LedgerInv, NEW b \in Users, Ledger(b)
  PROVE  \A u \in Users : Account(u)'
<1>0. TypeOK /\ Account(b)
  BY DEF LedgerInv, OwedInv, IInv
<1>1. UNCHANGED <<applied, clawed>>
  BY DEF Ledger, Spend, FinishGeneration, ReturnCredit, AdminAdjust, history
<1>2. /\ \A u \in Users \ {b} : credit'[u] = credit[u] /\ revoked'[u] = revoked[u]
      /\ \/ credit'[b] = credit[b] /\ revoked'[b] = revoked[b]
         \/ /\ HasCredits(credit[b]) /\ credit'[b] = Deducted(credit[b])
            /\ revoked'[b] = revoked[b]
         \/ \E n \in Int : /\ credit'[b] = Added(credit[b], n, "grant")
                           /\ revoked'[b] = IF n < 0 THEN revoked[b] - n ELSE revoked[b]
  <2>1. CASE Spend(b) \/ FinishGeneration(b)
    BY <1>0, <2>1 DEF Spend, FinishGeneration, TypeOK, history
  <2>2. CASE ReturnCredit(b)
    <3>1. 1 \in Int /\ ~(1 < 0)
      OBVIOUS
    <3> QED
      BY <1>0, <2>2, <3>1 DEF ReturnCredit, TypeOK, history
  <2>3. ASSUME NEW n \in AdminAmounts, AdminAdjust(b, n)
        PROVE  /\ \A u \in Users \ {b} : credit'[u] = credit[u] /\ revoked'[u] = revoked[u]
               /\ n \in Int
               /\ credit'[b] = Added(credit[b], n, "grant")
               /\ revoked'[b] = IF n < 0 THEN revoked[b] - n ELSE revoked[b]
    BY <1>0, <2>3 DEF AdminAdjust, TypeOK, BillingAssumption
  <2> QED BY <2>1, <2>2, <2>3 DEF Ledger
<1>3. Account(b)'
  BY <1>0, <1>1, <1>2, SameSessions, AccountKept, AccountAdjusted
<1>4. ASSUME NEW u \in Users \ {b} PROVE Account(u)'
  BY <1>1, <1>2, SameSessions, AccountKept DEF LedgerInv
<1> QED BY <1>3, <1>4

LEMMA LedgerInvStep == BillingAssumption /\ LedgerInv /\ [Next]_vars => LedgerInv'
<1> SUFFICES ASSUME BillingAssumption, LedgerInv, [Next]_vars
             PROVE  \A u \in Users : Account(u)'
  BY OwedInvStep DEF LedgerInv
<1>0. UNCHANGED <<credit, applied, clawed, revoked>> => \A u \in Users : Account(u)'
  BY SameSessions, AccountKept DEF LedgerInv
<1>1. ASSUME NEW s \in Sessions, Stripe(s) \/ DeliverIgnored(s) \/ Age(s)
      PROVE  UNCHANGED <<credit, applied, clawed, revoked>>
  BY <1>1
  DEF Stripe, Pay, PayLater, Settle, Bounce, Expire, StripeStep, RefundCharge, DeliverIgnored,
      NoOp, Age, history
<1>2. Sweep => UNCHANGED <<credit, applied, clawed, revoked>>
  BY DEF Sweep, history
<1>3. ASSUME NEW h \in Handlers, NEW s \in Sessions,
             OpenCheckout(h, s) \/ VisitSuccess(h, s) \/ Deliver(h, s)
      PROVE  UNCHANGED <<credit, applied, clawed, revoked>>
  BY <1>3
  DEF OpenCheckout, VisitSuccess, Deliver, DeliverCompleted, DeliverRefunded, DeliverClosed,
      Claim, NoOp, history
<1>4. ASSUME NEW h \in Handlers,
             RecordPending(h) \/ UpgradeTier(h) \/ MarkClosed(h) \/ Crash(h)
      PROVE  UNCHANGED <<credit, applied, clawed, revoked>>
  BY <1>4 DEF RecordPending, UpgradeTier, MarkClosed, Crash, history
<1>5. UNCHANGED vars => UNCHANGED <<credit, applied, clawed, revoked>>
  BY DEF vars, history
<1> QED
  BY <1>0, <1>1, <1>2, <1>3, <1>4, <1>5,
     AddPurchasedAccounts, ClawbackAccounts, LedgerAccounts DEF Next, Continue

(* The account's row is the sum, over the sessions whose credits were      *)
(* added and taken back, of what their packs hold, and no more is used     *)
(* than was bought and granted (add_credits, reverse_credits,              *)
(* deduct_credit); those sessions are finitely many at any moment.         *)
THEOREM LedgerInvHolds == Spec => []LedgerInv
<1>1. Init => LedgerInv
  <2> SUFFICES ASSUME Init, NEW u \in Users PROVE Account(u)
    BY BillingAssumption, IInvInit DEF LedgerInv, OwedInv, Settled, Init
  <2>1. Sold(u) = {} /\ TakenBack(u) = {}
    BY DEF Sold, TakenBack, Init
  <2> QED
    BY <2>1, NoCoins, FS_EmptySet DEF Account, Init, EmptyRow
<1> QED
  BY <1>1, BillingAssumption, LedgerInvStep, PTL DEF Spec

(* The credits table can be audited from the payments table for every      *)
(* account on whose rows no handler died, at every moment, also in the     *)
(* middle of a grant or a reversal (manage_credits, grant and reverse).    *)
THEOREM BooksAlwaysBalance == Spec => []BooksBalance
<1>1. LedgerInv => BooksBalance
  <2> SUFFICES ASSUME LedgerInv, NEW u \in Users,
                      \A s \in Sessions : Buyer[s] = u => crashes[s] = 0
               PROVE  LET rows == {s \in Sessions : Buyer[s] = u}
                          sold == {s \in rows : status[s] \in {"completed", "refunded"}
                                                  /\ ~CreditDue(s)}
                          undone == {s \in rows : status[s] = "refunded" /\ ~ClawbackDue(s)}
                      IN  /\ credit[u].purchased = SumOfCredits(sold)
                          /\ credit[u].balance =
                               credit[u].purchased + credit[u].granted - credit[u].used
                                 - SumOfCredits(undone) - revoked[u]
    BY DEF BooksBalance
  <2> DEFINE rows == {s \in Sessions : Buyer[s] = u}
             sold == {s \in rows : status[s] \in {"completed", "refunded"} /\ ~CreditDue(s)}
             undone == {s \in rows : status[s] = "refunded" /\ ~ClawbackDue(s)}
  <2>1. ASSUME NEW s \in rows
        PROVE  /\ applied[s] > 0 <=> status[s] \in {"completed", "refunded"} /\ ~CreditDue(s)
               /\ clawed[s] > 0 <=> status[s] = "refunded" /\ ~ClawbackDue(s)
    <3>1. Settled(s) /\ crashes[s] = 0
      BY DEF LedgerInv, OwedInv
    <3>2. (Owed(s, "credit") <=> CreditDue(s)) /\ (Owed(s, "clawback") <=> ClawbackDue(s))
      BY DEF Owed, Doing, CreditDue, ClawbackDue
    <3>3. /\ applied[s] > 0 => status[s] \in {"completed", "refunded"}
          /\ CreditDue(s) => applied[s] = 0
      BY DEF LedgerInv, OwedInv, IInv, GrantInv, CreditDue, Doing
    <3>4. /\ clawed[s] > 0 => status[s] = "refunded"
          /\ ClawbackDue(s) => clawed[s] = 0
      BY DEF LedgerInv, OwedInv, IInv, ReversalInv, ClawbackDue, Doing
    <3> QED BY <3>1, <3>2, <3>3, <3>4 DEF Settled
  <2>2. Sold(u) = sold /\ TakenBack(u) = undone
    BY <2>1 DEF Sold, TakenBack
  <2>3. Account(u)
    BY DEF LedgerInv
  <2> QED BY <2>2, <2>3 DEF Account
<1> QED BY <1>1, LedgerInvHolds, PTL

(* An account is never below zero by more than its refunds and what        *)
(* administrators took: the WHERE balance > 0 of deduct_credit is enough   *)
(* although grants, reversals and generations interleave and may crash.    *)
THEOREM SpendingNeverOverdraws == Spec => []OverdraftOnlyByReversal
<1>1. BillingAssumption /\ LedgerInv => OverdraftOnlyByReversal
  <2> SUFFICES ASSUME BillingAssumption, LedgerInv, NEW u \in Users
               PROVE  credit[u].balance >= -(SumOfCredits(TakenBack(u)) + revoked[u])
    BY DEF OverdraftOnlyByReversal, TakenBack
  <2>1. Account(u) /\ credit[u] \in CreditRow /\ revoked[u] \in Nat
    BY DEF LedgerInv, OwedInv, IInv, TypeOK
  <2>2. SumOfCredits(TakenBack(u)) \in Nat
    BY <2>1, CoinsFinite DEF Account, TakenBack
  <2>3. /\ credit[u].balance \in Int /\ credit[u].purchased \in Nat
        /\ credit[u].granted \in Nat /\ credit[u].used \in Nat
    BY <2>1 DEF CreditRow
  <2> QED BY <2>1, <2>2, <2>3 DEF Account
<1> QED BY <1>1, BillingAssumption, LedgerInvHolds, PTL
=============================================================================
