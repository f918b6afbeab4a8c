------------------------------ MODULE Billing ------------------------------
(***************************************************************************)
(* Checkout, the Stripe webhook, the success page, refunds and the credit  *)
(* ledger (app/web/routes/payments.py, app/billing/use_cases).             *)
(*                                                                         *)
(* A handler commits several times, so each commit is an action and task   *)
(* says which one comes next.  Between two commits any other handler may   *)
(* run, and the process may die.  Stripe is external: it may deliver an    *)
(* event late, in any order, and more than once.                           *)
(***************************************************************************)
EXTENDS CreditLedger, FiniteSets

CONSTANTS
  Users,        \* accounts
  Sessions,     \* Stripe checkout sessions, each with at most one payments row
  Handlers,     \* requests the workers can serve at the same time
  NoSession,    \* what an idle handler works on
  Buyer,        \* the account that opens a session (metadata.user_id)
  Credits,      \* credits of the pack it buys (payments.credits_granted)
  AlphaPack,    \* the sessions that buy the founders' pack
  Delayed,      \* sessions paid with a method that settles days later
  FounderCap,   \* ALPHA_USER_CAP
  AdminAmounts, \* amounts an administrator may grant (negative: take back)
  MaxAdmin,     \* bound: administrator adjustments
  MaxUsed,      \* bound: generations charged per account
  MaxCrashes,   \* bound: handlers that die on a session between two commits
  MaxAged       \* bound: rows that are still there a day later

ASSUME BillingAssumption ==
  /\ Buyer \in [Sessions -> Users]
  /\ Credits \in [Sessions -> Nat \ {0}]
  /\ AlphaPack \subseteq Sessions /\ Delayed \subseteq Sessions
  /\ NoSession \notin Sessions
  /\ FounderCap \in Nat /\ MaxAdmin \in Nat /\ MaxUsed \in Nat /\ MaxCrashes \in Nat
  /\ MaxAged \in Nat
  /\ AdminAmounts \subseteq Int \ {0}

VARIABLES
  stripe,   \* Stripe's state of each session
  refunded, \* sessions whose charge Stripe has refunded
  events,   \* webhook events Stripe has emitted
  acked,    \* events a webhook call has answered
  url,      \* sessions whose payment page the buyer was sent to
  status,   \* payments.status, "absent" while there is no row
  intent,   \* sessions whose row carries the payment intent
  credit,   \* the credits table
  tier,     \* users.tier
  running,  \* generations charged and not finished, per account
  task,     \* what each handler does next
  adjusted, \* administrator adjustments made so far
  crashes,  \* handlers that died on each session so far
  aged,     \* sessions whose row is more than a day old
  swept,    \* history: rows the startup sweep has closed
  applied,  \* history: times the credits of a session were added
  clawed,   \* history: times they were taken back
  revoked   \* history: credits taken back by administrators

table == <<status, intent, tier>>
external == <<stripe, refunded, events, url>>
history == <<applied, clawed, revoked>>
spending == <<running, adjusted>>
sweeps == <<aged, swept>>
vars == <<external, acked, table, credit, spending, task, crashes, sweeps, history>>

EventTypes == {"completed_paid", "completed_unpaid", "async_succeeded",
               "async_failed", "expired", "refunded"}
Event == [type : EventTypes, s : Sessions]
StripeState == {"none", "open", "unpaid", "paid", "failed", "expired"}
Status == {"absent", "pending", "completed", "refunded", "expired", "failed"}

(* via: the event the handler will answer, "none" for a page request. *)
Idle == [pc |-> "idle", s |-> NoSession, via |-> "none"]
Task == [pc : {"record", "credit", "tier", "clawback", "mark"},
         s : Sessions, via : EventTypes \union {"none"}] \union {Idle}

TypeOK ==
  /\ stripe \in [Sessions -> StripeState]
  /\ refunded \subseteq Sessions /\ url \subseteq Sessions /\ intent \subseteq Sessions
  /\ events \subseteq Event /\ acked \subseteq Event
  /\ status \in [Sessions -> Status]
  /\ credit \in [Users -> CreditRow]
  /\ tier \in [Users -> {"public", "founder"}]
  /\ running \in [Users -> Nat]
  /\ task \in [Handlers -> Task]
  /\ adjusted \in Nat /\ crashes \in [Sessions -> Nat]
  /\ aged \subseteq Sessions /\ swept \subseteq Sessions
  /\ applied \in [Sessions -> Nat] /\ clawed \in [Sessions -> Nat]
  /\ revoked \in [Users -> Nat]

Init ==
  /\ stripe = [s \in Sessions |-> "none"]
  /\ refunded = {} /\ url = {} /\ intent = {}
  /\ events = {} /\ acked = {}
  /\ status = [s \in Sessions |-> "absent"]
  /\ credit = [u \in Users |-> EmptyRow]
  /\ tier = [u \in Users |-> "public"]
  /\ running = [u \in Users |-> 0]
  /\ task = [h \in Handlers |-> Idle]
  /\ adjusted = 0 /\ crashes = [s \in Sessions |-> 0]
  /\ aged = {} /\ swept = {}
  /\ applied = [s \in Sessions |-> 0] /\ clawed = [s \in Sessions |-> 0]
  /\ revoked = [u \in Users |-> 0]

(***************************************************************************)
(* Stripe and the buyer                                                    *)
(***************************************************************************)
Emit(type, s) == events' = events \union {[type |-> type, s |-> s]}

StripeStep(s, from, to, type) ==
  /\ stripe[s] = from
  /\ stripe' = [stripe EXCEPT ![s] = to]
  /\ Emit(type, s)
  /\ UNCHANGED <<refunded, url, acked, table, credit, spending, task, crashes, sweeps, history>>

(* The buyer pays on the page the checkout redirected to. *)
Pay(s) == s \in url \ Delayed /\ StripeStep(s, "open", "paid", "completed_paid")

(* A delayed method: the session completes unpaid and settles or bounces.  *)
PayLater(s) == s \in url \intersect Delayed /\ StripeStep(s, "open", "unpaid", "completed_unpaid")
Settle(s) == StripeStep(s, "unpaid", "paid", "async_succeeded")
Bounce(s) == StripeStep(s, "unpaid", "failed", "async_failed")

(* A session nobody paid expires after a day, also one whose page was      *)
(* never shown; the request that opened it has ended by then.              *)
Expire(s) ==
  /\ \A h \in Handlers : task[h].s # s
  /\ StripeStep(s, "open", "expired", "expired")

RefundCharge(s) ==
  /\ stripe[s] = "paid" /\ s \notin refunded
  /\ refunded' = refunded \union {s}
  /\ Emit("refunded", s)
  /\ UNCHANGED <<stripe, url, acked, table, credit, spending, task, crashes, sweeps, history>>

(***************************************************************************)
(* Handler bookkeeping                                                     *)
(***************************************************************************)
Goto(h, pc, s, via) == task' = [task EXCEPT ![h] = [pc |-> pc, s |-> s, via |-> via]]

Answered(s, via) ==
  acked' = IF via = "none" THEN acked ELSE acked \union {[type |-> via, s |-> s]}

(* The handler returns its response; a webhook answer acknowledges the event. *)
Return(h) ==
  /\ task' = [task EXCEPT ![h] = Idle]
  /\ Answered(task[h].s, task[h].via)

(***************************************************************************)
(* create_alpha_checkout and create_topup_checkout                         *)
(***************************************************************************)
(* count_alpha_users: every account with a purchased total counts. *)
AlphaUsers == {u \in Users : credit[u].purchased > 0}

(* Cap check (founders' pack only), then Session.create at Stripe. *)
OpenCheckout(h, s) ==
  /\ task[h] = Idle /\ stripe[s] = "none"
  /\ s \in AlphaPack => Cardinality(AlphaUsers) < FounderCap
  /\ stripe' = [stripe EXCEPT ![s] = "open"]
  /\ Goto(h, "record", s, "none")
  /\ UNCHANGED <<refunded, events, url, acked, table, credit, spending, crashes, sweeps, history>>

(* The pending row is committed, only then the buyer is redirected. *)
RecordPending(h) ==
  /\ task[h].pc = "record"
  /\ status' = [status EXCEPT ![task[h].s] = "pending"]
  /\ url' = url \union {task[h].s}
  /\ Return(h)
  /\ UNCHANGED <<stripe, refunded, events, intent, tier, credit, spending, crashes, sweeps, history>>

(***************************************************************************)
(* grant_purchase_credits                                                  *)
(***************************************************************************)
(* Mutant: the guard the comments and tests describe. *)
ClaimableUnlessCompleted(s) == status[s] \notin {"absent", "completed"}

(* WHERE status = 'pending' *)
Claimable(s) == status[s] = "pending"

(* UPDATE ... RETURNING won the row; the commit comes before add_credits. *)
Claim(h, s, via) ==
  /\ Claimable(s)
  /\ status' = [status EXCEPT ![s] = "completed"]
  /\ intent' = intent \union {s}
  /\ Goto(h, "credit", s, via)
  /\ UNCHANGED <<external, acked, tier, credit, spending, crashes, sweeps, history>>

(* The update matched no row: the webhook answers and nothing changes. *)
NoOp(s, via) ==
  /\ Answered(s, via)
  /\ UNCHANGED <<external, table, credit, spending, task, crashes, sweeps, history>>

(* Mutant: payment_status is not looked at. *)
GrantingTypesAnyStatus == {"completed_paid", "completed_unpaid"}

(* Mutant: no event grants, only the success page does. *)
GrantingTypesNone == {}

(* checkout.session.completed whose payload says payment_status = paid. *)
GrantingTypes == {"completed_paid"}

DeliverCompleted(h, s) ==
  \E type \in GrantingTypes :
    /\ task[h] = Idle /\ [type |-> type, s |-> s] \in events
    /\ Claim(h, s, type) \/ (~Claimable(s) /\ NoOp(s, type))

(* The success page asks Stripe for the session.  Once paid it stays paid, *)
(* so reading it and claiming the row are one step; if the row is already  *)
(* taken the page changes nothing.                                         *)
VisitSuccess(h, s) ==
  /\ task[h] = Idle /\ s \in url /\ stripe[s] = "paid"
  /\ Claim(h, s, "none")

(* Mutant: no upgrade is due. *)
NeedsTierNever(s) == FALSE

(* pack_id == "alpha" *)
NeedsTier(s) == s \in AlphaPack

AddPurchased(h) ==
  LET s == task[h].s IN
  /\ task[h].pc = "credit"
  /\ credit' = [credit EXCEPT ![Buyer[s]] = Added(@, Credits[s], "purchase")]
  /\ applied' = [applied EXCEPT ![s] = @ + 1]
  /\ IF NeedsTier(s) THEN Goto(h, "tier", s, task[h].via) /\ UNCHANGED acked ELSE Return(h)
  /\ UNCHANGED <<external, table, spending, crashes, sweeps, clawed, revoked>>

UpgradeTier(h) ==
  /\ task[h].pc = "tier"
  /\ tier' = [tier EXCEPT ![Buyer[task[h].s]] = "founder"]
  /\ Return(h)
  /\ UNCHANGED <<external, status, intent, credit, spending, crashes, sweeps, history>>

(***************************************************************************)
(* charge.refunded: reverse_purchase_credits                               *)
(***************************************************************************)
(* Mutant: the status is not part of the WHERE clause. *)
ReversibleByIntent(s) == s \in intent

(* WHERE stripe_payment_intent = ... AND status = 'completed' *)
Reversible(s) == s \in intent /\ status[s] = "completed"

DeliverRefunded(h, s) ==
  /\ task[h] = Idle /\ [type |-> "refunded", s |-> s] \in events
  /\ \/ /\ Reversible(s)
        /\ status' = [status EXCEPT ![s] = "refunded"]
        /\ Goto(h, "clawback", s, "refunded")
        /\ UNCHANGED <<external, acked, intent, tier, credit, spending, crashes, sweeps, history>>
     \/ ~Reversible(s) /\ NoOp(s, "refunded")

Clawback(h) ==
  LET s == task[h].s IN
  /\ task[h].pc = "clawback"
  /\ credit' = [credit EXCEPT ![Buyer[s]] = Added(@, -Credits[s], "purchase")]
  /\ clawed' = [clawed EXCEPT ![s] = @ + 1]
  /\ Return(h)
  /\ UNCHANGED <<external, table, spending, crashes, sweeps, applied, revoked>>

(***************************************************************************)
(* checkout.session.expired and async_payment_failed                       *)
(***************************************************************************)
(* Mutant: a completed but unpaid session is closed as well. *)
ClosingTypesUnpaid == {"expired", "async_failed", "completed_unpaid"}

(* Mutant: the failed branch is forgotten. *)
ClosingTypesExpired == {"expired"}

ClosingTypes == {"expired", "async_failed"}

(* SELECT the row; go on only if it is still pending. *)
DeliverClosed(h, s) ==
  \E type \in ClosingTypes :
    /\ task[h] = Idle /\ [type |-> type, s |-> s] \in events
    /\ \/ /\ status[s] = "pending"
          /\ Goto(h, "mark", s, type)
          /\ UNCHANGED <<external, acked, table, credit, spending, crashes, sweeps, history>>
       \/ status[s] # "pending" /\ NoOp(s, type)

(* The ORM update is keyed by the row's id: it does not look at the status again. *)
MarkClosed(h) ==
  /\ task[h].pc = "mark"
  /\ status' = [status EXCEPT ![task[h].s] =
                  IF task[h].via = "expired" THEN "expired" ELSE "failed"]
  /\ Return(h)
  /\ UNCHANGED <<external, intent, tier, credit, spending, crashes, sweeps, history>>

(* Event types no branch of the webhook acts on are answered "ok". *)
DeliverIgnored(s) ==
  \E type \in EventTypes \ (GrantingTypes \union ClosingTypes \union {"refunded"}) :
    [type |-> type, s |-> s] \in events /\ NoOp(s, type)

(***************************************************************************)
(* lifespan: _cleanup_stale_payments, run by every worker that starts      *)
(***************************************************************************)
(* A day passes over a row.  By then Stripe has expired the session unless *)
(* the buyer got through the payment page.                                 *)
Age(s) ==
  /\ status[s] # "absent" /\ stripe[s] # "open" /\ s \notin aged
  /\ Cardinality(aged) < MaxAged
  /\ aged' = aged \union {s}
  /\ UNCHANGED <<external, acked, table, credit, spending, task, crashes, swept, history>>

(* Mutant: the sweep forgets WHERE status = 'pending'. *)
StaleAnyStatus == aged

(* WHERE status = 'pending' AND created_at < cutoff *)
Stale == {s \in aged : status[s] = "pending"}

Sweep ==
  /\ Stale # {}
  /\ status' = [s \in Sessions |-> IF s \in Stale THEN "expired" ELSE status[s]]
  /\ swept' = swept \union Stale
  /\ UNCHANGED <<external, acked, intent, tier, credit, spending, task, crashes, aged, history>>

(***************************************************************************)
(* The other users of the ledger                                           *)
(***************************************************************************)
(* deduct_credit for a generation (cv.py analyze, ws_analyze). *)
Spend(u) ==
  /\ HasCredits(credit[u]) /\ credit[u].used < MaxUsed
  /\ credit' = [credit EXCEPT ![u] = Deducted(@)]
  /\ running' = [running EXCEPT ![u] = @ + 1]
  /\ UNCHANGED <<external, acked, table, adjusted, task, crashes, sweeps, history>>

FinishGeneration(u) ==
  /\ running[u] > 0
  /\ running' = [running EXCEPT ![u] = @ - 1]
  /\ UNCHANGED <<external, acked, table, credit, adjusted, task, crashes, sweeps, history>>

(* The pipeline failed: the credit comes back as a grant. *)
ReturnCredit(u) ==
  /\ running[u] > 0
  /\ running' = [running EXCEPT ![u] = @ - 1]
  /\ credit' = [credit EXCEPT ![u] = Added(@, 1, "grant")]
  /\ UNCHANGED <<external, acked, table, adjusted, task, crashes, sweeps, history>>

(* admin_add_credits *)
AdminAdjust(u, n) ==
  /\ adjusted < MaxAdmin
  /\ adjusted' = adjusted + 1
  /\ credit' = [credit EXCEPT ![u] = Added(@, n, "grant")]
  /\ revoked' = [revoked EXCEPT ![u] = IF n < 0 THEN @ - n ELSE @]
  /\ UNCHANGED <<external, acked, table, running, task, crashes, sweeps, applied, clawed>>

(* A worker dies, or the database call raises, between two commits: what   *)
(* was committed stays and the webhook call is not answered.               *)
Crash(h) ==
  /\ task[h] # Idle /\ crashes[task[h].s] < MaxCrashes
  /\ crashes' = [crashes EXCEPT ![task[h].s] = @ + 1]
  /\ task' = [task EXCEPT ![h] = Idle]
  /\ UNCHANGED <<external, acked, table, credit, spending, sweeps, history>>

(***************************************************************************)
(* Specification                                                           *)
(***************************************************************************)
Stripe(s) ==
  Pay(s) \/ PayLater(s) \/ Settle(s) \/ Bounce(s) \/ Expire(s) \/ RefundCharge(s)

Deliver(h, s) ==
  DeliverCompleted(h, s) \/ DeliverRefunded(h, s) \/ DeliverClosed(h, s)

Continue(h) ==
  RecordPending(h) \/ AddPurchased(h) \/ UpgradeTier(h) \/ Clawback(h) \/ MarkClosed(h)

Ledger(u) ==
  \/ Spend(u) \/ FinishGeneration(u) \/ ReturnCredit(u)
  \/ \E n \in AdminAmounts : AdminAdjust(u, n)

Next ==
  \/ \E s \in Sessions : Stripe(s) \/ DeliverIgnored(s) \/ Age(s)
  \/ Sweep
  \/ \E h \in Handlers, s \in Sessions :
       OpenCheckout(h, s) \/ VisitSuccess(h, s) \/ Deliver(h, s)
  \/ \E h \in Handlers : Continue(h) \/ Crash(h)
  \/ \E u \in Users : Ledger(u)

Spec == Init /\ [][Next]_vars

(* A handler that has started runs on, and Stripe repeats an event until a *)
(* call answers it; since a call may find every handler busy, that is      *)
(* strong fairness.  Nobody has to buy, pay or look at a page.             *)
Unanswered(type, s) == [type |-> type, s |-> s] \in events \ acked
Repeat(h, s) ==
  \/ \E type \in GrantingTypes : Unanswered(type, s) /\ DeliverCompleted(h, s)
  \/ \E type \in ClosingTypes : Unanswered(type, s) /\ DeliverClosed(h, s)
  \/ Unanswered("refunded", s) /\ DeliverRefunded(h, s)

Fairness ==
  /\ \A h \in Handlers : WF_vars(Continue(h))
  /\ \A s \in Sessions : SF_vars(\E h \in Handlers : Repeat(h, s))

FairSpec == Spec /\ Fairness

(***************************************************************************)
(* Properties                                                              *)
(***************************************************************************)
WorkedOn(s) == \E h \in Handlers : task[h].s = s
CreditDue(s) == \E h \in Handlers : task[h].s = s /\ task[h].pc = "credit"
ClawbackDue(s) == \E h \in Handlers : task[h].s = s /\ task[h].pc = "clawback"

(* Every credit of the packs of S, one by one, and how many they are. *)
Coins(S) == UNION {{s} \X (1 .. Credits[s]) : s \in S}
SumOfCredits(S) == Cardinality(Coins(S))

(* However often the webhook is repeated and however it races the success  *)
(* page, the credits of a session are added at most once and taken back at *)
(* most once (grant_purchase_credits, reverse_purchase_credits).           *)
AtMostOnce == \A s \in Sessions : applied[s] <= 1 /\ clawed[s] <= 1

(* The ledger can be audited from the payments table, as long as no        *)
(* handler died: an account's purchased total is what its completed and    *)
(* refunded rows sold, and its balance is the totals less use, less        *)
(* refunds, less what was revoked.                                         *)
BooksBalance ==
  \A u \in Users :
    LET rows == {s \in Sessions : Buyer[s] = u}
        sold == {s \in rows : status[s] \in {"completed", "refunded"} /\ ~CreditDue(s)}
        undone == {s \in rows : status[s] = "refunded" /\ ~ClawbackDue(s)}
    IN (\A s \in rows : crashes[s] = 0) =>
       /\ credit[u].purchased = SumOfCredits(sold)
       /\ credit[u].balance = credit[u].purchased + credit[u].granted - credit[u].used
                                - SumOfCredits(undone) - revoked[u]

(* Credits are added only for a session Stripe holds as paid. *)
CreditsArePaidFor == \A s \in Sessions : applied[s] > 0 => stripe[s] = "paid"

(* A paid session always has a row to claim, and only the startup sweep    *)
(* can close it as expired or failed: MarkClosed, which updates the row    *)
(* blindly, cannot hit it.                                                 *)
PaidSessionIsClaimable ==
  \A s \in Sessions :
    stripe[s] = "paid" =>
      status[s] # "absent" /\ (status[s] \in {"expired", "failed"} => s \in swept)

(* Only refunds and revocations put an account below zero: spending never  *)
(* takes more than the account held (deduct_credit).                       *)
OverdraftOnlyByReversal ==
  \A u \in Users :
    credit[u].balance >=
      -(SumOfCredits({s \in Sessions : Buyer[s] = u /\ clawed[s] > 0}) + revoked[u])

(* Only a handler that dies can lose part of a grant, or make a refund     *)
(* take back what was never given.                                         *)
OnlyACrashLosesAGrant ==
  \A s \in Sessions :
    status[s] \in {"completed", "refunded"} /\ ~WorkedOn(s) /\ crashes[s] = 0 =>
      /\ applied[s] = 1 /\ (s \in AlphaPack => tier[Buyer[s]] = "founder")
      /\ clawed[s] = IF status[s] = "refunded" THEN 1 ELSE 0

(* A row moves from pending to one of completed, expired and failed, and   *)
(* from completed only to refunded.  (A row the sweep expired under a      *)
(* handler that is about to mark it failed ends up failed.)                *)
StatusMoves ==
  {<<"absent", "pending">>, <<"pending", "completed">>, <<"pending", "expired">>,
   <<"pending", "failed">>, <<"expired", "failed">>, <<"completed", "refunded">>}
StatusOnlyAdvances ==
  [][\A s \in Sessions : status'[s] # status[s] => <<status[s], status'[s]>> \in StatusMoves]_vars

(* A session that is paid on the spot is credited even if the buyer never  *)
(* comes back to the success page, unless the startup sweep of a worker    *)
(* closes its row first: it does so when no event was served for a day.    *)
PromptPaymentIsCredited ==
  \A s \in Sessions \ Delayed : stripe[s] = "paid" ~> applied[s] = 1 \/ s \in swept

(* An abandoned session does not leave its row pending for ever. *)
AbandonedIsClosed ==
  \A s \in Sessions :
    stripe[s] \in {"expired", "failed"} /\ status[s] # "absent" ~> status[s] \in {"expired", "failed"}

(***************************************************************************)
(* An inductive invariant: why the two UPDATE ... RETURNING guards are     *)
(* enough although each grant and each reversal is a second commit.        *)
(***************************************************************************)
Doing(h, s, pc) == task[h].s = s /\ task[h].pc = pc

(* A handler between Session.create and the insert is alone on a session   *)
(* nobody can pay yet.                                                     *)
RecordInv ==
  \A s \in Sessions :
    /\ status[s] = "absent" <=> s \notin url
    /\ stripe[s] \in {"none", "unpaid", "paid", "failed"} => (s \in url <=> stripe[s] # "none")
    /\ \A h \in Handlers :
         Doing(h, s, "record") =>
           /\ stripe[s] = "open" /\ s \notin url
           /\ \A g \in Handlers : Doing(g, s, "record") => g = h

(* The outcomes Stripe reports for a session exclude each other, so what a *)
(* handler read from an event stays true.                                  *)
OutcomeInv ==
  /\ \A e \in events :
       /\ e.type = "completed_paid" => stripe[e.s] = "paid"
       /\ e.type = "expired" => stripe[e.s] = "expired"
       /\ e.type = "async_failed" => stripe[e.s] = "failed"
  /\ \A s \in Sessions :
       /\ status[s] \in {"completed", "refunded"} => stripe[s] = "paid"
       /\ status[s] = "expired" => stripe[s] = "expired" \/ s \in swept
       /\ status[s] = "failed" => stripe[s] = "failed"
       /\ \A h \in Handlers :
            Doing(h, s, "mark") =>
              /\ s \in url
              /\ stripe[s] = IF task[h].via = "expired" THEN "expired" ELSE "failed"

(* A pending grant holds its row alone and has not been paid out before. *)
GrantInv ==
  \A s \in Sessions :
    /\ applied[s] <= 1
    /\ applied[s] > 0 => status[s] \in {"completed", "refunded"}
    /\ \A h \in Handlers :
         Doing(h, s, "credit") =>
           /\ status[s] \in {"completed", "refunded"} /\ applied[s] = 0
           /\ \A g \in Handlers : Doing(g, s, "credit") => g = h

(* The same for a pending reversal. *)
ReversalInv ==
  \A s \in Sessions :
    /\ clawed[s] <= 1
    /\ clawed[s] > 0 => status[s] = "refunded"
    /\ \A h \in Handlers :
         Doing(h, s, "clawback") =>
           /\ status[s] = "refunded" /\ clawed[s] = 0
           /\ \A g \in Handlers : Doing(g, s, "clawback") => g = h

IInv == TypeOK /\ RecordInv /\ OutcomeInv /\ GrantInv /\ ReversalInv

(* What is still owed on a row no handler has died on is owed by a handler *)
(* that is at it.                                                          *)
Owed(s, pc) == \E h \in Handlers : Doing(h, s, pc)
Settled(s) ==
  status[s] \in {"completed", "refunded"} /\ crashes[s] = 0 =>
    /\ applied[s] = 1 \/ Owed(s, "credit")
    /\ applied[s] = 1 /\ s \in AlphaPack => tier[Buyer[s]] = "founder" \/ Owed(s, "tier")
    /\ status[s] = "refunded" => clawed[s] = 1 \/ Owed(s, "clawback")

OwedInv == IInv /\ \A s \in Sessions : Settled(s)

(* The ledger of an account, crash or no crash: what it was sold, what it  *)
(* gave back, and that it never used more than it ever got.                *)
Sold(u) == {s \in Sessions : Buyer[s] = u /\ applied[s] > 0}
TakenBack(u) == {s \in Sessions : Buyer[s] = u /\ clawed[s] > 0}
Account(u) ==
  /\ IsFiniteSet(Sold(u)) /\ IsFiniteSet(TakenBack(u))
  /\ credit[u].purchased = SumOfCredits(Sold(u))
  /\ credit[u].balance = credit[u].purchased + credit[u].granted - credit[u].used
                           - SumOfCredits(TakenBack(u)) - revoked[u]
  /\ credit[u].used <= credit[u].purchased + credit[u].granted

LedgerInv == OwedInv /\ \A u \in Users : Account(u)

(***************************************************************************)
(* The promise to the buyer this module implements.                        *)
(***************************************************************************)
Promise == INSTANCE PurchasePromise WITH
  paid <- {s \in Sessions : stripe[s] = "paid"},
  grants <- applied,
  reversals <- clawed

ImplementsPromise == Promise!Spec
=============================================================================
