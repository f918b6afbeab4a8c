-------------------------- MODULE GenerationProofs --------------------------
(***************************************************************************)
(* Proofs about Generation for any finite set of requests of any kinds,    *)
(* any cap, any number of credits, changes and faults.                     *)
(***************************************************************************)
EXTENDS Generation, FiniteSetTheorems, TLAPS

(* A row of the credits table stays a row under both statements. *)
LEMMA AddedType ==
  ASSUME NEW row \in CreditRow, NEW n \in Int, NEW k
  PROVE  Added(row, n, k) \in CreditRow
<1>1. row.balance + n \in Int
  BY DEF CreditRow
<1>2. (IF k = "grant" /\ n >= 0 THEN row.granted + n ELSE row.granted) \in Nat
  BY DEF CreditRow
<1>3. (IF k = "purchase" /\ n >= 0 THEN row.purchased + n ELSE row.purchased) \in Nat
  BY DEF CreditRow
<1> QED
  BY <1>1, <1>2, <1>3, Zenon DEF Added, CreditRow

LEMMA DeductedType ==
  ASSUME NEW row \in CreditRow
  PROVE  Deducted(row) \in CreditRow
<1>1. row.balance - 1 \in Int /\ row.used + 1 \in Nat
  BY DEF CreditRow
<1> QED
  BY <1>1, Zenon DEF Deducted, CreditRow

(* A deduction needs a positive balance and takes one credit off it. *)
LEMMA DeductedEffect ==
  ASSUME NEW row \in CreditRow
  PROVE  /\ Deducted(row).balance = row.balance - 1
         /\ Deducted(row).used = row.used + 1
         /\ Deducted(row).granted = row.granted
BY DEF Deducted, CreditRow

(* A returned credit is a grant of one. *)
LEMMA ReturnedEffect ==
  ASSUME NEW row \in CreditRow
  PROVE  /\ Added(row, 1, "grant").balance = row.balance + 1
         /\ Added(row, 1, "grant").used = row.used
         /\ Added(row, 1, "grant").granted = row.granted + 1
BY DEF Added, CreditRow

(***************************************************************************)
(* What the shared parts of the actions do to each request                 *)
(***************************************************************************)
LEMMA GotoEffect ==
  ASSUME TypeOK, NEW r \in Requests, NEW step \in Pc, Goto(r, step)
  PROVE  /\ pc' \in [Requests -> Pc] /\ pc'[r] = step
         /\ \A q \in Requests \ {r} : pc'[q] = pc[q]
BY DEF TypeOK, Goto

LEMMA EndEffect ==
  ASSUME TypeOK, NEW r \in Requests, NEW how \in Charge, End(r, how)
  PROVE  /\ pc' \in [Requests -> Pc] /\ pc'[r] = "done"
         /\ \A q \in Requests \ {r} : pc'[q] = pc[q]
         /\ charge' \in [Requests -> Charge]
         /\ charge'[r] = IF charge[r] = "held" THEN how ELSE charge[r]
         /\ \A q \in Requests \ {r} : charge'[q] = charge[q]
         /\ snap' \in [Requests -> Attempt \union {None}]
         /\ \A q \in Requests \ {r} : snap'[q] = snap[q]
         /\ base' \in [Requests -> Version]
         /\ \A q \in Requests \ {r} : base'[q] = base[q]
         /\ todo' \in [Requests -> SUBSET Sides]
         /\ count' = count
<1>1. "done" \in Pc /\ None \in Version
  BY DEF Pc, Version
<1>2. Goto(r, "done")
  BY DEF End
<1>3. /\ pc' \in [Requests -> Pc] /\ pc'[r] = "done"
      /\ \A q \in Requests \ {r} : pc'[q] = pc[q]
  BY <1>1, <1>2, GotoEffect
<1>4. /\ charge' \in [Requests -> Charge]
      /\ charge'[r] = IF charge[r] = "held" THEN how ELSE charge[r]
      /\ \A q \in Requests \ {r} : charge'[q] = charge[q]
  BY DEF TypeOK, End
<1>5. /\ snap' \in [Requests -> Attempt \union {None}]
      /\ \A q \in Requests \ {r} : snap'[q] = snap[q]
  BY DEF TypeOK, End
<1>6. /\ base' \in [Requests -> Version]
      /\ \A q \in Requests \ {r} : base'[q] = base[q]
  BY <1>1 DEF TypeOK, End
<1>7. todo' \in [Requests -> SUBSET Sides] /\ count' = count
  BY DEF TypeOK, End
<1> QED
  BY <1>3, <1>4, <1>5, <1>6, <1>7

(* An attempt with one field replaced is an attempt. *)
LEMMA AttemptFields ==
  ASSUME NEW a \in Attempt
  PROVE  /\ \A i \in Inputs : [a EXCEPT !.input = i] \in Attempt
         /\ \A i \in Inputs : [a EXCEPT !.keywords = i] \in Attempt
         /\ \A v \in Version : [a EXCEPT !.cv = v] \in Attempt
         /\ \A k \in Sides, v \in Version : [a EXCEPT !.side[k] = v] \in Attempt
         /\ [a EXCEPT !.reviewed = TRUE] \in Attempt
         /\ \A n \in Nat : Cleared(a, n) \in Attempt
<1>1. \A k \in Sides, v \in Version : [a.side EXCEPT ![k] = v] \in [Sides -> Version]
  BY DEF Attempt
<1>2. NoSides \in [Sides -> Version] /\ None \in Version
  BY DEF NoSides, Version
<1>3. \A n \in Nat : n + 1 \in Nat
  OBVIOUS
<1>4. \A k \in Sides, v \in Version : [a EXCEPT !.side[k] = v] \in Attempt
  BY <1>1 DEF Attempt
<1>5. \A n \in Nat : Cleared(a, n) \in Attempt
  BY <1>2, <1>3 DEF Attempt, Cleared
<1>6. \A v \in Version : [a EXCEPT !.cv = v] \in Attempt
  BY DEF Attempt
<1>7. \A i \in Inputs : [a EXCEPT !.input = i] \in Attempt /\ [a EXCEPT !.keywords = i] \in Attempt
  BY DEF Attempt
<1>8. [a EXCEPT !.reviewed = TRUE] \in Attempt
  BY DEF Attempt
<1> QED
  BY <1>4, <1>5, <1>6, <1>7, <1>8

(***************************************************************************)
(* Types                                                                   *)
(***************************************************************************)
LEMMA TypeInit == GenerationAssumption /\ Init => TypeOK /\ DataInv
<1> SUFFICES ASSUME GenerationAssumption, Init PROVE TypeOK /\ DataInv
  OBVIOUS
<1>1. attempt \in Attempt
  BY DEF GenerationAssumption, Init, Attempt, NoSides, Version
<1>2. credit \in CreditRow
  <2>1. InitialCredits \in Int /\ InitialCredits \in Nat /\ 0 \in Nat
    BY DEF GenerationAssumption
  <2>2. credit = [balance |-> InitialCredits, purchased |-> InitialCredits,
                  granted |-> 0, used |-> 0]
    BY DEF Init, EmptyRow
  <2> QED
    BY <2>1, <2>2, Zenon DEF CreditRow
<1>3. /\ pc \in [Requests -> Pc] /\ charge \in [Requests -> Charge]
      /\ snap \in [Requests -> Attempt \union {None}]
      /\ base \in [Requests -> Version] /\ todo \in [Requests -> SUBSET Sides]
  BY DEF Init, Pc, Charge, Version
<1>4. DataInv
  BY DEF Init, DataInv, HasData
<1> QED
  BY <1>1, <1>2, <1>3, <1>4 DEF Init, TypeOK, Version

(* What an action leaves alone keeps its type. *)
LEMMA PayType ==
  ASSUME TypeOK, NEW r \in Requests, NEW step \in Pc, Pay(r, step)
  PROVE  TypeOK'
<1>1. pc' \in [Requests -> Pc]
  BY GotoEffect DEF Pay
<1>2. Deducted(credit) \in CreditRow
  BY DeductedType DEF TypeOK
<1>3. credit' \in CreditRow /\ charge' \in [Requests -> Charge]
  BY <1>2 DEF Pay, TypeOK, Charge
<1> QED
  BY <1>1, <1>3 DEF Pay, TypeOK, records, review, regens, bounds

LEMMA BeginType ==
  ASSUME TypeOK, NEW r \in Requests, NEW a \in Attempt, Begin(r, a), attempt' \in Attempt,
         ran' \subseteq Requests
  PROVE  TypeOK'
<1>1. pc' \in [Requests -> Pc]
  BY GotoEffect DEF Begin, Pc
<1>2. snap' \in [Requests -> Attempt \union {None}]
  BY DEF Begin, TypeOK
<1> QED
  BY <1>1, <1>2 DEF Begin, TypeOK, records, review, regens, bounds

LEMMA EndType ==
  ASSUME TypeOK, NEW r \in Requests, NEW how \in Charge, End(r, how)
  PROVE  /\ pc' \in [Requests -> Pc] /\ charge' \in [Requests -> Charge]
         /\ snap' \in [Requests -> Attempt \union {None}] /\ base' \in [Requests -> Version]
         /\ todo' \in [Requests -> SUBSET Sides] /\ count' \in [Requests -> Nat]
BY EndEffect DEF TypeOK

LEMMA FailType ==
  ASSUME TypeOK, NEW r \in Requests, Fail(r)
  PROVE  TypeOK'
<1>1. CASE charge[r] = "held"
  <2>1. pc' \in [Requests -> Pc]
    BY <1>1, GotoEffect DEF Fail, Pc
  <2> QED
    BY <1>1, <2>1 DEF Fail, TypeOK, records, review, regens, bounds
<1>2. CASE charge[r] # "held"
  <2>1. "lost" \in Charge /\ End(r, "lost")
    BY <1>2 DEF Fail, Charge
  <2> QED
    BY <2>1, EndType DEF Fail, TypeOK, records, review, regens, bounds
<1> QED
  BY <1>1, <1>2

(* The steps of a pipeline keep the types. *)
LEMMA PipelineType ==
  ASSUME GenerationAssumption, TypeOK, DataInv, NEW r \in Requests, Pipeline(r)
  PROVE  TypeOK'
<1> USE DEF records, review, regens, bounds
<1>0. /\ attempt \in Attempt /\ snap[r] \in Attempt \union {None}
      /\ pc[r] \in {"keywords", "generate", "render", "polish"} => snap[r] \in Attempt
  BY DEF TypeOK, DataInv, HasData
<1>1. CASE Start(r)
  BY <1>1, BeginType DEF Start, TypeOK
<1>2. CASE Clear(r)
  <2>1. Cleared(attempt, count[r]) \in Attempt
    BY AttemptFields DEF TypeOK
  <2> QED
    BY <1>2, <2>1, BeginType DEF Clear, TypeOK
<1>3. CASE Keywords(r)
  <2>1. pc' \in [Requests -> Pc]
    BY <1>3, GotoEffect DEF Keywords, Pc
  <2>2. snap[r].input \in Inputs
    BY <1>0, <1>3 DEF Keywords, Attempt
  <2>3. [attempt EXCEPT !.keywords = snap[r].input] \in Attempt
    BY <1>0, <2>2, AttemptFields, Zenon
  <2>4. attempt' \in Attempt
    BY <1>0, <1>3, <2>3, Zenon DEF Keywords
  <2> QED
    BY <1>3, <2>1, <2>4 DEF Keywords, TypeOK
<1>4. CASE UseCached(r)
  <2>1. pc' \in [Requests -> Pc]
    BY <1>4, GotoEffect DEF UseCached, Pc
  <2>2. snap[r].cv \in Version
    BY <1>0, <1>4 DEF UseCached, Attempt
  <2>3. [attempt EXCEPT !.cv = snap[r].cv] \in Attempt
    BY <1>0, <2>2, AttemptFields, Zenon
  <2>4. attempt' \in Attempt
    BY <1>0, <1>4, <2>3, Zenon DEF UseCached
  <2>5. base' \in [Requests -> Version]
    BY <1>4, <2>2 DEF UseCached, TypeOK
  <2> QED
    BY <1>4, <2>1, <2>4, <2>5 DEF UseCached, TypeOK
<1>5. CASE Generate(r)
  <2>1. pc' \in [Requests -> Pc]
    BY <1>5, GotoEffect DEF Generate, Pc
  <2>2. snap[r].input \in Inputs
    BY <1>0, <1>5 DEF Generate, Attempt
  <2>3. madeFor' \in [Requests -> Inputs \union {None}]
    BY <1>5, <2>2 DEF Generate, TypeOK
  <2> QED
    BY <1>5, <2>1, <2>3 DEF Generate, TypeOK
<1>6. CASE Render(r)
  <2>1. pc' \in [Requests -> Pc]
    BY <1>6, GotoEffect DEF Render, Pc
  <2>2. r \in Version
    BY DEF Version
  <2>3. attempt' \in Attempt
    BY <1>0, <1>6, <2>2, AttemptFields DEF Render
  <2>4. base' \in [Requests -> Version]
    BY <1>6, <2>2 DEF Render, TypeOK
  <2> QED
    BY <1>6, <2>1, <2>3, <2>4 DEF Render, TypeOK
<1>7. CASE Polish(r)
  <2>1. pc' \in [Requests -> Pc]
    BY <1>7, GotoEffect DEF Polish, Pc
  <2>2. todo' \in [Requests -> SUBSET Sides]
    BY <1>7 DEF Polish, TypeOK
  <2> QED
    BY <1>7, <2>1, <2>2 DEF Polish, TypeOK
<1>8. CASE CreateJob(r)
  <2>1. pc' \in [Requests -> Pc]
    BY <1>8, GotoEffect DEF CreateJob, Pc
  <2>2. job' \in [Requests -> {"none", "draft", "complete"}] /\ faults' \in Nat
    BY <1>8 DEF CreateJob, Fault, TypeOK
  <2> QED
    BY <1>8, <2>1, <2>2 DEF CreateJob, TypeOK
<1>9. CASE CompleteJob(r)
  <2>1. pc' \in [Requests -> Pc]
    BY <1>9, GotoEffect DEF CompleteJob, Pc
  <2>2. job' \in [Requests -> {"none", "draft", "complete"}] /\ faults' \in Nat
    BY <1>9 DEF CompleteJob, Fault, TypeOK
  <2> QED
    BY <1>9, <2>1, <2>2 DEF CompleteJob, TypeOK
<1>10. CASE SaveCv(r)
  <2>1. saved' \subseteq Requests /\ faults' \in Nat
    BY <1>10 DEF SaveCv, Fault, TypeOK
  <2>2. "kept" \in Charge /\ End(r, "kept")
    BY <1>10 DEF SaveCv, Charge
  <2> QED
    BY <1>10, <2>1, <2>2, EndType DEF SaveCv, TypeOK
<1>11. ASSUME NEW k \in Sides, SideDone(r, k) PROVE TypeOK'
  <2>1. PICK v \in {base[r], None} : attempt' = [attempt EXCEPT !.side[k] = v]
    BY <1>11 DEF SideDone
  <2>2. v \in Version
    BY <2>1 DEF TypeOK, Version
  <2>3. attempt' \in Attempt
    BY <1>0, <2>1, <2>2, AttemptFields
  <2>4. todo' \in [Requests -> SUBSET Sides]
    BY <1>11 DEF SideDone, TypeOK
  <2> QED
    BY <1>11, <2>3, <2>4 DEF SideDone, TypeOK
<1> QED
  BY <1>1, <1>2, <1>3, <1>4, <1>5, <1>6, <1>7, <1>8, <1>9, <1>10, <1>11 DEF Pipeline

(* So do the steps that end a request, edit the CV or come from the user. *)
LEMMA FailingType ==
  ASSUME TypeOK, NEW r \in Requests, Failing(r) \/ Refund(r)
  PROVE  TypeOK'
<1> USE DEF records, review, regens, bounds
<1>1. CASE Reject(r)
  <2>1. CASE Fail(r)
    BY <2>1, FailType
  <2>2. CASE End(r, "rejected") /\ UNCHANGED <<attempt, credit, madeFor, records, review, regens, bounds>>
    <3>1. "rejected" \in Charge
      BY DEF Charge
    <3> QED
      BY <2>2, <3>1, EndType DEF TypeOK
  <2> QED
    BY <1>1, <2>1, <2>2 DEF Reject
<1>2. CASE GenerateFails(r) \/ LogFails(r) \/ Disconnect(r)
  BY <1>2, FailType DEF GenerateFails, LogFails, Disconnect
<1>3. CASE Crash(r)
  <2>1. "lost" \in Charge /\ faults' \in Nat
    BY <1>3 DEF Charge, Crash, Fault, TypeOK
  <2> QED
    BY <1>3, <2>1, EndType DEF Crash, TypeOK
<1>4. CASE Refund(r)
  <2>1. {"lost", "refunded"} \subseteq Charge /\ 1 \in Int
    BY DEF Charge
  <2>2. Added(credit, 1, "grant") \in CreditRow
    BY <2>1, AddedType DEF TypeOK
  <2>3. credit' \in CreditRow /\ faults' \in Nat
    BY <1>4, <2>2 DEF Refund, Fault, TypeOK
  <2> QED
    BY <1>4, <2>1, <2>3, EndType DEF Refund, TypeOK
<1>5. CASE Refuse(r)
  <2>1. "lost" \in Charge
    BY DEF Charge
  <2> QED
    BY <1>5, <2>1, EndType DEF Refuse, TypeOK
<1> QED
  BY <1>1, <1>2, <1>3, <1>4, <1>5 DEF Failing

LEMMA EnterType ==
  ASSUME TypeOK, NEW r \in Requests, Enter(r)
  PROVE  TypeOK'
<1> USE DEF records, review, regens, bounds
<1>1. {"start", "clear", "gate"} \subseteq Pc
  BY DEF Pc
<1>2. CASE OpenSocket(r) \/ PayRegenerate(r)
  BY <1>1, <1>2, PayType DEF OpenSocket, PayRegenerate
<1>3. CASE ReadCount(r)
  <2>1. pc' \in [Requests -> Pc]
    BY <1>1, <1>3, GotoEffect DEF ReadCount
  <2>2. attempt.regenerations \in Nat
    BY DEF TypeOK, Attempt
  <2>3. count' \in [Requests -> Nat]
    BY <1>3, <2>2 DEF ReadCount, TypeOK
  <2>4. overlapped' \subseteq Requests
    BY <1>3 DEF ReadCount, AtGate, TypeOK
  <2> QED
    BY <1>3, <2>1, <2>3, <2>4 DEF ReadCount, TypeOK
<1> QED
  BY <1>2, <1>3 DEF Enter

LEMMA EditType ==
  ASSUME TypeOK, DataInv, NEW r \in Requests, Edit(r)
  PROVE  TypeOK'
<1> USE DEF records, review, regens, bounds
<1>0. attempt \in Attempt /\ r \in Version
  BY DEF TypeOK, Version
<1>1. CASE ReadCv(r)
  <2>1. pc' \in [Requests -> Pc]
    BY <1>1, GotoEffect DEF ReadCv, Pc
  <2>2. attempt.cv \in Version
    BY <1>0 DEF Attempt
  <2>3. base' \in [Requests -> Version]
    BY <1>1, <2>2 DEF ReadCv, TypeOK
  <2> QED
    BY <1>1, <2>1, <2>3 DEF ReadCv, TypeOK
<1>2. CASE WriteCv(r)
  <2>1. [attempt EXCEPT !.cv = r] \in Attempt
    BY <1>0, AttemptFields, Zenon
  <2>2. base[r] \in Requests
    BY <1>2 DEF WriteCv, DataInv, HasData, TypeOK, Version
  <2>3. madeFor' \in [Requests -> Inputs \union {None}]
    BY <1>2, <2>2 DEF WriteCv, TypeOK
  <2>4. "kept" \in Charge
    BY DEF Charge
  <2> QED
    BY <1>2, <2>1, <2>3, <2>4, EndType DEF WriteCv, TypeOK
<1>3. CASE FixFails(r)
  <2>1. "lost" \in Charge
    BY DEF Charge
  <2> QED
    BY <1>3, <2>1, EndType DEF FixFails, TypeOK
<1> QED
  BY <1>1, <1>2, <1>3 DEF Edit, ApplyFixes, AddSkills

LEMMA UserType ==
  ASSUME GenerationAssumption, TypeOK, User
  PROVE  TypeOK'
<1> USE DEF work, records, review, regens, bounds
<1>0. attempt \in Attempt
  BY DEF TypeOK
<1>1. CASE ChangeInputs
  <2>1. PICK i \in Inputs : attempt' = [attempt EXCEPT !.input = i]
    BY <1>1 DEF ChangeInputs
  <2>2. attempt' \in Attempt
    BY <1>0, <2>1, AttemptFields
  <2>3. changes' \in Nat
    BY <1>1 DEF ChangeInputs, TypeOK
  <2> QED
    BY <1>1, <2>2, <2>3 DEF ChangeInputs, TypeOK
<1>2. attempt.cv # None => attempt.cv \in Requests
  BY <1>0 DEF Attempt, Version
<1>3. CASE ViewFinalReview
  BY <1>2, <1>3 DEF ViewFinalReview, TypeOK, Version
<1>4. CASE ConfirmReview
  <2>1. [attempt EXCEPT !.reviewed = TRUE] \in Attempt
    BY <1>0, AttemptFields
  <2>2. confirmed' \subseteq Requests
    BY <1>4 DEF ConfirmReview, TypeOK, Version
  <2> QED
    BY <1>4, <2>1, <2>2 DEF ConfirmReview, TypeOK
<1>5. CASE Download
  <2>1. HasLetter => attempt.side["cover_letter"] \in Requests
    BY <1>0 DEF HasLetter, Attempt, Version
  <2> QED
    BY <1>2, <1>5, <2>1 DEF Download, DownloadCv, DownloadLetter, DownloadAll, Fetch, TypeOK
<1> QED
  BY <1>1, <1>3, <1>4, <1>5 DEF User

LEMMA TypeStep == GenerationAssumption /\ TypeOK /\ DataInv /\ [Next]_vars => TypeOK'
<1> SUFFICES ASSUME GenerationAssumption, TypeOK, DataInv, [Next]_vars PROVE TypeOK'
  OBVIOUS
<1>1. ASSUME NEW r \in Requests,
             Enter(r) \/ Pipeline(r) \/ Failing(r) \/ Refund(r) \/ Edit(r)
      PROVE  TypeOK'
  BY <1>1, EnterType, PipelineType, FailingType, EditType
<1>2. CASE User
  BY <1>2, UserType
<1>3. CASE UNCHANGED vars
  BY <1>3 DEF vars, work, records, review, regens, bounds, TypeOK
<1> QED
  BY <1>1, <1>2, <1>3 DEF Next

(***************************************************************************)
(* The inductive invariant                                                 *)
(***************************************************************************)
Act(r) == Enter(r) \/ Pipeline(r) \/ Failing(r) \/ Refund(r) \/ Edit(r)

(* A step of one request moves no other request. *)
LEMMA Frame ==
  ASSUME TypeOK, NEW r \in Requests, Act(r), NEW q \in Requests \ {r}
  PROVE  /\ pc'[q] = pc[q] /\ charge'[q] = charge[q] /\ job'[q] = job[q]
         /\ q \in saved' <=> q \in saved
         /\ count'[q] = count[q] /\ base'[q] = base[q] /\ snap'[q] = snap[q]
<1> USE DEF TypeOK, work, records, review, regens, bounds, Goto
<1>1. CASE Enter(r)
  BY <1>1 DEF Enter, OpenSocket, ReadCount, PayRegenerate, Pay
<1>2. ASSUME NEW how, End(r, how)
      PROVE  /\ pc'[q] = pc[q] /\ charge'[q] = charge[q] /\ count'[q] = count[q]
             /\ base'[q] = base[q] /\ snap'[q] = snap[q]
  BY <1>2 DEF End
<1>3. ASSUME Fail(r)
      PROVE  /\ pc'[q] = pc[q] /\ charge'[q] = charge[q] /\ count'[q] = count[q]
             /\ base'[q] = base[q] /\ snap'[q] = snap[q]
  BY <1>2, <1>3 DEF Fail
<1>4. CASE Start(r) \/ Clear(r) \/ Keywords(r) \/ UseCached(r) \/ Generate(r) \/ Render(r)
  BY <1>4 DEF Start, Clear, Begin, Keywords, UseCached, Generate, Render
<1>5. CASE Polish(r) \/ CreateJob(r) \/ CompleteJob(r) \/ \E k \in Sides : SideDone(r, k)
  BY <1>5 DEF Polish, CreateJob, CompleteJob, SideDone
<1>6. CASE SaveCv(r)
  BY <1>2, <1>6 DEF SaveCv
<1>7. CASE Refuse(r) \/ Reject(r) \/ GenerateFails(r) \/ LogFails(r) \/ Disconnect(r)
  BY <1>2, <1>3, <1>7 DEF Refuse, Reject, GenerateFails, LogFails, Disconnect, Fail
<1>8. CASE Crash(r) \/ Refund(r)
  BY <1>2, <1>8 DEF Crash, Refund
<1>9. CASE Edit(r)
  BY <1>2, <1>9 DEF Edit, ReadCv, ApplyFixes, AddSkills, WriteCv, FixFails
<1> QED
  BY <1>1, <1>4, <1>5, <1>6, <1>7, <1>8, <1>9 DEF Act, Pipeline, Failing

(* What the invariant says of one request. *)
Fits(r) == HasData(r) /\ ChargeFits(r) /\ FiledFits(r) /\ CountFits(r) /\ IsFresh(r)

(* What a step of a request makes of its own part of the invariant: first  *)
(* the ways a request ends.                                                *)
LEMMA EndFits ==
  ASSUME TypeOK, NEW r \in Requests, Fits(r), NEW how \in {"kept", "lost", "refunded", "rejected"},
         End(r, how), job'[r] = "none" \/ how \in {"kept", "lost"},
         r \in saved' => how \in {"kept", "lost"},
         job'[r] # "none" \/ r \in saved' => pc[r] \in Running
  PROVE  Fits(r)'
<1>1. how \in Charge
  BY DEF Charge
<1>2. /\ pc'[r] = "done"
      /\ charge'[r] = IF charge[r] = "held" THEN how ELSE charge[r]
  BY <1>1, EndEffect
<1>3. HasData(r)' /\ CountFits(r)' /\ IsFresh(r)'
  BY <1>2 DEF HasData, CountFits, IsFresh
<1>4. ChargeFits(r)'
  BY <1>2 DEF Fits, ChargeFits, Asked, Running
<1>5. FiledFits(r)'
  BY <1>2 DEF Fits, FiledFits, ChargeFits, Unfiled, Running, Pc
<1> QED
  BY <1>3, <1>4, <1>5 DEF Fits

LEMMA FailFits ==
  ASSUME TypeOK, NEW r \in Requests, Fits(r), Fail(r), pc[r] \in Running \ {"complete", "save"}
  PROVE  Fits(r)'
<1> USE DEF records
<1>1. job[r] = "none" /\ r \notin saved
  BY DEF Fits, FiledFits, Unfiled, Running, Pc
<1>2. CASE charge[r] = "held"
  <2>1. pc'[r] = "refund" /\ charge' = charge /\ job' = job /\ saved' = saved
    BY <1>2, GotoEffect DEF Fail, Pc
  <2> QED
    BY <1>1, <1>2, <2>1
    DEF Fits, HasData, ChargeFits, FiledFits, CountFits, IsFresh, Asked, Running, Unfiled, Pc
<1>3. CASE charge[r] # "held"
  BY <1>1, <1>3, EndFits DEF Fail
<1> QED
  BY <1>2, <1>3

LEMMA EnterFits ==
  ASSUME TypeOK, NEW r \in Requests, Fits(r), Enter(r)
  PROVE  Fits(r)'
<1> USE DEF records
<1>1. ASSUME NEW step \in {"start", "clear"}, Pay(r, step), pc[r] \in {"new", "gate"},
             step = "start" => Kind[r] = "ws", step = "clear" => pc[r] = "gate"
      PROVE  Fits(r)'
  <2>1. /\ pc'[r] = step /\ charge'[r] \in {"free", "held"}
        /\ job' = job /\ saved' = saved /\ count' = count
    BY <1>1 DEF Pay, Goto, TypeOK
  <2> QED
    BY <1>1, <2>1
    DEF Fits, HasData, ChargeFits, FiledFits, CountFits, IsFresh, Asked, Running, Unfiled, Pc
<1>2. CASE OpenSocket(r)
  BY <1>1, <1>2 DEF OpenSocket
<1>3. CASE ReadCount(r)
  <2>1. /\ pc'[r] = "gate" /\ count'[r] < MaxRegenerations
        /\ charge' = charge /\ job' = job /\ saved' = saved
    BY <1>3 DEF ReadCount, Goto, TypeOK, WithinCap
  <2> QED
    BY <1>3, <2>1
    DEF ReadCount, Fits, HasData, ChargeFits, FiledFits, CountFits, IsFresh, Asked, Running,
        Unfiled, Pc
<1>4. CASE PayRegenerate(r)
  BY <1>1, <1>4 DEF PayRegenerate
<1> QED
  BY <1>2, <1>3, <1>4 DEF Enter

LEMMA EditFits ==
  ASSUME TypeOK, NEW r \in Requests, Fits(r), Edit(r)
  PROVE  Fits(r)'
<1> USE DEF records
<1>1. CASE ReadCv(r)
  <2>1. /\ pc'[r] = "edit" /\ base'[r] # None
        /\ charge' = charge /\ job' = job /\ saved' = saved
    BY <1>1 DEF ReadCv, Goto, TypeOK
  <2> QED
    BY <1>1, <2>1
    DEF ReadCv, Fits, HasData, ChargeFits, FiledFits, CountFits, IsFresh, Asked, Running,
        Unfiled, Pc
<1>2. CASE WriteCv(r) \/ FixFails(r)
  <2>1. job[r] = "none" /\ r \notin saved
    BY <1>2 DEF WriteCv, FixFails, Fits, FiledFits, Unfiled, Pc
  <2> QED
    BY <1>2, <2>1, EndFits DEF WriteCv, FixFails
<1> QED
  BY <1>1, <1>2 DEF Edit, ApplyFixes, AddSkills

LEMMA FailingFits ==
  ASSUME TypeOK, NEW r \in Requests, Fits(r), Failing(r) \/ Refund(r)
  PROVE  Fits(r)'
<1> USE DEF records
<1>1. CASE Reject(r)
  <2>1. pc[r] \in Running \ {"complete", "save"} /\ job[r] = "none" /\ r \notin saved
    BY <1>1 DEF Reject, Fits, FiledFits, Unfiled, Running, Pc
  <2> QED
    BY <1>1, <2>1, FailFits, EndFits DEF Reject
<1>2. CASE GenerateFails(r) \/ LogFails(r) \/ Disconnect(r)
  <2>1. pc[r] \in Running \ {"complete", "save"}
    BY <1>2 DEF GenerateFails, LogFails, Disconnect, ProgressPoints, Running
  <2> QED
    BY <1>2, <2>1, FailFits DEF GenerateFails, LogFails, Disconnect
<1>3. CASE Crash(r)
  <2>1. job[r] # "none" \/ r \in saved => pc[r] \in Running
    BY <1>3 DEF Crash, Fits, FiledFits, Unfiled, Running, TypeOK
  <2> QED
    BY <1>3, <2>1, EndFits DEF Crash
<1>4. CASE Refund(r)
  <2>1. job[r] = "none" /\ r \notin saved
    BY <1>4 DEF Refund, Fits, FiledFits, Unfiled, Pc
  <2> QED
    BY <1>4, <2>1, EndFits DEF Refund
<1>5. CASE Refuse(r)
  <2>1. job[r] = "none" /\ r \notin saved
    BY <1>5 DEF Refuse, Fits, FiledFits, Unfiled, Pc
  <2> QED
    BY <1>5, <2>1, EndFits DEF Refuse
<1> QED
  BY <1>1, <1>2, <1>3, <1>4, <1>5 DEF Failing

LEMMA PipelineFits ==
  ASSUME GenerationAssumption, TypeOK, NEW r \in Requests, Fits(r), Pipeline(r)
  PROVE  Fits(r)'
<1> USE DEF records
<1> DEFINE Unmoved == charge' = charge /\ job' = job /\ saved' = saved
           Open == {"keywords", "generate", "render", "polish"}
<1>1. ASSUME NEW step \in Running \ {"start", "clear"}, pc'[r] = step, Unmoved,
             pc[r] \in Running \ {"complete", "save"}, step \notin {"complete", "save"},
             step \in Open => snap'[r] \in Attempt, IsFresh(r)'
      PROVE  Fits(r)'
  BY <1>1
  DEF Fits, HasData, ChargeFits, FiledFits, CountFits, Asked, Running, Unfiled, Pc
<1>2. CASE Start(r) \/ Clear(r)
  <2>1. PICK a \in {attempt, Cleared(attempt, count[r])} :
          Begin(r, a) /\ (Kind[r] = "http" => a = Cleared(attempt, count[r]))
    <3>1. CASE Start(r)
      <4>1. Kind[r] # "http" /\ Begin(r, attempt)
        BY <3>1 DEF Start, Fits, IsFresh
      <4> QED
        BY <4>1
    <3>2. CASE Clear(r)
      <4>1. Begin(r, Cleared(attempt, count[r]))
        BY <3>2 DEF Clear
      <4> QED
        BY <4>1
    <3> QED
      BY <1>2, <3>1, <3>2
  <2>2. a \in Attempt
    <3>1. attempt \in Attempt /\ count[r] \in Nat
      BY DEF TypeOK
    <3>2. Cleared(attempt, count[r]) \in Attempt
      BY <3>1, AttemptFields
    <3> QED
      BY <3>1, <3>2
  <2>3. pc'[r] = "keywords" /\ snap'[r] = a /\ Unmoved
    BY <2>1 DEF Begin, Goto, TypeOK
  <2>4. Kind[r] = "http" => a.cv = None /\ a.side = NoSides
    BY <2>1 DEF Cleared, TypeOK, Attempt
  <2>5. IsFresh(r)'
    BY <2>3, <2>4 DEF IsFresh
  <2> QED
    BY <1>1, <1>2, <2>2, <2>3, <2>5 DEF Start, Clear, Running
<1>3. CASE Keywords(r) \/ Generate(r)
  <2>1. /\ pc'[r] \in {"generate", "render"} /\ snap' = snap /\ Unmoved
        /\ pc[r] \in {"keywords", "generate"}
    BY <1>3 DEF Keywords, Generate, Goto, TypeOK
  <2>2. IsFresh(r)' /\ snap'[r] \in Attempt
    BY <2>1 DEF Fits, HasData, IsFresh
  <2> QED
    BY <1>1, <2>1, <2>2 DEF Running
<1>4. CASE UseCached(r)
  <2>1. pc'[r] = "polish" /\ snap' = snap /\ Unmoved /\ Kind[r] # "http"
    BY <1>4 DEF UseCached, Goto, TypeOK, Fits, IsFresh
  <2>2. IsFresh(r)' /\ snap'[r] \in Attempt
    BY <1>4, <2>1 DEF UseCached, Fits, HasData, IsFresh
  <2> QED
    BY <1>1, <1>4, <2>1, <2>2 DEF UseCached, Running
<1>5. CASE Render(r)
  <2>1. pc'[r] = "polish" /\ base'[r] = r /\ snap' = snap /\ Unmoved
    BY <1>5 DEF Render, Goto, TypeOK
  <2>2. IsFresh(r)' /\ snap'[r] \in Attempt
    BY <1>5, <2>1 DEF Render, Fits, HasData, IsFresh
  <2> QED
    BY <1>1, <1>5, <2>1, <2>2 DEF Render, Running
<1>6. CASE Polish(r) \/ \E k \in Sides : SideDone(r, k)
  <2>1. pc'[r] = "sides" /\ Unmoved /\ pc[r] \in {"polish", "sides"}
    BY <1>6 DEF Polish, SideDone, Goto, TypeOK
  <2>2. IsFresh(r)'
    BY <2>1 DEF IsFresh
  <2> QED
    BY <1>1, <2>1, <2>2 DEF Running
<1>7. CASE CreateJob(r)
  <2>1. /\ pc[r] = "sides" /\ pc'[r] \in {"complete", "save"}
        /\ charge' = charge /\ saved' = saved
    BY <1>7 DEF CreateJob, Goto, TypeOK
  <2> QED
    BY <2>1
    DEF Fits, HasData, ChargeFits, FiledFits, CountFits, IsFresh, Asked, Running, Unfiled, Pc
<1>8. CASE CompleteJob(r)
  <2>1. pc[r] = "complete" /\ pc'[r] = "save" /\ charge' = charge /\ saved' = saved
    BY <1>8 DEF CompleteJob, Goto, TypeOK
  <2> QED
    BY <2>1
    DEF Fits, HasData, ChargeFits, FiledFits, CountFits, IsFresh, Asked, Running, Unfiled, Pc
<1>9. CASE SaveCv(r)
  BY <1>9, EndFits DEF SaveCv, Running
<1> QED
  BY <1>2, <1>3, <1>4, <1>5, <1>6, <1>7, <1>8, <1>9 DEF Pipeline

(* The steps of the user, and stuttering, leave the requests alone. *)
LEMMA IdleFits ==
  ASSUME NEW r \in Requests, Fits(r), UNCHANGED <<work, records, charge>>
  PROVE  Fits(r)'
BY DEF Fits, HasData, ChargeFits, FiledFits, CountFits, IsFresh, work, records

LEMMA FitsStep ==
  ASSUME GenerationAssumption, TypeOK, \A r \in Requests : Fits(r), [Next]_vars
  PROVE  \A r \in Requests : Fits(r)'
<1>1. ASSUME NEW r \in Requests, Act(r), NEW q \in Requests PROVE Fits(q)'
  <2>1. CASE q = r
    BY <1>1, <2>1, EnterFits, PipelineFits, FailingFits, EditFits DEF Act
  <2>2. CASE q # r
    BY <1>1, <2>2, Frame
    DEF Fits, HasData, ChargeFits, FiledFits, CountFits, IsFresh
  <2> QED
    BY <2>1, <2>2
<1>2. CASE User \/ UNCHANGED vars
  <2>1. UNCHANGED <<work, records, charge>>
    BY <1>2
    DEF User, ChangeInputs, ViewFinalReview, ConfirmReview, Download,
      DownloadCv, DownloadLetter, DownloadAll, Fetch, vars, work, records
  <2> QED
    BY <2>1, IdleFits
<1> QED
  BY <1>1, <1>2 DEF Next, Act

(* No request touches the flag of the final review or the history of the   *)
(* downloads, and only a regenerate writes the count.                      *)
LEMMA AttemptFrame ==
  ASSUME TypeOK, NEW r \in Requests, Act(r)
  PROVE  /\ attempt'.reviewed = attempt.reviewed /\ UNCHANGED review
         /\ ~Clear(r) => attempt'.regenerations = attempt.regenerations
<1> USE DEF review, regens, bounds
<1> DEFINE Same == attempt'.reviewed = attempt.reviewed /\ UNCHANGED review
                   /\ attempt'.regenerations = attempt.regenerations
<1>0. attempt \in Attempt
  BY DEF TypeOK
<1>1. CASE Enter(r)
  BY <1>1 DEF Enter, OpenSocket, ReadCount, PayRegenerate, Pay
<1>2. CASE Start(r) \/ Clear(r)
  BY <1>0, <1>2 DEF Start, Clear, Begin, Cleared, Attempt
<1>3. CASE Keywords(r) \/ UseCached(r)
  BY <1>0, <1>3 DEF Keywords, UseCached, Attempt
<1>4. CASE Generate(r) \/ Render(r) \/ Polish(r) \/ CreateJob(r) \/ CompleteJob(r)
  BY <1>0, <1>4 DEF Generate, Render, Polish, CreateJob, CompleteJob, Attempt
<1>5. ASSUME NEW k \in Sides, SideDone(r, k) PROVE Same
  <2>1. PICK v \in {base[r], None} : attempt' = [attempt EXCEPT !.side[k] = v]
    BY <1>5 DEF SideDone
  <2> QED
    BY <1>0, <1>5, <2>1 DEF SideDone, Attempt
<1>6. CASE SaveCv(r) \/ Failing(r) \/ Refund(r)
  BY <1>6 DEF SaveCv, Failing, Refuse, Reject, GenerateFails, LogFails, Disconnect, Crash, Refund, Fail
<1>7. CASE Edit(r)
  BY <1>0, <1>7 DEF Edit, ReadCv, ApplyFixes, AddSkills, WriteCv, FixFails, Attempt
<1> QED
  BY <1>1, <1>2, <1>3, <1>4, <1>5, <1>6, <1>7 DEF Act, Pipeline

(* The recorded count grows only by a regenerate that was below the cap. *)
LEMMA CountStep ==
  ASSUME GenerationAssumption, TypeOK, \A r \in Requests : Fits(r),
         attempt.regenerations <= MaxRegenerations, [Next]_vars
  PROVE  attempt'.regenerations <= MaxRegenerations
<1>1. ASSUME NEW r \in Requests, Clear(r)
      PROVE  attempt'.regenerations <= MaxRegenerations
  <2>1. count[r] \in Nat /\ count[r] < MaxRegenerations /\ attempt \in Attempt
    BY <1>1 DEF Clear, TypeOK, Fits, CountFits
  <2>2. attempt'.regenerations = count[r] + 1
    BY <1>1, <2>1 DEF Clear, Cleared, Attempt
  <2> QED
    BY <2>1, <2>2 DEF GenerationAssumption
<1>2. ASSUME NEW r \in Requests, Act(r), ~Clear(r)
      PROVE  attempt'.regenerations = attempt.regenerations
  BY <1>2, AttemptFrame
<1>3. CASE User \/ UNCHANGED vars
  BY <1>3
  DEF User, ChangeInputs, ViewFinalReview, ConfirmReview, Download,
      DownloadCv, DownloadLetter, DownloadAll, Fetch, vars, TypeOK, Attempt
<1> QED
  BY <1>1, <1>2, <1>3 DEF Next, Act

LEMMA ReviewStep ==
  ASSUME TypeOK, ReviewInv, [Next]_vars
  PROVE  ReviewInv'
<1> USE DEF review, regens, bounds
<1>1. ASSUME NEW r \in Requests, Act(r) PROVE ReviewInv'
  BY <1>1, AttemptFrame DEF ReviewInv
<1>2. CASE ConfirmReview
  BY <1>2 DEF ConfirmReview, ReviewInv
<1>3. CASE ChangeInputs \/ ViewFinalReview \/ Download \/ UNCHANGED vars
  BY <1>3 DEF ChangeInputs, ViewFinalReview, Download, DownloadCv, DownloadLetter,
      DownloadAll, Fetch, vars, ReviewInv, TypeOK, Attempt
<1> QED
  BY <1>1, <1>2, <1>3 DEF Next, Act, User

(***************************************************************************)
(* The regenerates that ran alone                                          *)
(***************************************************************************)
(* Only a regenerate moves the histories of the regenerates.               *)
LEMMA RegenFrame ==
  ASSUME TypeOK, NEW r \in Requests, Act(r), ~Clear(r), ~ReadCount(r)
  PROVE  /\ ran' = ran /\ overlapped' = overlapped /\ count' = count
         /\ AtGate' \subseteq AtGate
<1> USE DEF regens, Goto
<1>0. pc \in [Requests -> Pc]
  BY DEF TypeOK
<1>1. ASSUME NEW step \in Pc \ {"gate"}, pc' = [pc EXCEPT ![r] = step],
             step = "clear" => pc[r] = "gate"
      PROVE  AtGate' \subseteq AtGate
  BY <1>0, <1>1 DEF AtGate
<1>2. ASSUME NEW how, End(r, how) PROVE AtGate' \subseteq AtGate /\ count' = count
  BY <1>1, <1>2 DEF End, Pc
<1>3. ASSUME Fail(r)
      PROVE  /\ AtGate' \subseteq AtGate /\ count' = count
             /\ ran' = ran /\ overlapped' = overlapped
  BY <1>1, <1>2, <1>3 DEF Fail, Pc
<1>4. CASE OpenSocket(r) \/ PayRegenerate(r)
  BY <1>1, <1>4 DEF OpenSocket, PayRegenerate, Pay, Pc
<1>5. CASE Start(r) \/ Keywords(r) \/ UseCached(r) \/ Generate(r) \/ Render(r)
  BY <1>1, <1>5 DEF Start, Begin, Keywords, UseCached, Generate, Render, Pc
<1>6. CASE Polish(r) \/ CreateJob(r) \/ CompleteJob(r)
  BY <1>1, <1>6 DEF Polish, CreateJob, CompleteJob, Pc
<1>7. ASSUME NEW k \in Sides, SideDone(r, k)
      PROVE  /\ AtGate' \subseteq AtGate /\ count' = count
             /\ ran' = ran /\ overlapped' = overlapped
  BY <1>7 DEF SideDone, AtGate
<1>8. CASE SaveCv(r)
  BY <1>2, <1>8 DEF SaveCv
<1>9. CASE Failing(r) \/ Refund(r)
  BY <1>2, <1>3, <1>9 DEF Failing, Refuse, Reject, GenerateFails, LogFails, Disconnect, Crash,
                          Refund
<1>10. CASE Edit(r)
  BY <1>1, <1>2, <1>10 DEF Edit, ReadCv, ApplyFixes, AddSkills, WriteCv, FixFails, Pc
<1> QED
  BY <1>4, <1>5, <1>6, <1>7, <1>8, <1>9, <1>10 DEF Act, Enter, Pipeline

LEMMA AloneFinite ==
  ASSUME GenerationAssumption, TypeOK
  PROVE  /\ IsFiniteSet(Alone) /\ Cardinality(Alone) \in Nat
         /\ \A S : S \subseteq Alone => IsFiniteSet(S) /\ Cardinality(S) <= Cardinality(Alone)
         /\ \A r : /\ IsFiniteSet(Alone \union {r})
                   /\ Cardinality(Alone \union {r}) <= Cardinality(Alone) + 1
<1>1. IsFiniteSet(Alone)
  BY FS_Subset DEF GenerationAssumption, TypeOK, Alone
<1>2. Cardinality(Alone) \in Nat
  BY <1>1, FS_CardinalityType
<1> QED
  BY <1>1, <1>2, FS_Subset, FS_AddElement, FS_CardinalityType

(* A regenerate reads a count that covers what ran alone; one that writes  *)
(* it raises it by one, and if nobody else is at the gate only by itself.  *)
LEMMA AloneStep ==
  ASSUME GenerationAssumption, TypeOK, TypeOK', AloneInv, [Next]_vars
  PROVE  AloneInv'
<1>0. /\ attempt \in Attempt /\ attempt.regenerations \in Nat /\ count \in [Requests -> Nat]
      /\ pc \in [Requests -> Pc] /\ AtGate \subseteq Requests
      /\ Cardinality(Alone) \in Nat
  BY AloneFinite DEF TypeOK, Attempt, AtGate
<1>1. ASSUME NEW r \in Requests, ReadCount(r) PROVE AloneInv'
  <2>1. /\ attempt' = attempt /\ ran' = ran /\ AtGate' = AtGate \union {r}
        /\ count'[r] = attempt.regenerations
        /\ \A q \in Requests \ {r} : count'[q] = count[q]
    BY <1>0, <1>1 DEF ReadCount, Goto, AtGate
  <2>2. /\ overlapped \subseteq overlapped'
        /\ AtGate # {} => AtGate \union {r} \subseteq overlapped'
    BY <1>1 DEF ReadCount
  <2>3. Alone' \subseteq Alone
    BY <2>1, <2>2 DEF Alone
  <2>4. Cardinality(Alone') \in Nat /\ Cardinality(Alone') <= Cardinality(Alone)
    BY <2>3, AloneFinite, FS_CardinalityType
  <2>5. \A q \in AtGate' : Cardinality(Alone') <= count'[q]
    BY <1>0, <2>1, <2>4 DEF AloneInv, GateFits
  <2>6. \A p, q \in AtGate' : p # q => p \in overlapped'
    BY <2>1, <2>2
  <2> QED
    BY <1>0, <2>1, <2>4, <2>5, <2>6 DEF AloneInv, GateFits
<1>2. ASSUME NEW r \in Requests, Clear(r) PROVE AloneInv'
  <2>1. /\ attempt'.regenerations = count[r] + 1 /\ ran' = ran \union {r}
        /\ overlapped' = overlapped /\ count' = count /\ r \in AtGate
        /\ AtGate' \subseteq AtGate \ {r}
    BY <1>0, <1>2 DEF Clear, Begin, Cleared, Goto, AtGate, Attempt
  <2>2. Cardinality(Alone) <= count[r] /\ count[r] \in Nat
    BY <1>0, <2>1 DEF AloneInv, GateFits
  <2>3. CASE r \in overlapped
    <3>1. Alone' = Alone
      BY <2>1, <2>3 DEF Alone
    <3> QED
      BY <1>0, <2>1, <2>2, <3>1 DEF AloneInv, GateFits
  <2>4. CASE r \notin overlapped
    <3>1. Alone' = Alone \union {r}
      BY <2>1, <2>4 DEF Alone
    <3>2. Cardinality(Alone') \in Nat /\ Cardinality(Alone') <= Cardinality(Alone) + 1
      BY <3>1, AloneFinite, FS_CardinalityType
    <3>3. AtGate' = {}
      BY <2>1, <2>4 DEF AloneInv, GateFits
    <3> QED
      BY <1>0, <2>1, <2>2, <3>2, <3>3 DEF AloneInv, GateFits
  <2> QED
    BY <2>3, <2>4
<1>3. ASSUME ran' = ran, overlapped' = overlapped, count' = count, AtGate' \subseteq AtGate,
             attempt'.regenerations = attempt.regenerations
      PROVE  AloneInv'
  BY <1>3 DEF AloneInv, GateFits, Alone
<1>4. ASSUME NEW r \in Requests, Act(r), ~Clear(r), ~ReadCount(r) PROVE AloneInv'
  BY <1>3, <1>4, RegenFrame, AttemptFrame
<1>5. CASE User \/ UNCHANGED vars
  <2>1. /\ ran' = ran /\ overlapped' = overlapped /\ count' = count /\ pc' = pc
        /\ attempt'.regenerations = attempt.regenerations
    BY <1>0, <1>5
    DEF User, ChangeInputs, ViewFinalReview, ConfirmReview, Download, DownloadCv,
        DownloadLetter, DownloadAll, Fetch, vars, work, regens, Attempt
  <2> QED
    BY <1>3, <2>1 DEF AtGate
<1> QED
  BY <1>1, <1>2, <1>4, <1>5 DEF Next, Act

LEMMA Parts == IInv <=> /\ TypeOK /\ \A r \in Requests : Fits(r)
                        /\ attempt.regenerations <= MaxRegenerations /\ ReviewInv
                        /\ AloneInv
BY DEF IInv, DataInv, ChargeInv, FiledInv, CountInv, FreshInv, Fits

LEMMA InvInit == GenerationAssumption /\ Init => IInv
<1> SUFFICES ASSUME GenerationAssumption, Init PROVE IInv
  OBVIOUS
<1>1. TypeOK
  BY TypeInit
<1>2. \A r \in Requests : Fits(r)
  BY DEF Init, Fits, HasData, ChargeFits, FiledFits, CountFits, IsFresh, Asked, Running,
         Unfiled, Pc
<1>3. attempt.regenerations <= MaxRegenerations /\ ReviewInv
  BY DEF Init, GenerationAssumption, ReviewInv
<1>4. AloneInv
  <2>1. Alone = {} /\ Cardinality({}) = 0 /\ AtGate = {} /\ attempt.regenerations = 0
    BY FS_EmptySet DEF Init, Alone, AtGate
  <2> QED
    BY <2>1 DEF AloneInv, GateFits
<1> QED
  BY <1>1, <1>2, <1>3, <1>4, Parts

LEMMA InvStep == GenerationAssumption /\ IInv /\ [Next]_vars => IInv'
<1> SUFFICES ASSUME GenerationAssumption, IInv, [Next]_vars PROVE IInv'
  OBVIOUS
<1>1. /\ TypeOK /\ DataInv /\ \A r \in Requests : Fits(r)
      /\ attempt.regenerations <= MaxRegenerations /\ ReviewInv /\ AloneInv
  BY Parts DEF IInv
<1>2. TypeOK'
  BY <1>1, TypeStep
<1>3. \A r \in Requests : Fits(r)'
  BY <1>1, FitsStep
<1>4. attempt'.regenerations <= MaxRegenerations
  BY <1>1, CountStep
<1>5. ReviewInv'
  BY <1>1, ReviewStep
<1>6. AloneInv'
  BY <1>1, <1>2, AloneStep
<1> QED
  BY <1>2, <1>3, <1>4, <1>5, <1>6
  DEF IInv, DataInv, ChargeInv, FiledInv, CountInv, FreshInv, Fits

(***************************************************************************)
(* Theorems                                                                *)
(***************************************************************************)
(* The inductive invariant holds in every state: how far a request has     *)
(* come decides what may have become of its credit and of its records      *)
(* (cv.py, generate_cv.py).                                                *)
THEOREM InvariantHolds == Spec => []IInv
<1> USE GenerationAssumption
<1>1. Init => IInv
  BY InvInit
<1>2. IInv /\ [Next]_vars => IInv'
  BY InvStep
<1> QED
  BY <1>1, <1>2, PTL DEF Spec

(* Every variable keeps the type the code gives it. *)
THEOREM TypeCorrect == Spec => []TypeOK
<1>1. IInv => TypeOK
  BY DEF IInv
<1> QED
  BY <1>1, InvariantHolds, PTL

(* For any requests and any failures: no run that left a Job or a SavedCV  *)
(* gets its credit back (the except clauses of cv.py).                     *)
THEOREM NothingSavedRefunded == Spec => []NothingSavedIsRefunded
<1>1. IInv => NothingSavedIsRefunded
  BY DEF IInv, FiledInv, FiledFits, NothingSavedIsRefunded
<1> QED
  BY <1>1, InvariantHolds, PTL

(* For any cap and any requests: the regenerates that ran while no other   *)
(* was between its read and its write of regeneration_count are never more *)
(* than _MAX_REGENERATIONS (cv.py).                                        *)
THEOREM RunsStayWithinCap == Spec => []RegenerationsWithinCap
<1> USE GenerationAssumption
<1>1. IInv => RegenerationsWithinCap
  <2> SUFFICES ASSUME IInv PROVE RegenerationsWithinCap
    OBVIOUS
  <2>1. attempt.regenerations \in Nat /\ Cardinality(Alone) \in Nat
    BY AloneFinite DEF IInv, TypeOK, Attempt
  <2> QED
    BY <2>1 DEF IInv, CountInv, AloneInv, RegenerationsWithinCap, GenerationAssumption
<1> QED
  BY <1>1, InvariantHolds, PTL

(* No download endpoint serves the attempt before a first confirmation of  *)
(* the final review (cv.py).                                               *)
THEOREM DownloadAfterReview == Spec => []DownloadFollowsReview
<1>1. IInv => DownloadFollowsReview
  BY DEF IInv, ReviewInv, DownloadFollowsReview
<1> QED
  BY <1>1, InvariantHolds, PTL

(* A run of /analyze reuses neither a CV nor a result of the parallel      *)
(* block, whatever other requests wrote in between (cv.py, generate_cv.py).*)
THEOREM RegenerateStartsAfresh == Spec => RegenerateRunsEverything
<1>1. IInv /\ [Next]_vars =>
        [\A r \in Requests :
           Polish(r) /\ Kind[r] = "http" => base[r] = r /\ todo'[r] = Sides]_vars
  <2> SUFFICES ASSUME IInv, NEW r \in Requests, Polish(r), Kind[r] = "http"
               PROVE  base[r] = r /\ todo'[r] = Sides
    OBVIOUS
  <2>1. base[r] = r /\ snap[r].side = NoSides
    BY DEF IInv, FreshInv, IsFresh, Polish
  <2>2. todo'[r] = {k \in Sides : snap[r].side[k] = None}
    BY DEF Polish, IInv, TypeOK
  <2> QED
    BY <2>1, <2>2 DEF NoSides
<1> QED
  BY <1>1, InvariantHolds, PTL DEF Spec, RegenerateRunsEverything

(***************************************************************************)
(* The account's row: what a step does to charges and credits              *)
(***************************************************************************)
Settled(r, how) == charge[r] = "held" /\ charge' = [charge EXCEPT ![r] = how]

Moves(r) ==
  \/ UNCHANGED <<charge, credit>>
  \/ charge[r] = "none" /\ charge' = [charge EXCEPT ![r] = "free"] /\ UNCHANGED credit
  \/ /\ charge[r] = "none" /\ charge' = [charge EXCEPT ![r] = "held"]
     /\ HasCredits(credit) /\ credit' = Deducted(credit)
  \/ \E how \in {"kept", "rejected", "lost"} : Settled(r, how) /\ UNCHANGED credit
  \/ Settled(r, "refunded") /\ credit' = Added(credit, 1, "grant")

LEMMA EndMoves ==
  ASSUME TypeOK, NEW r \in Requests, NEW how, End(r, how)
  PROVE  Settled(r, how) \/ UNCHANGED charge
BY DEF TypeOK, End, Settled

LEMMA ActMoves ==
  ASSUME TypeOK, NEW r \in Requests, ChargeFits(r), Act(r)
  PROVE  Moves(r)
<1>1. CASE Enter(r)
  BY <1>1 DEF Enter, OpenSocket, ReadCount, PayRegenerate, Pay, ChargeFits, Asked, Moves
<1>2. CASE Start(r) \/ Clear(r) \/ Keywords(r) \/ UseCached(r) \/ Generate(r) \/ Render(r)
  BY <1>2 DEF Start, Clear, Begin, Keywords, UseCached, Generate, Render, Moves
<1>3. CASE Polish(r) \/ CreateJob(r) \/ CompleteJob(r) \/ \E k \in Sides : SideDone(r, k)
  BY <1>3 DEF Polish, CreateJob, CompleteJob, SideDone, Moves
<1>4. CASE SaveCv(r) \/ Crash(r)
  BY <1>4, EndMoves DEF SaveCv, Crash, Moves
<1>5. CASE Refuse(r) \/ Reject(r) \/ GenerateFails(r) \/ LogFails(r) \/ Disconnect(r)
  BY <1>5, EndMoves DEF Refuse, Reject, GenerateFails, LogFails, Disconnect, Fail, Moves
<1>6. CASE Refund(r)
  <2>1. charge[r] = "held"
    BY <1>6 DEF Refund, ChargeFits
  <2>2. \A how : End(r, how) => Settled(r, how)
    BY <2>1 DEF End, Settled, TypeOK
  <2> QED
    BY <1>6, <2>2 DEF Refund, Moves
<1>7. CASE Edit(r)
  BY <1>7, EndMoves DEF Edit, ReadCv, ApplyFixes, AddSkills, WriteCv, FixFails, Moves
<1> QED
  BY <1>1, <1>2, <1>3, <1>4, <1>5, <1>6, <1>7 DEF Act, Pipeline, Failing

(* A step of the system is a step of the promise, or none of its business. *)
LEMMA PromiseStep ==
  ASSUME TypeOK, ChargeInv, [Next]_vars
  PROVE  [Promise!Next]_(Promise!promised)
<1>1. ASSUME NEW r \in Requests, Act(r) PROVE [Promise!Next]_(Promise!promised)
  <2>1. Moves(r) /\ credit \in CreditRow
    BY <1>1, ActMoves DEF ChargeInv, TypeOK
  <2>2. /\ HasCredits(credit) <=> credit.balance > 0
        /\ Deducted(credit).balance = credit.balance - 1
        /\ Added(credit, 1, "grant").balance = credit.balance + 1
    BY <2>1, DeductedEffect, ReturnedEffect DEF HasCredits
  <2>3. CASE UNCHANGED <<charge, credit>>
    BY <2>3 DEF Promise!promised
  <2>4. CASE charge[r] = "none" /\ charge' = [charge EXCEPT ![r] = "free"] /\ UNCHANGED credit
    BY <2>4 DEF Promise!Next, Promise!LetIn
  <2>5. CASE /\ charge[r] = "none" /\ charge' = [charge EXCEPT ![r] = "held"]
             /\ HasCredits(credit) /\ credit' = Deducted(credit)
    BY <2>2, <2>5 DEF Promise!Next, Promise!Take
  <2>6. CASE \E how \in {"kept", "rejected", "lost"} : Settled(r, how) /\ UNCHANGED credit
    BY <2>6 DEF Promise!Next, Promise!Settle, Settled
  <2>7. CASE Settled(r, "refunded") /\ credit' = Added(credit, 1, "grant")
    BY <2>2, <2>7 DEF Promise!Next, Promise!Settle, Settled
  <2> QED
    BY <2>1, <2>3, <2>4, <2>5, <2>6, <2>7 DEF Moves
<1>2. CASE User \/ UNCHANGED vars
  BY <1>2
  DEF User, ChangeInputs, ViewFinalReview, ConfirmReview, Download,
      DownloadCv, DownloadLetter, DownloadAll, Fetch, vars, Promise!promised
<1> QED
  BY <1>1, <1>2 DEF Next, Act

(* The pipeline with its races and failures does to the owner's credits    *)
(* what GenerationPromise allows: one credit taken when a run starts, at   *)
(* most one given back (cv.py).                                            *)
THEOREM PromiseIsKept == Spec => ImplementsPromise
<1>1. Init => Promise!Init
  BY DEF Init, Promise!Init
<1>2. IInv /\ [Next]_vars => [Promise!Next]_(Promise!promised)
  BY PromiseStep DEF IInv
<1> QED
  BY <1>1, <1>2, InvariantHolds, PTL DEF Spec, ImplementsPromise, Promise!Spec

(* Counting: what a step adds to the charged and the refunded requests. *)
LEMMA Counting ==
  ASSUME GenerationAssumption
  PROVE  /\ Cardinality(Charged) \in Nat /\ Cardinality(With("refunded")) \in Nat
         /\ \A r \in Requests \ Charged : Cardinality(Charged \union {r}) = Cardinality(Charged) + 1
         /\ \A r \in Requests \ With("refunded") :
              Cardinality(With("refunded") \union {r}) = Cardinality(With("refunded")) + 1
<1>1. IsFiniteSet(Charged) /\ IsFiniteSet(With("refunded"))
  BY FS_Subset DEF GenerationAssumption, Charged, With
<1> QED
  BY <1>1, FS_CardinalityType, FS_AddElement

LEMMA AccountsStep ==
  ASSUME GenerationAssumption, TypeOK, ChargeInv, ChargesAccounted, [Next]_vars
  PROVE  ChargesAccounted'
<1>1. ASSUME NEW r \in Requests, Act(r) PROVE ChargesAccounted'
  <2>1. Moves(r) /\ credit \in CreditRow
    BY <1>1, ActMoves DEF ChargeInv, TypeOK
  <2>2. charge \in [Requests -> Charge]
    BY DEF TypeOK
  <2>3. CASE UNCHANGED <<charge, credit>>
    BY <2>3 DEF ChargesAccounted, Charged, With
  <2>4. CASE charge[r] = "none" /\ charge' = [charge EXCEPT ![r] = "free"] /\ UNCHANGED credit
    <3>1. Charged' = Charged /\ With("refunded")' = With("refunded")
      BY <2>2, <2>4 DEF Charged, With
    <3> QED
      BY <2>4, <3>1 DEF ChargesAccounted
  <2>5. CASE /\ charge[r] = "none" /\ charge' = [charge EXCEPT ![r] = "held"]
             /\ HasCredits(credit) /\ credit' = Deducted(credit)
    <3>1. /\ r \notin Charged /\ Charged' = Charged \union {r}
          /\ With("refunded")' = With("refunded")
      BY <2>2, <2>5 DEF Charged, With
    <3>2. /\ credit'.balance = credit.balance - 1 /\ credit'.used = credit.used + 1
          /\ credit'.granted = credit.granted
      BY <2>1, <2>5, DeductedEffect
    <3>3. Cardinality(Charged') = Cardinality(Charged) + 1
      BY <3>1, Counting
    <3> QED
      BY <3>1, <3>2, <3>3, Counting DEF ChargesAccounted, GenerationAssumption
  <2>6. CASE \E how \in {"kept", "rejected", "lost"} : Settled(r, how) /\ UNCHANGED credit
    <3>1. Charged' = Charged /\ With("refunded")' = With("refunded")
      BY <2>2, <2>6 DEF Charged, With, Settled
    <3> QED
      BY <2>6, <3>1 DEF ChargesAccounted
  <2>7. CASE Settled(r, "refunded") /\ credit' = Added(credit, 1, "grant")
    <3>1. /\ Charged' = Charged /\ r \notin With("refunded")
          /\ With("refunded")' = With("refunded") \union {r}
      BY <2>2, <2>7 DEF Charged, With, Settled
    <3>2. /\ credit'.balance = credit.balance + 1 /\ credit'.used = credit.used
          /\ credit'.granted = credit.granted + 1
      BY <2>1, <2>7, ReturnedEffect
    <3>3. Cardinality(With("refunded")') = Cardinality(With("refunded")) + 1
      BY <3>1, Counting
    <3> QED
      BY <3>1, <3>2, <3>3, Counting DEF ChargesAccounted, GenerationAssumption
  <2> QED
    BY <2>1, <2>3, <2>4, <2>5, <2>6, <2>7 DEF Moves
<1>2. CASE User \/ UNCHANGED vars
  BY <1>2
  DEF User, ChangeInputs, ViewFinalReview, ConfirmReview, Download,
      DownloadCv, DownloadLetter, DownloadAll, Fetch, vars, ChargesAccounted,
      Charged, With
<1> QED
  BY <1>1, <1>2 DEF Next, Act

(* For any number of overlapping runs and faults the account's row agrees  *)
(* with what became of each charge (deduct_credit, add_credits, cv.py).    *)
THEOREM AccountsBalance == Spec => []ChargesAccounted
<1> USE GenerationAssumption
<1>1. Init => ChargesAccounted
  <2> SUFFICES ASSUME Init PROVE ChargesAccounted
    OBVIOUS
  <2>1. Charged = {} /\ With("refunded") = {}
    BY DEF Init, Charged, With
  <2>2. Cardinality({}) = 0
    BY FS_EmptySet
  <2>3. credit.used = 0 /\ credit.granted = 0 /\ credit.balance = InitialCredits
    BY DEF Init, EmptyRow
  <2> QED
    BY <2>1, <2>2, <2>3 DEF ChargesAccounted, GenerationAssumption
<1>2. IInv /\ ChargesAccounted /\ [Next]_vars => ChargesAccounted'
  BY AccountsStep DEF IInv
<1> QED
  BY <1>1, <1>2, InvariantHolds, PTL DEF Spec
=============================================================================
