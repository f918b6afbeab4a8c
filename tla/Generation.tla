----------------------------- MODULE Generation -----------------------------
(***************************************************************************)
(* One attempt of one account: the credit gate, the generation pipeline,   *)
(* regenerate, apply-fixes, add-skills and the final-review gate           *)
(* (app/web/routes/cv.py, generate_cv.py, attempt_store.py).               *)
(*                                                                         *)
(* A request runs from one await to the next; between two of its steps any *)
(* other request may read and write the attempt file, which is read and    *)
(* rewritten as a whole but never locked.  A version of the CV is named    *)
(* after the request that made it.                                         *)
(***************************************************************************)
EXTENDS CreditLedger, FiniteSets

CONSTANTS
  Requests,         \* requests that work on the attempt, each runs once
  Kind,             \* ws: /ws/analyze, http: /analyze, fix: /apply-fixes, skills: /add-skills
  Guests,           \* the requests made without an account
  None,             \* no version, no input, no attempt
  Inputs,           \* what the wizard collects: job description, region, template
  FirstInput,       \* the inputs the wizard has collected so far
  InitialCredits,   \* credits of the account
  MaxRegenerations, \* _MAX_REGENERATIONS
  Sides,            \* the steps of the parallel block, named after the keys they fill
  MaxChanges,       \* bound: times the user goes back to the wizard
  MaxFaults         \* bound: workers that die and database calls that fail

ASSUME GenerationAssumption ==
  /\ Kind \in [Requests -> {"ws", "http", "fix", "skills"}]
  /\ IsFiniteSet(Requests) /\ Guests \subseteq Requests
  /\ None \notin Requests /\ None \notin Inputs /\ FirstInput \in Inputs
  \* the cover letter is written only while its feature flag is on
  /\ Sides \subseteq {"cover_letter", "quality_review", "missing_keyword_groups"}
  /\ "quality_review" \in Sides
  /\ InitialCredits \in Nat /\ MaxRegenerations \in Nat
  /\ MaxChanges \in Nat /\ MaxFaults \in Nat

Version == Requests \union {None}
Attempt == [input : Inputs, keywords : Inputs \union {None}, cv : Version,
            side : [Sides -> Version], regenerations : Nat, reviewed : BOOLEAN]

VARIABLES
  attempt,    \* attempt.json
  credit,     \* the account's row of the credits table
  pc,         \* what a request does next
  snap,       \* the attempt as a pipeline read it when it started
  count,      \* the regeneration count a regenerate read at its gate
  base,       \* the version a request works on
  todo,       \* steps of the parallel block that have not answered
  madeFor,    \* the inputs a version was generated for
  job,        \* status of the Job row of a request
  saved,      \* requests whose SavedCV row is committed
  charge,     \* what became of the credit of each request
  viewed,     \* the version the final-review page shows
  confirmed,  \* history: versions that were on show when the user confirmed
  downloaded, \* history: versions that were downloaded
  ran,        \* history: regenerates that ran
  overlapped, \* history: regenerates that were at their gate together with another
  changes,    \* wizard changes so far
  faults      \* faults so far

work == <<pc, snap, count, base, todo>>
records == <<job, saved>>
review == <<viewed, confirmed, downloaded>>
regens == <<ran, overlapped>>
bounds == <<changes, faults>>
vars == <<attempt, credit, work, madeFor, records, charge, review, regens, bounds>>

Pc == {"new", "gate", "clear", "start", "keywords", "generate", "render", "polish",
       "sides", "complete", "save", "refund", "edit", "done"}
Charge == {"none", "free", "held", "kept", "refunded", "rejected", "lost"}

TypeOK ==
  /\ attempt \in Attempt /\ credit \in CreditRow
  /\ pc \in [Requests -> Pc]
  /\ snap \in [Requests -> Attempt \union {None}]
  /\ count \in [Requests -> Nat]
  /\ base \in [Requests -> Version]
  /\ todo \in [Requests -> SUBSET Sides]
  /\ madeFor \in [Requests -> Inputs \union {None}]
  /\ job \in [Requests -> {"none", "draft", "complete"}]
  /\ saved \subseteq Requests
  /\ charge \in [Requests -> Charge]
  /\ viewed \in Version /\ confirmed \subseteq Requests /\ downloaded \subseteq Requests
  /\ ran \subseteq Requests /\ overlapped \subseteq Requests
  /\ changes \in Nat /\ faults \in Nat

NoSides == [k \in Sides |-> None]

Init ==
  /\ attempt = [input |-> FirstInput, keywords |-> None, cv |-> None, side |-> NoSides,
                regenerations |-> 0, reviewed |-> FALSE]
  /\ credit = [EmptyRow EXCEPT !.balance = InitialCredits, !.purchased = InitialCredits]
  /\ pc = [r \in Requests |-> "new"]
  /\ snap = [r \in Requests |-> None]
  /\ count = [r \in Requests |-> 0]
  /\ base = [r \in Requests |-> None]
  /\ todo = [r \in Requests |-> {}]
  /\ madeFor = [r \in Requests |-> None]
  /\ job = [r \in Requests |-> "none"] /\ saved = {}
  /\ charge = [r \in Requests |-> "none"]
  /\ viewed = None /\ confirmed = {} /\ downloaded = {}
  /\ ran = {} /\ overlapped = {}
  /\ changes = 0 /\ faults = 0

Goto(r, step) == pc' = [pc EXCEPT ![r] = step]
Fault == faults < MaxFaults /\ faults' = faults + 1

(***************************************************************************)
(* The credit gate                                                         *)
(***************************************************************************)
(* has_credits only answers early what deduct_credit decides: without a    *)
(* credit the request changes nothing.                                     *)
Pay(r, step) ==
  /\ Goto(r, step)
  /\ \/ /\ r \in Guests
        /\ charge' = [charge EXCEPT ![r] = "free"]
        /\ UNCHANGED credit
     \/ /\ r \notin Guests /\ HasCredits(credit)
        /\ credit' = Deducted(credit)
        /\ charge' = [charge EXCEPT ![r] = "held"]
  /\ UNCHANGED <<attempt, snap, count, base, todo, madeFor, records, review, regens, bounds>>

OpenSocket(r) == Kind[r] = "ws" /\ pc[r] = "new" /\ Pay(r, "start")

(* Mutant: the cap is compared the wrong way round the boundary. *)
WithinCapOrAt(n) == n <= MaxRegenerations

WithinCap(n) == n < MaxRegenerations

(* The regenerates that have read the count and not yet written it. *)
AtGate == {q \in Requests : pc[q] \in {"gate", "clear"}}

(* analyze reads the count first; the credit gate awaits the database. *)
ReadCount(r) ==
  /\ Kind[r] = "http" /\ pc[r] = "new" /\ WithinCap(attempt.regenerations)
  /\ count' = [count EXCEPT ![r] = attempt.regenerations]
  /\ overlapped' = IF AtGate = {} THEN overlapped ELSE overlapped \union AtGate \union {r}
  /\ Goto(r, "gate")
  /\ UNCHANGED <<attempt, credit, snap, base, todo, madeFor, records, charge, review, ran, bounds>>

PayRegenerate(r) == pc[r] = "gate" /\ Pay(r, "clear")

(***************************************************************************)
(* run_generation_pipeline                                                 *)
(***************************************************************************)
(* The pipeline reads the attempt once, when it starts. *)
Begin(r, a) ==
  /\ snap' = [snap EXCEPT ![r] = a]
  /\ Goto(r, "keywords")
  /\ UNCHANGED <<credit, count, base, todo, madeFor, records, charge, review, overlapped, bounds>>

Start(r) == pc[r] = "start" /\ Begin(r, attempt) /\ UNCHANGED <<attempt, ran>>

(* Mutant: the reset forgets two of the cached outputs. *)
ClearedKeepsReview(a, n) ==
  [a EXCEPT !.keywords = None, !.cv = None, !.regenerations = n + 1,
            !.side = [@ EXCEPT !["quality_review"] = a.side["quality_review"]]]

(* The update of analyze: the outputs go, the flag of the final review     *)
(* stays.                                                                  *)
Cleared(a, n) ==
  [a EXCEPT !.keywords = None, !.cv = None, !.side = NoSides, !.regenerations = n + 1]

(* No await between the update and the read of the pipeline. *)
Clear(r) ==
  /\ pc[r] = "clear"
  /\ attempt' = Cleared(attempt, count[r])
  /\ Begin(r, Cleared(attempt, count[r]))
  /\ ran' = ran \union {r}

(* A run that cannot give the credit back any more, or never took one. *)
End(r, how) ==
  /\ Goto(r, "done")
  /\ charge' = [charge EXCEPT ![r] = IF @ = "held" THEN how ELSE @]
  /\ snap' = [snap EXCEPT ![r] = None]
  /\ base' = [base EXCEPT ![r] = None]
  /\ todo' = [todo EXCEPT ![r] = {}]
  /\ UNCHANGED count

(* The pipeline raises: the request goes on in its except clause. *)
Fail(r) ==
  /\ IF charge[r] = "held"
       THEN Goto(r, "refund") /\ UNCHANGED <<snap, count, base, todo, charge>>
       ELSE End(r, "lost")
  /\ UNCHANGED <<attempt, credit, madeFor, records, review, regens, bounds>>

(* A regenerate without a credit ends here. *)
Refuse(r) ==
  /\ pc[r] = "gate" /\ r \notin Guests /\ ~HasCredits(credit)
  /\ End(r, "lost")
  /\ UNCHANGED <<attempt, credit, madeFor, records, review, regens, bounds>>

(* No CV file, or no text in it; or what the model answered cannot be      *)
(* restored.  The socket handler refunds whatever the pipeline raises;     *)
(* analyze keeps the credit for every ValueError that does not speak of a  *)
(* failed generation.                                                      *)
Reject(r) ==
  /\ pc[r] = "keywords" \/ (pc[r] = "generate" /\ snap[r].cv = None)
  /\ \/ Kind[r] = "ws" /\ Fail(r)
     \/ /\ Kind[r] = "http" /\ End(r, "rejected")
        /\ UNCHANGED <<attempt, credit, madeFor, records, review, regens, bounds>>

(* extract_keywords_llm gives None when it fails, and the run goes on. *)
Keywords(r) ==
  /\ pc[r] = "keywords"
  /\ \/ /\ snap[r].keywords = None
        /\ attempt' = [attempt EXCEPT !.keywords = snap[r].input]
     \/ UNCHANGED attempt
  /\ Goto(r, "generate")
  /\ UNCHANGED <<credit, snap, count, base, todo, madeFor, records, charge, review, regens, bounds>>

(* Cached: no call of the model.  If the references were changed since,    *)
(* the version read at the start is written back with them.                *)
UseCached(r) ==
  /\ pc[r] = "generate" /\ snap[r].cv # None
  /\ base' = [base EXCEPT ![r] = snap[r].cv]
  /\ attempt' \in {attempt, [attempt EXCEPT !.cv = snap[r].cv]}
  /\ Goto(r, "polish")
  /\ UNCHANGED <<credit, snap, count, todo, madeFor, records, charge, review, regens, bounds>>

Generate(r) ==
  /\ pc[r] = "generate" /\ snap[r].cv = None
  /\ madeFor' = [madeFor EXCEPT ![r] = snap[r].input]
  /\ Goto(r, "render")
  /\ UNCHANGED <<attempt, credit, snap, count, base, todo, records, charge, review, regens, bounds>>

(* generate_tailored_cv gives None ("CV generation failed"), or the        *)
(* template raises, also when a cached CV is rendered with new references. *)
GenerateFails(r) == pc[r] \in {"generate", "render"} /\ Fail(r)

(* cv_data and rendered_cv are persisted before the parallel block. *)
Render(r) ==
  /\ pc[r] = "render"
  /\ attempt' = [attempt EXCEPT !.cv = r]
  /\ base' = [base EXCEPT ![r] = r]
  /\ Goto(r, "polish")
  /\ UNCHANGED <<credit, snap, count, todo, madeFor, records, charge, review, regens, bounds>>

(* Only the steps whose result was not cached at the start are run. *)
Polish(r) ==
  /\ pc[r] = "polish"
  /\ todo' = [todo EXCEPT ![r] = {k \in Sides : snap[r].side[k] = None}]
  /\ Goto(r, "sides")
  /\ UNCHANGED <<attempt, credit, snap, count, base, madeFor, records, charge, review, regens, bounds>>

(* Each step writes its own key, an empty value when the model failed. *)
SideDone(r, k) ==
  /\ pc[r] = "sides" /\ k \in todo[r]
  /\ todo' = [todo EXCEPT ![r] = @ \ {k}]
  /\ \E v \in {base[r], None} : attempt' = [attempt EXCEPT !.side[k] = v]
  /\ UNCHANGED <<credit, pc, snap, count, base, madeFor, records, charge, review, regens, bounds>>

(* log_generation, or an update of the attempt, raises.                    *)
LogFails(r) == pc[r] = "sides" /\ todo[r] = {} /\ Fail(r)

(* Only an account has Job rows; create_job commits the draft.  What goes  *)
(* wrong here is logged, and the run goes on without a job.                *)
CreateJob(r) ==
  /\ pc[r] = "sides" /\ todo[r] = {}
  /\ \/ /\ r \notin Guests
        /\ job' = [job EXCEPT ![r] = "draft"] /\ Goto(r, "complete")
        /\ UNCHANGED faults
     \/ r \in Guests /\ Goto(r, "save") /\ UNCHANGED <<job, regens, faults>>
     \/ r \notin Guests /\ Fault /\ Goto(r, "save") /\ UNCHANGED job
  /\ UNCHANGED <<attempt, credit, snap, count, base, todo, madeFor, saved, charge, review, regens, changes>>

(* Mutant: the status is left out of the update. *)
CompleteJobKeepsDraft(r) ==
  /\ pc[r] = "complete"
  /\ Goto(r, "save")
  /\ UNCHANGED <<attempt, credit, snap, count, base, todo, madeFor, records, charge, review, regens, bounds>>

(* update_job is a second commit. *)
CompleteJob(r) ==
  /\ pc[r] = "complete"
  /\ \/ job' = [job EXCEPT ![r] = "complete"] /\ UNCHANGED faults
     \/ Fault /\ UNCHANGED job
  /\ Goto(r, "save")
  /\ UNCHANGED <<attempt, credit, snap, count, base, todo, madeFor, saved, charge, review, regens, changes>>

(* save_cv, then the result goes out; a client that is gone by now gets no *)
(* refund.                                                                 *)
SaveCv(r) ==
  /\ pc[r] = "save"
  /\ \/ saved' = saved \union {r} /\ UNCHANGED faults
     \/ Fault /\ UNCHANGED saved
  /\ End(r, "kept")
  /\ UNCHANGED <<attempt, credit, madeFor, job, review, regens, changes>>

(* Mutant: one more progress message, after the job is saved. *)
ProgressPointsLate == {"keywords", "generate", "render", "polish", "save"}

(* The steps that begin with a progress message over the socket. *)
ProgressPoints == {"keywords", "generate", "render", "polish"}

(* A closed socket is noticed when the next message is sent. *)
Disconnect(r) == Kind[r] = "ws" /\ pc[r] \in ProgressPoints /\ Fail(r)

(* Mutant: the refund goes through the gate of a deduction. *)
RefundNeedsCredit(r) ==
  /\ pc[r] = "refund" /\ HasCredits(credit)
  /\ credit' = Added(credit, 1, "grant")
  /\ End(r, "refunded")
  /\ UNCHANGED <<attempt, madeFor, records, review, regens, bounds>>

(* Mutant: the handler tries again after a refund that went through. *)
RefundAgain(r) ==
  /\ pc[r] = "refund"
  /\ credit' = Added(credit, 1, "grant")
  /\ charge' = [charge EXCEPT ![r] = "refunded"]
  /\ UNCHANGED <<attempt, work, madeFor, records, review, regens, bounds>>

(* add_credits(1, as_grant=True); if that fails too, it is only logged. *)
Refund(r) ==
  /\ pc[r] = "refund"
  /\ \/ credit' = Added(credit, 1, "grant") /\ End(r, "refunded") /\ UNCHANGED faults
     \/ Fault /\ End(r, "lost") /\ UNCHANGED credit
  /\ UNCHANGED <<attempt, madeFor, records, review, regens, changes>>

(* The worker dies, or the task is cancelled: no except clause runs. *)
Crash(r) ==
  /\ pc[r] \notin {"new", "done"} /\ Fault
  /\ End(r, "lost")
  /\ UNCHANGED <<attempt, credit, madeFor, records, review, regens, changes>>

(***************************************************************************)
(* apply_fixes and add_skills                                              *)
(***************************************************************************)
(* The CV is read before an await: the form, and for apply-fixes the       *)
(* model.  Fixes are chosen from the flags of the quality review.          *)
ReadCv(r) ==
  /\ pc[r] = "new" /\ attempt.cv # None
  /\ \/ Kind[r] = "skills"
     \/ Kind[r] = "fix" /\ attempt.side["quality_review"] # None
  /\ base' = [base EXCEPT ![r] = attempt.cv]
  /\ Goto(r, "edit")
  /\ UNCHANGED <<attempt, credit, snap, count, todo, madeFor, records, charge, review, regens, bounds>>

(* The whole document is written from what was read. *)
WriteCv(r) ==
  /\ pc[r] = "edit"
  /\ attempt' = [attempt EXCEPT !.cv = r]
  /\ madeFor' = [madeFor EXCEPT ![r] = madeFor[base[r]]]
  /\ End(r, "kept")
  /\ UNCHANGED <<credit, records, review, regens, bounds>>

ApplyFixes(r) == Kind[r] = "fix" /\ WriteCv(r)

(* The keywords go into the flat list and the groups; no model is asked. *)
AddSkills(r) == Kind[r] = "skills" /\ WriteCv(r)

(* apply_review_fixes gives None. *)
FixFails(r) ==
  /\ pc[r] = "edit" /\ Kind[r] = "fix"
  /\ End(r, "lost")
  /\ UNCHANGED <<attempt, credit, madeFor, records, review, regens, bounds>>

(***************************************************************************)
(* The user: wizard, final review, download                                *)
(***************************************************************************)
(* The saves of the wizard's steps write the inputs and nothing else. *)
ChangeInputs ==
  /\ changes < MaxChanges /\ changes' = changes + 1
  /\ \E i \in Inputs \ {attempt.input} : attempt' = [attempt EXCEPT !.input = i]
  /\ UNCHANGED <<credit, work, madeFor, records, charge, review, regens, faults>>

ViewFinalReview ==
  /\ attempt.cv # None
  /\ viewed' = attempt.cv
  /\ UNCHANGED <<attempt, credit, work, madeFor, records, charge, confirmed, downloaded, regens, bounds>>

ConfirmReview ==
  /\ viewed # None /\ attempt.cv # None
  /\ attempt' = [attempt EXCEPT !.reviewed = TRUE]
  /\ confirmed' = confirmed \union {viewed}
  /\ UNCHANGED <<credit, work, madeFor, records, charge, viewed, downloaded, regens, bounds>>

(* Mutant: the gate is missing. *)
FetchUngated(versions) ==
  /\ downloaded' = downloaded \union versions
  /\ UNCHANGED <<attempt, credit, work, madeFor, records, charge, viewed, confirmed, regens, bounds>>

(* The gate every download of cv.py passes.  A letter counts as the        *)
(* version of the CV it was written from.                                  *)
Fetch(versions) ==
  /\ attempt.reviewed
  /\ downloaded' = downloaded \union versions
  /\ UNCHANGED <<attempt, credit, work, madeFor, records, charge, viewed, confirmed, regens, bounds>>

HasLetter == "cover_letter" \in Sides /\ attempt.side["cover_letter"] # None

DownloadCv == attempt.cv # None /\ Fetch({attempt.cv})
DownloadLetter == HasLetter /\ Fetch({attempt.side["cover_letter"]})
DownloadAll ==
  attempt.cv # None /\ HasLetter /\ Fetch({attempt.cv, attempt.side["cover_letter"]})

(***************************************************************************)
(* Specification                                                           *)
(***************************************************************************)
Pipeline(r) ==
  \/ Start(r) \/ Clear(r) \/ Keywords(r) \/ UseCached(r) \/ Generate(r) \/ Render(r)
  \/ Polish(r) \/ CreateJob(r) \/ CompleteJob(r) \/ SaveCv(r)
  \/ \E k \in Sides : SideDone(r, k)

Failing(r) ==
  Refuse(r) \/ Reject(r) \/ GenerateFails(r) \/ LogFails(r) \/ Disconnect(r) \/ Crash(r)

Enter(r) == OpenSocket(r) \/ ReadCount(r) \/ PayRegenerate(r)
Edit(r) == ReadCv(r) \/ ApplyFixes(r) \/ AddSkills(r) \/ FixFails(r)
Download == DownloadCv \/ DownloadLetter \/ DownloadAll
User == ChangeInputs \/ ViewFinalReview \/ ConfirmReview \/ Download

Next ==
  \/ \E r \in Requests : Enter(r) \/ Pipeline(r) \/ Failing(r) \/ Refund(r) \/ Edit(r)
  \/ User

Spec == Init /\ [][Next]_vars

(* A pipeline that has started runs on: every model call is answered or    *)
(* times out, and both ends of it are steps.                               *)
Fairness == \A r \in Requests : WF_vars(Pipeline(r)) /\ WF_vars(Refund(r))

FairSpec == Spec /\ Fairness

(***************************************************************************)
(* Properties                                                              *)
(***************************************************************************)
With(how) == {r \in Requests : charge[r] = how}
Charged == Requests \ (With("none") \union With("free"))

(* The account's row agrees with what became of each charge: one credit    *)
(* used for each, one granted back for each refund (cv.py).                *)
ChargesAccounted ==
  /\ credit.used = Cardinality(Charged)
  /\ credit.granted = Cardinality(With("refunded"))
  /\ credit.balance = InitialCredits - Cardinality(Charged) + Cardinality(With("refunded"))

(* What is saved has been charged for: no run that left a Job or a SavedCV *)
(* gets its credit back, whatever fails later.                             *)
NothingSavedIsRefunded ==
  \A r \in Requests :
    r \in saved \/ job[r] # "none" => charge[r] \notin {"none", "refunded", "rejected"}

(* Regenerate re-runs everything: no run of /analyze reuses a CV or a      *)
(* result of the parallel block (cv.py: "Always clear cached LLM outputs   *)
(* so the pipeline re-runs from scratch").                                 *)
RegenerateRunsEverything ==
  [][\A r \in Requests :
       Polish(r) /\ Kind[r] = "http" => base[r] = r /\ todo'[r] = Sides]_vars

(* "Maximum number of times the user may re-run the full generation        *)
(* pipeline" (cv.py), counted by what ran and not by the recorded count:   *)
(* the regenerates that ran without another being between its read and its *)
(* write of the count are never more than the cap, however edits, other    *)
(* runs and overlapping regenerates write the attempt before and after.    *)
Alone == ran \ overlapped
RegenerationsWithinCap == Cardinality(Alone) <= MaxRegenerations

(* Nothing is downloaded from the attempt before its owner has confirmed a *)
(* final review (the gate of the download endpoints).                      *)
DownloadFollowsReview == downloaded # {} => confirmed # {}

(* Every credit a run took ends up kept, given back or rejected. *)
ChargeIsSettled == \A r \in Requests : charge[r] = "held" ~> charge[r] # "held"

(* A Job row does not stay a draft. *)
DraftIsCompleted == \A r \in Requests : job[r] = "draft" ~> job[r] = "complete"

(***************************************************************************)
(* An inductive invariant: how far a request is decides what may have      *)
(* become of its credit and its records.                                   *)
(***************************************************************************)
Asked == {"new", "gate"}
Running == {"clear", "start", "keywords", "generate", "render", "polish", "sides",
            "complete", "save"}
Unfiled == Pc \ {"complete", "save", "done"}

(* A request has taken a credit, or was let in, exactly while it runs. *)
ChargeFits(r) ==
  /\ pc[r] \in Asked \union {"edit"} => charge[r] = "none"
  /\ pc[r] \in Running => charge[r] \in {"free", "held"}
  /\ pc[r] = "refund" => charge[r] = "held"
  /\ pc[r] = "done" => charge[r] # "held"

(* Rows are written after the last step that can lead to a refund. *)
FiledFits(r) ==
  /\ pc[r] \in Unfiled => job[r] = "none"
  /\ pc[r] # "done" => r \notin saved
  /\ r \in saved \/ job[r] # "none" => charge[r] \in {"free", "held", "kept", "lost"}

(* The count a regenerate carries over its awaits was below the cap. *)
CountFits(r) == pc[r] \in {"gate", "clear"} => count[r] < MaxRegenerations

(* A pipeline has read the attempt, and an edit works on a version. *)
HasData(r) ==
  /\ pc[r] \in {"keywords", "generate", "render", "polish"} => snap[r] \in Attempt
  /\ pc[r] = "edit" => base[r] # None

(* What a regenerate read at its start was empty. *)
IsFresh(r) ==
  Kind[r] = "http" =>
    /\ pc[r] # "start"
    /\ pc[r] \in {"keywords", "generate", "render", "polish"} =>
         snap[r].cv = None /\ snap[r].side = NoSides
    /\ pc[r] = "polish" => base[r] = r

(* A regenerate at its gate read a count that covers all that ran alone,   *)
(* and two there at once know of each other.                               *)
GateFits(r) ==
  r \in AtGate =>
    /\ Cardinality(Alone) <= count[r]
    /\ \A q \in AtGate \ {r} : r \in overlapped

DataInv == \A r \in Requests : HasData(r)
ChargeInv == \A r \in Requests : ChargeFits(r)
FiledInv == \A r \in Requests : FiledFits(r)
CountInv == attempt.regenerations <= MaxRegenerations /\ \A r \in Requests : CountFits(r)
FreshInv == \A r \in Requests : IsFresh(r)
AloneInv == Cardinality(Alone) <= attempt.regenerations /\ \A r \in Requests : GateFits(r)

ReviewInv == attempt.reviewed \/ downloaded # {} => confirmed # {}

IInv == TypeOK /\ DataInv /\ ChargeInv /\ FiledInv /\ CountInv /\ FreshInv /\ ReviewInv
        /\ AloneInv

(***************************************************************************)
(* The promise to the owner of the credits.                                *)
(***************************************************************************)
Promise == INSTANCE GenerationPromise WITH balance <- credit.balance

ImplementsPromise == Promise!Spec
=============================================================================
