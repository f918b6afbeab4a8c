------------------------------- MODULE Wizard -------------------------------
(***************************************************************************)
(* The six steps that collect what a generation needs                      *)
(* (app/web/routes/wizard.py), for one browser session with several tabs.  *)
(*                                                                         *)
(* Every step saves to the attempt the session names, whatever attempt the *)
(* page was rendered for, and any step's page can be opened by its URL.    *)
(* The details of step 2 are accepted in three writes: the consents, the   *)
(* attempt, the vault.  Left out: which step the shell opens, which        *)
(* country step 1 proposes, and the CV of the session's previous attempt   *)
(* that a guest may start from.                                            *)
(***************************************************************************)
EXTENDS Naturals, Sequences, FiniteSets

CONSTANTS
  Tabs,
  Regions,             \* codes of REGIONS
  PhotoRegions,        \* whose include_photo is not "no"
  DobRegions,          \* with include_dob
  Default,             \* the region of an attempt that has none, "AU"
  Fields,              \* of step 3: self_description, values, offer_appeal
  Shared,              \* those that the vault keeps as well, for the next wizard
  Voices,              \* what a user writes into one
  None,
  Own,                 \* in history: a field is the user's own, not a seed
  Vaults,              \* what a vault may hold when its owner logs in
  MaxAttempts, MaxRows, MaxSubmits, MaxCrashes   \* bounds

(* The full name; the e-mail and the phone; what only some regions ask     *)
(* for, the date of birth, which no form of the wizard asks.               *)
Details == {"name", "contact", "dob"}

(* What the user, or the saved CV, says in each field; what of an attempt  *)
(* still is as a saved CV seeded it.                                       *)
Spoken == [Fields -> Voices \cup {None}]
Seeds == [Fields -> Voices \cup {None, Own}]
Silent == [f \in Fields |-> None]
Unseeded == [f \in Fields |-> Own]

ASSUME WizardAssumption ==
  /\ Default \in Regions /\ PhotoRegions \subseteq Regions /\ DobRegions \subseteq Regions
  /\ Shared \subseteq Fields
  /\ None \notin Voices \cup Regions /\ Own \notin Voices \cup {None}
  /\ Vaults \subseteq [filled : SUBSET Details, voice : [Shared -> Voices \cup {None}]]
  /\ MaxAttempts \in Nat /\ MaxSubmits \in Nat /\ MaxCrashes \in Nat

VARIABLES
  session,    \* attempt_id, and whether somebody is logged in
  vault,      \* what the vault has: details, and the shared part of the voice
  consents,   \* consent_records of the user; "age" also stamps the user row
  attempts,   \* the attempt store, by id
  page,       \* the step each tab shows
  task,       \* the step-2 request each tab has in flight
  rows,       \* saved_cvs, by id; one is from an earlier visit
  submits, crashes

vars == <<session, vault, consents, attempts, page, task, rows, submits, crashes>>

Consents == {"age", "photo", "dob"}

Attempts == [region : Regions, accepted : Regions \cup {None},
             voice : Spoken, document : BOOLEAN, filled : SUBSET Details,
             seed : Seeds]             \* history: the voice it was seeded with
Idle == [pc |-> "idle", attempt |-> 0, region |-> None, boxes |-> {}, filled |-> {}]
Blank == [step |-> 0, attempt |-> 0, region |-> None, voice |-> Silent, ready |-> FALSE]

TypeOK ==
  /\ session \in [attempt : 0 .. Len(attempts), user : BOOLEAN]
  /\ vault \in [filled : SUBSET Details, voice : [Shared -> Voices \cup {None}]]
  /\ consents \subseteq Consents
  /\ attempts \in Seq(Attempts) /\ Len(attempts) <= MaxAttempts
  /\ page \in [Tabs -> [step : 0 .. 6, attempt : 0 .. Len(attempts),
                        region : Regions \cup {None}, voice : Spoken, ready : BOOLEAN]]
  /\ task \in [Tabs -> [pc : {"idle", "consent", "store", "vault"}, attempt : 0 .. Len(attempts),
                        region : Regions \cup {None}, boxes : SUBSET Consents,
                        filled : SUBSET Details]]
  /\ rows \in Seq([region : Regions, voice : Spoken, seed : Seeds])
  /\ submits \in 0 .. MaxSubmits /\ crashes \in 0 .. MaxCrashes

NewAttempt == [region |-> Default, accepted |-> None, voice |-> Silent,
               document |-> FALSE, filled |-> {}, seed |-> Unseeded]
NoVault == [filled |-> {}, voice |-> [f \in Shared |-> None]]

Init ==
  /\ session = [attempt |-> 0, user |-> FALSE]
  /\ vault = NoVault
  /\ consents = {}
  /\ attempts = <<>>
  /\ \E v \in Spoken :
       rows = <<[region |-> Default, voice |-> v, seed |-> Unseeded]>>
  /\ page = [t \in Tabs |-> Blank]
  /\ task = [t \in Tabs |-> Idle]
  /\ submits = 0 /\ crashes = 0

-----------------------------------------------------------------------------
(* _get_or_create_attempt *)
Current == IF session.attempt = 0 THEN Len(attempts) + 1 ELSE session.attempt
Loaded == IF session.attempt = 0 THEN NewAttempt ELSE attempts[session.attempt]
GetOrCreate(changed) ==
  /\ Current <= MaxAttempts
  /\ session' = [session EXCEPT !.attempt = Current]
  /\ attempts' = IF session.attempt = 0 THEN Append(attempts, changed)
                 ELSE [attempts EXCEPT ![session.attempt] = changed]

(* What the session's pii has: the vault, for somebody who is logged in. *)
Pii == IF session.user THEN vault ELSE NoVault

(* step3: each field is the attempt's or else, if it is shared, the        *)
(* vault's.                                                                *)
Step3VoiceOfVault(a) ==
  [f \in Fields |-> IF f \in Shared /\ Pii.voice[f] # None THEN Pii.voice[f] ELSE a.voice[f]]
Step3Voice(a) ==
  [f \in Fields |-> IF a.voice[f] = None /\ f \in Shared THEN Pii.voice[f] ELSE a.voice[f]]

(* _check_pii_completeness: the attempt or the vault has what is asked.    *)
Asked(region) == {"name", "contact"} \cup (IF region \in DobRegions THEN {"dob"} ELSE {})
Complete(a) == Asked(a.region) \subseteq a.filled \cup Pii.filled

Render(step, a) ==
  [step |-> step, attempt |-> IF step = 3 THEN Current ELSE 0,
   region |-> IF step = 2 THEN a.region ELSE None,
   voice |-> IF step = 3 THEN Step3Voice(a) ELSE Silent,
   ready |-> (step = 6 /\ Complete(a))]

-----------------------------------------------------------------------------
(* GET /wizard and /wizard/step/n *)
Open(t, step) ==
  /\ page[t].step # step /\ task[t].pc = "idle"
  /\ GetOrCreate(Loaded)
  /\ page' = [page EXCEPT ![t] = Render(step, Loaded)]
  /\ UNCHANGED <<vault, consents, task, rows, submits, crashes>>

(* wizard_new and _seed_from_saved_cv; the CV has to be the user's.  A     *)
(* field that is empty in the CV is left as it is in a new attempt: empty. *)
New(t, from) ==
  /\ Len(attempts) < MaxAttempts /\ task[t].pc = "idle"
  /\ from # 0 => session.user
  /\ session' = [session EXCEPT !.attempt = Len(attempts) + 1]
  /\ LET a == IF from = 0 THEN NewAttempt
              ELSE [NewAttempt EXCEPT !.region = rows[from].region,
                                      !.voice = rows[from].voice, !.seed = rows[from].voice]
     IN /\ attempts' = Append(attempts, a)
        /\ page' = [page EXCEPT ![t] = [Blank EXCEPT !.step = 1]]
  /\ UNCHANGED <<vault, consents, task, rows, submits, crashes>>

(* A form of the given step is sent. *)
Submit(t, step) ==
  /\ page[t].step = step /\ task[t].pc = "idle"
  /\ submits < MaxSubmits
  /\ submits' = submits + 1
  /\ UNCHANGED crashes

(* step1_save *)
SaveStep1(t, region) ==
  LET a == [Loaded EXCEPT !.region = region]
  IN /\ Submit(t, 1)
     /\ GetOrCreate(a)
     /\ page' = [page EXCEPT ![t] = Render(2, a)]
     /\ UNCHANGED <<vault, consents, task, rows>>

(* step2_save up to its first commit.  The page has a box for each consent *)
(* that the region it was rendered for asks for; the attempt's region, and *)
(* with it what is required, may be another one by now.  The age gate is   *)
(* passed, the name is given and the referees are valid; the e-mail and    *)
(* the phone may be left out.  An error renders the page once more.        *)
Required(region) ==
  (IF region \in PhotoRegions THEN {"photo"} ELSE {}) \cup
  (IF region \in DobRegions THEN {"dob"} ELSE {})
SaveStep2(t, filled) ==
  /\ "name" \in filled
  /\ Submit(t, 2)
  /\ Required(Loaded.region) \subseteq Required(page[t].region)
  /\ GetOrCreate(Loaded)
  /\ task' = [task EXCEPT ![t] = [pc |-> IF session.user THEN "consent" ELSE "store",
                                  attempt |-> Current, region |-> Loaded.region,
                                  boxes |-> {"age"} \cup Required(page[t].region),
                                  filled |-> filled]]
  /\ UNCHANGED <<vault, consents, page, rows>>
RecordConsents(t) ==
  /\ task[t].pc = "consent"
  /\ consents' = consents \cup task[t].boxes
  /\ task' = [task EXCEPT ![t].pc = "store"]
  /\ UNCHANGED <<session, vault, attempts, page, rows, submits, crashes>>

(* update_attempt comes after the consents; then the vault. *)
Accept(t) ==
  LET a == attempts[task[t].attempt]
  IN attempts' = [attempts EXCEPT ![task[t].attempt] =
                   [a EXCEPT !.filled = task[t].filled,
                             !.accepted = IF session.user THEN task[t].region ELSE a.accepted]]
StoreWithoutWaiting(t) ==
  /\ task[t].pc \in {"consent", "store"}
  /\ Accept(t)
  /\ task' = [task EXCEPT ![t] = IF session.user THEN [@ EXCEPT !.pc = "vault"] ELSE Idle]
  /\ page' = IF session.user THEN page
             ELSE [page EXCEPT ![t] = Render(3, attempts'[session.attempt])]
  /\ UNCHANGED <<session, vault, consents, rows, submits, crashes>>
StoreDetails(t) ==
  /\ task[t].pc = "store"
  /\ Accept(t)
  /\ task' = [task EXCEPT ![t] = IF session.user THEN [@ EXCEPT !.pc = "vault"] ELSE Idle]
  /\ page' = IF session.user THEN page
             ELSE [page EXCEPT ![t] = Render(3, attempts'[session.attempt])]
  /\ UNCHANGED <<session, vault, consents, rows, submits, crashes>>
StoreVault(t) ==
  /\ task[t].pc = "vault"
  /\ vault' = [vault EXCEPT !.filled = (@ \cap {"dob"}) \cup task[t].filled]
  /\ page' = [page EXCEPT ![t] = Render(3, attempts[session.attempt])]
  /\ task' = [task EXCEPT ![t] = Idle]
  /\ UNCHANGED <<session, consents, attempts, rows, submits, crashes>>

(* step3_save: what is shared and not empty also goes to the vault. *)
LeftAlone(t, voice) ==
  {f \in Fields : page[t].attempt = Current /\ voice[f] = page[t].voice[f]}
SaveStep3(t, voice) ==
  LET a == [Loaded EXCEPT !.voice = voice,
                          !.seed = [f \in Fields |-> IF f \in LeftAlone(t, voice) THEN @[f]
                                                     ELSE Own]]
  IN /\ Submit(t, 3)
     /\ GetOrCreate(a)
     /\ vault' = IF session.user
                 THEN [vault EXCEPT !.voice = [f \in Shared |-> IF voice[f] # None THEN voice[f]
                                                                ELSE vault.voice[f]]]
                 ELSE vault
     /\ page' = [page EXCEPT ![t] = Render(4, a)]
     /\ UNCHANGED <<consents, task, rows>>

(* step4_save: a file, or a text, or a file that is there already. *)
SaveStep4(t, document) ==
  LET a == [Loaded EXCEPT !.document = TRUE]
  IN /\ Submit(t, 4)
     /\ document \/ Loaded.document
     /\ GetOrCreate(a)
     /\ page' = [page EXCEPT ![t] = Render(5, a)]
     /\ UNCHANGED <<vault, consents, task, rows>>

(* step5_save *)
SaveStep5(t) ==
  /\ Submit(t, 5)
  /\ GetOrCreate(Loaded)
  /\ page' = [page EXCEPT ![t] = Render(6, Loaded)]
  /\ UNCHANGED <<vault, consents, task, rows>>

(* The button of step 6, then a generation that reads the session's        *)
(* attempt and saves a CV (module Generation).                             *)
Generate(t) ==
  /\ page[t].step = 6 /\ page[t].ready /\ task[t].pc = "idle"
  /\ session.attempt # 0 /\ Loaded.document /\ session.user
  /\ Len(rows) < MaxRows
  /\ rows' = Append(rows, [region |-> Loaded.region, voice |-> Loaded.voice,
                           seed |-> Loaded.seed])
  /\ UNCHANGED <<session, vault, consents, attempts, page, task, submits, crashes>>

-----------------------------------------------------------------------------
(* Logging in, with whatever the user's vault has from onboarding.  The    *)
(* session's attempt stays.                                                *)
LogIn(v) ==
  /\ ~session.user /\ \A t \in Tabs : task[t].pc = "idle"
  /\ session' = [session EXCEPT !.user = TRUE]
  /\ vault' = v
  /\ UNCHANGED <<consents, attempts, page, task, rows, submits, crashes>>

(* The worker dies in the middle of step2_save. *)
Crash ==
  /\ crashes < MaxCrashes
  /\ \E t \in Tabs : task[t].pc # "idle"
  /\ crashes' = crashes + 1
  /\ task' = [t \in Tabs |-> Idle]
  /\ UNCHANGED <<session, vault, consents, attempts, page, rows, submits>>

Next ==
  \/ \E t \in Tabs :
       \/ \E step \in 1 .. 6 : Open(t, step)
       \/ \E from \in 0 .. Len(rows) : New(t, from)
       \/ \E region \in Regions : SaveStep1(t, region)
       \/ \E filled \in SUBSET {"name", "contact"} : SaveStep2(t, filled)
       \/ RecordConsents(t) \/ StoreDetails(t) \/ StoreVault(t)
       \/ \E voice \in Spoken : SaveStep3(t, voice)
       \/ \E document \in BOOLEAN : SaveStep4(t, document)
       \/ SaveStep5(t)
       \/ Generate(t)
  \/ \E v \in Vaults : LogIn(v)
  \/ Crash

Spec == Init /\ [][Next]_vars

-----------------------------------------------------------------------------
(* A user's details are in the attempt only when the consents that the     *)
(* region they were entered for asks for, and the age, are on record: also *)
(* when the process dies between the writes, and when another tab changes  *)
(* the region meanwhile.                                                   *)
DetailsFollowConsent ==
  \A i \in DOMAIN attempts :
    attempts[i].accepted # None =>
      {"age"} \cup Required(attempts[i].accepted) \subseteq consents

(* A CV tailored from a saved one has the voice of that one, field by      *)
(* field, as far as the user left it alone: whatever the vault says by     *)
(* then, and in whatever order the steps were visited.  Only a shared      *)
(* field that was empty in the saved CV may have been filled, with what    *)
(* the vault had when the form was shown.                                  *)
Follows(voice, seed, f) ==
  seed[f] \in {Own, voice[f]} \/ (seed[f] = None /\ f \in Shared)
VoiceIsKept ==
  \A r \in DOMAIN rows : \A f \in Fields : Follows(rows[r].voice, rows[r].seed, f)
=============================================================================
