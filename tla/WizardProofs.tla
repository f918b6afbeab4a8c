---------------------------- MODULE WizardProofs ----------------------------
(***************************************************************************)
(* Proofs about Wizard: what the tasks of step 2 and the pages of step 3   *)
(* still know when another tab has moved on, and from it that no details   *)
(* are stored ahead of their consents and that the voice of a saved CV     *)
(* reaches the next one, field by field.                                   *)
(***************************************************************************)
EXTENDS Wizard, SequenceTheorems, TLAPS

Pages == [step : 0 .. 6, attempt : Nat, region : Regions \cup {None},
          voice : Spoken, ready : BOOLEAN]
Rows == [region : Regions, voice : Spoken, seed : Seeds]
VaultTypes == [filled : SUBSET Details, voice : [Shared -> Voices \cup {None}]]

(* A request of step 2 ticks what its region asks for, and one of a user   *)
(* who has passed the first write has it on record.                        *)
Holds(t) ==
  task[t].pc # "idle" =>
    /\ session.attempt # 0 /\ task[t].region \in Regions
    /\ {"age"} \cup Required(task[t].region) \subseteq task[t].boxes
    /\ task[t].pc = "store" /\ session.user => task[t].boxes \subseteq consents

(* An attempt whose field still is as it was seeded has that as its voice, *)
(* and so has a page of step 3 that shows it, however old the page is.     *)
SeedIsVoice(a) == \A f \in Fields : Follows(a.voice, a.seed, f)
Shows(p, all) ==
  /\ p.attempt \in 0 .. Len(all)
  /\ p.attempt # 0 => \A f \in Fields : Follows(p.voice, all[p.attempt].seed, f)

(* A step may take the seed from a field; only a new attempt brings one. *)
NoNewSeed(a) == \A f \in Fields : a.seed[f] \in {Own, Loaded.seed[f]}

IInv ==
  /\ TypeOK
  /\ \A t \in Tabs : Holds(t) /\ Shows(page[t], attempts)
  /\ \A i \in DOMAIN attempts : SeedIsVoice(attempts[i])
  /\ DetailsFollowConsent
  /\ VoiceIsKept

(***************************************************************************)
(* The operators the actions are built from                                *)
(***************************************************************************)
LEMMA Typing ==
  ASSUME TypeOK
  PROVE  /\ attempts \in Seq(Attempts) /\ Len(attempts) \in Nat
         /\ DOMAIN attempts = 1 .. Len(attempts)
         /\ \A i \in 1 .. Len(attempts) : attempts[i] \in Attempts
         /\ session.attempt \in 0 .. Len(attempts) /\ session.user \in BOOLEAN
         /\ NewAttempt \in Attempts /\ NewAttempt.seed = Unseeded /\ NewAttempt.accepted = None
         /\ Loaded \in Attempts
<1>1. NewAttempt \in Attempts /\ NewAttempt.seed = Unseeded /\ NewAttempt.accepted = None
  BY WizardAssumption DEF NewAttempt, Attempts, Spoken, Seeds, Silent, Unseeded
<1>2. attempts \in Seq(Attempts) /\ Len(attempts) \in Nat /\ DOMAIN attempts = 1 .. Len(attempts)
  BY DEF TypeOK
<1>3. \A i \in 1 .. Len(attempts) : attempts[i] \in Attempts
  BY <1>2
<1>4. session.attempt \in 0 .. Len(attempts) /\ session.user \in BOOLEAN
  BY DEF TypeOK
<1>5. Loaded \in Attempts
  BY <1>1, <1>2, <1>3, <1>4 DEF Loaded
<1> QED
  BY <1>1, <1>2, <1>3, <1>4, <1>5

(* What _get_or_create_attempt leaves: the session names an attempt that   *)
(* has the changes, and every other one is as it was.                      *)
LEMMA GetOrCreateEffect ==
  ASSUME TypeOK, NEW a \in Attempts, GetOrCreate(a)
  PROVE  /\ session' = [session EXCEPT !.attempt = Current]
         /\ attempts' \in Seq(Attempts) /\ Len(attempts') \in Nat
         /\ Len(attempts) <= Len(attempts') /\ Len(attempts') <= MaxAttempts
         /\ Current \in 1 .. Len(attempts') /\ attempts'[Current] = a
         /\ \A i \in 1 .. Len(attempts') :
              i # Current => i \in 1 .. Len(attempts) /\ attempts'[i] = attempts[i]
         /\ IF Current \in 1 .. Len(attempts) THEN Loaded = attempts[Current]
                                              ELSE Loaded = NewAttempt
<1>1. Current \in Nat /\ Current <= MaxAttempts /\ Len(attempts) <= MaxAttempts
  BY Typing, WizardAssumption DEF GetOrCreate, Current, TypeOK
<1>2. CASE session.attempt = 0
  <2>1. attempts' = Append(attempts, a) /\ Current = Len(attempts) + 1
    BY <1>2 DEF GetOrCreate, Current
  <2>2. /\ attempts' \in Seq(Attempts) /\ Len(attempts') = Len(attempts) + 1
        /\ attempts'[Len(attempts) + 1] = a
        /\ \A i \in 1 .. Len(attempts) : attempts'[i] = attempts[i]
    BY <2>1, Typing, AppendProperties
  <2> QED
    BY <1>1, <1>2, <2>1, <2>2, Typing DEF GetOrCreate, Loaded
<1>3. CASE session.attempt # 0
  <2>1. attempts' = [attempts EXCEPT ![session.attempt] = a] /\ Current = session.attempt
    BY <1>3 DEF GetOrCreate, Current
  <2>2. /\ attempts' \in Seq(Attempts) /\ Len(attempts') = Len(attempts)
        /\ attempts'[session.attempt] = a
        /\ \A i \in 1 .. Len(attempts) : i # session.attempt => attempts'[i] = attempts[i]
    BY <1>3, <2>1, Typing, ExceptSeq
  <2> QED
    BY <1>1, <1>3, <2>1, <2>2, Typing DEF GetOrCreate, Loaded
<1> QED
  BY <1>2, <1>3

LEMMA VoiceTypes ==
  ASSUME TypeOK, NEW a \in Attempts
  PROVE  /\ Step3Voice(a) \in Spoken
         /\ SeedIsVoice(a) => \A f \in Fields : Follows(Step3Voice(a), a.seed, f)
         /\ Complete(a) \in BOOLEAN
<1>1. Pii.voice \in [Shared -> Voices \cup {None}]
  BY DEF TypeOK, Pii, NoVault
<1>2. /\ a.voice \in [Fields -> Voices \cup {None}]
      /\ Shared \subseteq Fields
  BY WizardAssumption DEF Attempts, Spoken
<1>3. \A f \in Fields : Step3Voice(a)[f] = IF a.voice[f] = None /\ f \in Shared THEN Pii.voice[f]
                                                                              ELSE a.voice[f]
  BY DEF Step3Voice
<1>4. Step3Voice(a) \in Spoken
  BY <1>1, <1>2 DEF Step3Voice, Spoken
<1>5. SeedIsVoice(a) => \A f \in Fields : Follows(Step3Voice(a), a.seed, f)
  BY <1>3 DEF SeedIsVoice, Follows
<1> QED
  BY <1>4, <1>5 DEF Complete

LEMMA RenderShows ==
  ASSUME TypeOK, NEW step \in 1 .. 6, NEW a \in Attempts, SeedIsVoice(a),
         NEW all \in Seq(Attempts), Current \in 1 .. Len(all), all[Current] = a
  PROVE  Render(step, a) \in Pages /\ Shows(Render(step, a), all)
<1>1. /\ Step3Voice(a) \in Spoken
      /\ \A f \in Fields : Follows(Step3Voice(a), a.seed, f)
      /\ Complete(a) \in BOOLEAN
  BY VoiceTypes
<1>2. Len(all) \in Nat /\ Current \in Nat
  OBVIOUS
<1>3. Render(step, a) \in Pages
  BY <1>1, <1>2, WizardAssumption DEF Render, Pages, Attempts, Silent, Spoken
<1>4. CASE step = 3
  <2>1. Render(step, a).attempt = Current /\ Render(step, a).voice = Step3Voice(a)
    BY <1>4 DEF Render
  <2> QED
    BY <1>1, <1>2, <1>3, <2>1 DEF Shows
<1>5. CASE step # 3
  <2>1. Render(step, a).attempt = 0
    BY <1>5 DEF Render
  <2> QED
    BY <1>2, <1>3, <2>1 DEF Shows
<1> QED
  BY <1>3, <1>4, <1>5

(***************************************************************************)
(* What a step has to show                                                 *)
(***************************************************************************)
(* One tab goes on to another page. *)
LEMMA PageKeeps ==
  ASSUME TypeOK, NEW all \in Seq(Attempts), \A s \in Tabs : Shows(page[s], all),
         NEW t \in Tabs, NEW p \in Pages, Shows(p, all)
  PROVE  LET new == [page EXCEPT ![t] = p]
         IN /\ \A s \in Tabs : Shows(new[s], all)
            /\ new \in [Tabs -> [step : 0 .. 6, attempt : 0 .. Len(all),
                                 region : Regions \cup {None}, voice : Spoken, ready : BOOLEAN]]
<1>1. page \in [Tabs -> Pages]
  BY Typing DEF TypeOK, Pages
<1> DEFINE new == [page EXCEPT ![t] = p]
<1>2. new \in [Tabs -> Pages] /\ \A s \in Tabs : Shows(new[s], all)
  BY <1>1
<1>3. \A s \in Tabs : new[s].attempt \in 0 .. Len(all)
  BY <1>2 DEF Shows
<1> HIDE DEF new
<1>4. new \in [Tabs -> [step : 0 .. 6, attempt : 0 .. Len(all), region : Regions \cup {None},
                       voice : Spoken, ready : BOOLEAN]]
  BY <1>2, <1>3 DEF Pages
<1> QED
  BY <1>2, <1>4 DEF new

(* The session's attempt is changed, or made: nothing that was said of any *)
(* attempt or page stops being true.                                       *)
LEMMA AttemptKeeps ==
  ASSUME IInv, NEW a \in Attempts, GetOrCreate(a), SeedIsVoice(a),
         NoNewSeed(a), a.accepted = Loaded.accepted, consents' = consents
  PROVE  /\ \A i \in DOMAIN attempts' : SeedIsVoice(attempts'[i])
         /\ \A s \in Tabs : Shows(page[s], attempts')
         /\ DetailsFollowConsent'
<1>1. TypeOK
  BY DEF IInv
<1>2. /\ attempts' \in Seq(Attempts) /\ DOMAIN attempts' = 1 .. Len(attempts')
      /\ Len(attempts') \in Nat
      /\ Len(attempts) <= Len(attempts')
      /\ Current \in 1 .. Len(attempts') /\ attempts'[Current] = a
      /\ \A i \in 1 .. Len(attempts') :
           i # Current => i \in 1 .. Len(attempts) /\ attempts'[i] = attempts[i]
      /\ IF Current \in 1 .. Len(attempts) THEN Loaded = attempts[Current]
                                           ELSE Loaded = NewAttempt
  BY <1>1, GetOrCreateEffect
<1>3. \A i \in DOMAIN attempts' : SeedIsVoice(attempts'[i])
  BY <1>1, <1>2, Typing DEF IInv
<1>4. \A s \in Tabs : Shows(page[s], attempts')
  BY <1>1, <1>2, Typing DEF IInv, Shows, Follows, NoNewSeed, NewAttempt, Unseeded
<1>5. DetailsFollowConsent'
  BY <1>1, <1>2, Typing DEF IInv, DetailsFollowConsent
<1> QED
  BY <1>3, <1>4, <1>5

TaskTypes(n) == [pc : {"idle", "consent", "store", "vault"}, attempt : 0 .. n,
                 region : Regions \cup {None}, boxes : SUBSET Consents,
                 filled : SUBSET Details]

(* The requests that are under way do not notice. *)
LEMMA TasksStay ==
  ASSUME IInv, NEW a \in Attempts, GetOrCreate(a), UNCHANGED <<task, consents>>
  PROVE  task' \in [Tabs -> TaskTypes(Len(attempts'))] /\ \A s \in Tabs : Holds(s)'
<1>1. TypeOK
  BY DEF IInv
<1>2. /\ session' = [session EXCEPT !.attempt = Current]
      /\ Len(attempts') \in Nat /\ Len(attempts) <= Len(attempts')
      /\ Current \in 1 .. Len(attempts')
  BY <1>1, GetOrCreateEffect
<1>3. task' \in [Tabs -> TaskTypes(Len(attempts'))]
  BY <1>1, <1>2, Typing DEF TypeOK, TaskTypes
<1>4. session'.attempt # 0 /\ session'.user = session.user
  BY <1>1, <1>2 DEF TypeOK
<1>5. \A s \in Tabs : Holds(s)'
  BY <1>4 DEF IInv, Holds
<1> QED
  BY <1>3, <1>5

(* What is left to show of a step that goes through the session's attempt  *)
(* and lets one tab go on to p.                                            *)
LEMMA SaveKeeps ==
  ASSUME IInv, NEW a \in Attempts, GetOrCreate(a), SeedIsVoice(a),
         NoNewSeed(a), a.accepted = Loaded.accepted,
         NEW t \in Tabs, NEW p \in Pages, Shows(p, attempts'),
         page' = [page EXCEPT ![t] = p],
         task' \in [Tabs -> TaskTypes(Len(attempts'))], \A s \in Tabs : Holds(s)',
         vault' \in VaultTypes,
         submits' \in 0 .. MaxSubmits,
         UNCHANGED <<consents, rows, crashes>>
  PROVE  IInv'
<1>1. TypeOK
  BY DEF IInv
<1>2. /\ session' = [session EXCEPT !.attempt = Current]
      /\ attempts' \in Seq(Attempts) /\ Len(attempts') \in Nat
      /\ Len(attempts) <= Len(attempts') /\ Len(attempts') <= MaxAttempts
      /\ Current \in 1 .. Len(attempts')
  BY <1>1, GetOrCreateEffect
<1>3. /\ \A i \in DOMAIN attempts' : SeedIsVoice(attempts'[i])
      /\ \A s \in Tabs : Shows(page[s], attempts')
      /\ DetailsFollowConsent'
  BY AttemptKeeps
<1>4. /\ \A s \in Tabs : Shows(page'[s], attempts')
      /\ page' \in [Tabs -> [step : 0 .. 6, attempt : 0 .. Len(attempts'),
                             region : Regions \cup {None}, voice : Spoken, ready : BOOLEAN]]
  BY <1>1, <1>2, <1>3, PageKeeps
<1>5. session' \in [attempt : 0 .. Len(attempts'), user : BOOLEAN]
  <2>1. session' = [attempt |-> Current, user |-> session.user]
    BY <1>1, <1>2 DEF TypeOK
  <2>2. session.user \in BOOLEAN /\ Current \in 0 .. Len(attempts')
    BY <1>1, <1>2, Typing
  <2> QED
    BY <2>1, <2>2
<1>6. TypeOK'
  BY <1>1, <1>2, <1>4, <1>5 DEF TypeOK, TaskTypes, VaultTypes
<1>7. VoiceIsKept'
  BY DEF IInv, VoiceIsKept
<1> QED
  BY <1>3, <1>4, <1>6, <1>7 DEF IInv

LEMMA LoadedFits ==
  ASSUME IInv
  PROVE  Loaded \in Attempts /\ SeedIsVoice(Loaded) /\ NoNewSeed(Loaded)
<1>1. Loaded \in Attempts /\ TypeOK
  BY Typing DEF IInv
<1>2. SeedIsVoice(Loaded)
  <2>1. CASE session.attempt = 0
    <3>1. Loaded = NewAttempt
      BY <2>1 DEF Loaded
    <3>2. \A f \in Fields : NewAttempt.seed[f] = Own
      BY DEF NewAttempt, Unseeded
    <3> QED
      BY <3>1, <3>2 DEF SeedIsVoice, Follows
  <2>2. CASE session.attempt # 0
    <3>1. Loaded = attempts[session.attempt] /\ session.attempt \in DOMAIN attempts
      BY <1>1, <2>2, Typing DEF Loaded
    <3> QED
      BY <3>1 DEF IInv
  <2> QED
    BY <2>1, <2>2
<1>3. NoNewSeed(Loaded)
  BY DEF NoNewSeed
<1> QED
  BY <1>1, <1>2, <1>3

(***************************************************************************)
(* The steps of the wizard                                                 *)
(***************************************************************************)
LEMMA OpenKeeps ==
  ASSUME IInv, NEW t \in Tabs, NEW step \in 1 .. 6, Open(t, step)
  PROVE  IInv'
<1>1. TypeOK /\ GetOrCreate(Loaded) /\ Loaded \in Attempts /\ SeedIsVoice(Loaded) /\ NoNewSeed(Loaded)
  BY LoadedFits DEF Open, IInv
<1>2. attempts' \in Seq(Attempts) /\ Current \in 1 .. Len(attempts') /\ attempts'[Current] = Loaded
  BY <1>1, GetOrCreateEffect
<1>3. Render(step, Loaded) \in Pages /\ Shows(Render(step, Loaded), attempts')
  BY <1>1, <1>2, RenderShows
<1>4. /\ page' = [page EXCEPT ![t] = Render(step, Loaded)]
      /\ UNCHANGED <<vault, consents, task, rows, submits, crashes>>
  BY DEF Open
<1>5. /\ vault' \in VaultTypes
      /\ submits' \in 0 .. MaxSubmits
  BY <1>1, <1>4 DEF TypeOK, VaultTypes
<1>6. task' \in [Tabs -> TaskTypes(Len(attempts'))] /\ \A s \in Tabs : Holds(s)'
  BY <1>1, <1>4, TasksStay
<1> QED
  BY <1>1, <1>3, <1>4, <1>5, <1>6, SaveKeeps

(* The steps that save something and open the next page. *)
LEMMA NextPageKeeps ==
  ASSUME IInv, NEW t \in Tabs, NEW here \in 1 .. 6, NEW step \in 1 .. 6, NEW a \in Attempts,
         Submit(t, here), GetOrCreate(a), SeedIsVoice(a),
         NoNewSeed(a), a.accepted = Loaded.accepted,
         page' = [page EXCEPT ![t] = Render(step, a)],
         vault' \in VaultTypes,
         UNCHANGED <<consents, task, rows>>
  PROVE  IInv'
<1>1. TypeOK
  BY DEF IInv
<1>2. attempts' \in Seq(Attempts) /\ Current \in 1 .. Len(attempts') /\ attempts'[Current] = a
  BY <1>1, GetOrCreateEffect
<1>3. Render(step, a) \in Pages /\ Shows(Render(step, a), attempts')
  BY <1>1, <1>2, RenderShows
<1>4. submits' \in 0 .. MaxSubmits /\ crashes' = crashes
  BY <1>1, WizardAssumption DEF Submit, TypeOK
<1>5. task' \in [Tabs -> TaskTypes(Len(attempts'))] /\ \A s \in Tabs : Holds(s)'
  BY TasksStay
<1> QED
  BY <1>3, <1>4, <1>5, SaveKeeps

LEMMA SaveStepsKeep ==
  ASSUME IInv, NEW t \in Tabs,
         \/ \E region \in Regions : SaveStep1(t, region)
         \/ \E document \in BOOLEAN : SaveStep4(t, document)
         \/ SaveStep5(t)
  PROVE  IInv'
<1>1. TypeOK /\ Loaded \in Attempts /\ SeedIsVoice(Loaded) /\ NoNewSeed(Loaded)
  BY LoadedFits DEF IInv
<1>2. vault \in VaultTypes
  BY <1>1 DEF TypeOK, VaultTypes
<1>3. ASSUME NEW region \in Regions, SaveStep1(t, region) PROVE IInv'
  <2> DEFINE a == [Loaded EXCEPT !.region = region]
  <2>1. /\ a \in Attempts /\ SeedIsVoice(a) /\ NoNewSeed(a)
        /\ a.accepted = Loaded.accepted
    BY <1>1 DEF Attempts, SeedIsVoice, NoNewSeed
  <2>2. /\ 1 \in 1 .. 6 /\ 2 \in 1 .. 6
        /\ Submit(t, 1) /\ GetOrCreate(a) /\ page' = [page EXCEPT ![t] = Render(2, a)]
        /\ UNCHANGED <<vault, consents, task, rows>>
    BY <1>3 DEF SaveStep1
  <2> HIDE DEF a
  <2> QED
    BY <1>2, <2>1, <2>2, NextPageKeeps
<1>4. ASSUME NEW document \in BOOLEAN, SaveStep4(t, document) PROVE IInv'
  <2> DEFINE a == [Loaded EXCEPT !.document = TRUE]
  <2>1. /\ a \in Attempts /\ SeedIsVoice(a) /\ NoNewSeed(a)
        /\ a.accepted = Loaded.accepted
    BY <1>1 DEF Attempts, SeedIsVoice, NoNewSeed
  <2>2. /\ 4 \in 1 .. 6 /\ 5 \in 1 .. 6
        /\ Submit(t, 4) /\ GetOrCreate(a) /\ page' = [page EXCEPT ![t] = Render(5, a)]
        /\ UNCHANGED <<vault, consents, task, rows>>
    BY <1>4 DEF SaveStep4
  <2> HIDE DEF a
  <2> QED
    BY <1>2, <2>1, <2>2, NextPageKeeps
<1>5. ASSUME SaveStep5(t) PROVE IInv'
  <2>1. /\ 5 \in 1 .. 6 /\ 6 \in 1 .. 6
        /\ Submit(t, 5) /\ GetOrCreate(Loaded) /\ page' = [page EXCEPT ![t] = Render(6, Loaded)]
        /\ UNCHANGED <<vault, consents, task, rows>>
    BY <1>5 DEF SaveStep5
  <2> QED
    BY <1>1, <1>2, <2>1, NextPageKeeps
<1> QED
  BY <1>3, <1>4, <1>5

(* The seed of a field survives step 3 only if the page showed the attempt *)
(* it is saved to and the field was left alone: what was shown follows it. *)
LEMMA SaveStep3Keeps ==
  ASSUME IInv, NEW t \in Tabs, NEW voice \in Spoken, SaveStep3(t, voice)
  PROVE  IInv'
<1>1. TypeOK /\ Loaded \in Attempts /\ SeedIsVoice(Loaded) /\ Shows(page[t], attempts)
  BY LoadedFits DEF IInv
<1> DEFINE seed == [f \in Fields |-> IF f \in LeftAlone(t, voice) THEN Loaded.seed[f] ELSE Own]
           a == [Loaded EXCEPT !.voice = voice, !.seed = seed]
<1>2. seed \in Seeds /\ \A f \in Fields : seed[f] \in {Own, Loaded.seed[f]}
  BY <1>1 DEF Attempts, Seeds
<1>3. /\ a \in Attempts /\ a.accepted = Loaded.accepted /\ a.voice = voice
      /\ a.seed = seed /\ NoNewSeed(a)
  BY <1>1, <1>2 DEF Attempts, NoNewSeed
<1>4. ASSUME NEW f \in Fields PROVE Follows(voice, seed, f)
  <2>1. CASE seed[f] = Own
    BY <2>1 DEF Follows
  <2>2. CASE seed[f] # Own
    <3>1. seed[f] = Loaded.seed[f] /\ page[t].attempt = Current /\ voice[f] = page[t].voice[f]
      BY <2>2 DEF LeftAlone
    <3>2. session.attempt # 0
      <4>1. CASE session.attempt = 0
        <5>1. Loaded.seed[f] = Own
          BY <4>1 DEF Loaded, NewAttempt, Unseeded
        <5> QED
          BY <2>2, <3>1, <5>1
      <4> QED
        BY <4>1
    <3>3. Current = session.attempt /\ Loaded = attempts[session.attempt]
      BY <3>2 DEF Loaded, Current
    <3>4. Follows(page[t].voice, Loaded.seed, f)
      BY <1>1, <3>1, <3>2, <3>3 DEF Shows
    <3> QED
      BY <3>1, <3>4 DEF Follows
  <2> QED
    BY <2>1, <2>2
<1>5. SeedIsVoice(a)
  <2> HIDE DEF a, seed
  <2> QED
    BY <1>3, <1>4 DEF SeedIsVoice
<1>6. /\ 3 \in 1 .. 6 /\ 4 \in 1 .. 6
      /\ Submit(t, 3) /\ GetOrCreate(a) /\ page' = [page EXCEPT ![t] = Render(4, a)]
      /\ UNCHANGED <<consents, task, rows>>
      /\ vault' = IF session.user
                  THEN [vault EXCEPT !.voice = [f \in Shared |-> IF voice[f] # None THEN voice[f]
                                                                 ELSE vault.voice[f]]]
                  ELSE vault
  BY DEF SaveStep3
<1>7. vault' \in VaultTypes
  <2>1. Shared \subseteq Fields /\ vault \in VaultTypes
    BY <1>1, WizardAssumption DEF TypeOK, VaultTypes
  <2>2. [f \in Shared |-> IF voice[f] # None THEN voice[f] ELSE vault.voice[f]]
          \in [Shared -> Voices \cup {None}]
    BY <2>1 DEF Spoken, VaultTypes
  <2> QED
    BY <1>6, <2>1, <2>2 DEF VaultTypes
<1> HIDE DEF a, seed
<1> QED
  BY <1>3, <1>5, <1>6, <1>7, NextPageKeeps

(* One tab's request goes on to x. *)
LEMMA TaskKeeps ==
  ASSUME NEW n \in Nat, task \in [Tabs -> TaskTypes(n)], NEW t \in Tabs, NEW x \in TaskTypes(n),
         task' = [task EXCEPT ![t] = x], \A s \in Tabs \ {t} : Holds(s),
         session'.attempt # 0 \/ session' = session, session'.user = session.user,
         consents \subseteq consents',
         x.pc # "idle" =>
           /\ session'.attempt # 0 /\ x.region \in Regions
           /\ {"age"} \cup Required(x.region) \subseteq x.boxes
           /\ x.pc = "store" /\ session.user => x.boxes \subseteq consents'
  PROVE  task' \in [Tabs -> TaskTypes(n)] /\ \A s \in Tabs : Holds(s)'
<1>1. task' \in [Tabs -> TaskTypes(n)] /\ task'[t] = x /\ \A s \in Tabs \ {t} : task'[s] = task[s]
  OBVIOUS
<1>2. Holds(t)'
  BY <1>1 DEF Holds
<1>3. ASSUME NEW s \in Tabs \ {t} PROVE Holds(s)'
  BY <1>1, <1>3 DEF Holds
<1> QED
  BY <1>1, <1>2, <1>3

LEMMA RequiredTypes == \A region : Required(region) \in SUBSET Consents
BY DEF Required, Consents

LEMMA SaveStep2Keeps ==
  ASSUME IInv, NEW t \in Tabs, NEW filled \in SUBSET {"name", "contact"}, SaveStep2(t, filled)
  PROVE  IInv'
<1> DEFINE x == [pc |-> IF session.user THEN "consent" ELSE "store", attempt |-> Current,
                 region |-> Loaded.region, boxes |-> {"age"} \cup Required(page[t].region),
                 filled |-> filled]
<1>1. TypeOK /\ GetOrCreate(Loaded) /\ Loaded \in Attempts /\ SeedIsVoice(Loaded) /\ NoNewSeed(Loaded)
  BY LoadedFits DEF SaveStep2, IInv
<1>2. /\ session' = [session EXCEPT !.attempt = Current]
      /\ Len(attempts') \in Nat /\ Len(attempts) <= Len(attempts')
      /\ Current \in 1 .. Len(attempts')
  BY <1>1, GetOrCreateEffect
<1>3. /\ Required(Loaded.region) \subseteq Required(page[t].region)
      /\ task' = [task EXCEPT ![t] = x]
      /\ submits < MaxSubmits /\ submits' = submits + 1
      /\ UNCHANGED <<vault, consents, page, rows, crashes>>
  BY DEF SaveStep2, Submit
<1>4. /\ session'.attempt # 0 /\ session'.user = session.user /\ session.user \in BOOLEAN
      /\ Loaded.region \in Regions
  BY <1>1, <1>2 DEF TypeOK, Attempts
<1>5. /\ x \in TaskTypes(Len(attempts'))
      /\ x.region = Loaded.region /\ x.boxes = {"age"} \cup Required(page[t].region)
      /\ x.pc = "store" => ~session.user
  BY <1>2, <1>4, RequiredTypes DEF TaskTypes, Consents, Details
<1>6. task \in [Tabs -> TaskTypes(Len(attempts'))]
  BY <1>1, <1>2, Typing DEF TypeOK, TaskTypes
<1>7. task' \in [Tabs -> TaskTypes(Len(attempts'))] /\ \A s \in Tabs : Holds(s)'
  <2> HIDE DEF x
  <2>1. /\ {"age"} \cup Required(x.region) \subseteq x.boxes
        /\ ~(x.pc = "store" /\ session.user)
    BY <1>3, <1>5
  <2>2. \A s \in Tabs \ {t} : Holds(s)
    BY DEF IInv
  <2> QED
    BY <1>2, <1>3, <1>4, <1>5, <1>6, <2>1, <2>2, TaskKeeps
<1>8. /\ page[t] \in Pages /\ page' = [page EXCEPT ![t] = page[t]]
      /\ vault' \in VaultTypes
      /\ submits' \in 0 .. MaxSubmits
  BY <1>1, <1>3, Typing, WizardAssumption DEF TypeOK, Pages, VaultTypes
<1>9. Shows(page[t], attempts')
  BY <1>1, <1>3, AttemptKeeps
<1> QED
  BY <1>1, <1>3, <1>7, <1>8, <1>9, SaveKeeps

(* Steps that leave the attempts and the session alone. *)
LEMMA StillSays ==
  ASSUME IInv, UNCHANGED attempts, consents \subseteq consents'
  PROVE  (\A i \in DOMAIN attempts : SeedIsVoice(attempts[i]))' /\ DetailsFollowConsent'
<1>1. DetailsFollowConsent'
  BY DEF IInv, DetailsFollowConsent
<1> QED
  BY <1>1 DEF IInv

LEMMA RecordConsentsKeeps ==
  ASSUME IInv, NEW t \in Tabs, RecordConsents(t)
  PROVE  IInv'
<1> DEFINE x == [task[t] EXCEPT !.pc = "store"]
<1>1. TypeOK /\ Len(attempts) \in Nat
  BY Typing DEF IInv
<1>2. /\ task' = [task EXCEPT ![t] = x] /\ consents' = consents \cup task[t].boxes
      /\ UNCHANGED <<session, vault, attempts, page, rows, submits, crashes>>
  BY <1>1 DEF RecordConsents, TypeOK
<1>3. task \in [Tabs -> TaskTypes(Len(attempts))] /\ task[t] \in TaskTypes(Len(attempts))
  BY <1>1 DEF TypeOK, TaskTypes
<1>4. /\ x \in TaskTypes(Len(attempts)) /\ x.region = task[t].region /\ x.boxes = task[t].boxes
  BY <1>3 DEF TaskTypes
<1>5. Holds(t) /\ task[t].pc # "idle" /\ \A s \in Tabs \ {t} : Holds(s)
  BY DEF IInv, RecordConsents
<1>6. task' \in [Tabs -> TaskTypes(Len(attempts))] /\ \A s \in Tabs : Holds(s)'
  <2>1. /\ session.attempt # 0 /\ x.region \in Regions
        /\ {"age"} \cup Required(x.region) \subseteq x.boxes
        /\ x.boxes \subseteq consents' /\ consents \subseteq consents'
    BY <1>2, <1>4, <1>5 DEF Holds
  <2> HIDE DEF x
  <2> QED
    BY <1>1, <1>2, <1>3, <1>4, <1>5, <2>1, TaskKeeps
<1>7. consents' \subseteq Consents
  BY <1>1, <1>2, <1>3 DEF TypeOK, TaskTypes
<1>8. TypeOK'
  BY <1>1, <1>2, <1>6, <1>7 DEF TypeOK, TaskTypes
<1>9. (\A i \in DOMAIN attempts : SeedIsVoice(attempts[i]))' /\ DetailsFollowConsent'
  BY <1>2, StillSays
<1>10. (\A s \in Tabs : Shows(page[s], attempts))' /\ VoiceIsKept'
  BY <1>2 DEF IInv, VoiceIsKept
<1> QED
  BY <1>6, <1>8, <1>9, <1>10 DEF IInv

LEMMA StoreDetailsKeeps ==
  ASSUME IInv, NEW t \in Tabs, StoreDetails(t)
  PROVE  IInv'
<1>1. TypeOK /\ Holds(t) /\ task[t].pc = "store"
  BY DEF IInv, StoreDetails
<1> DEFINE i == task[t].attempt
           b == [attempts[i] EXCEPT !.filled = task[t].filled,
                                  !.accepted = IF session.user THEN task[t].region
                                               ELSE attempts[i].accepted]
           x == IF session.user THEN [task[t] EXCEPT !.pc = "vault"] ELSE Idle
<1>2. task \in [Tabs -> TaskTypes(Len(attempts))] /\ task[t] \in TaskTypes(Len(attempts))
  BY <1>1 DEF TypeOK, TaskTypes
<1>3. /\ session.attempt \in 1 .. Len(attempts) /\ Current = session.attempt
      /\ Len(attempts) \in Nat /\ session.user \in BOOLEAN
  BY <1>1, Typing DEF Holds, Current
<1>4. /\ attempts' \in Seq(Attempts) /\ Len(attempts') = Len(attempts)
      /\ \A j \in 1 .. Len(attempts) :
           /\ attempts'[j].seed = attempts[j].seed /\ attempts'[j].voice = attempts[j].voice
           /\ attempts'[j].accepted \in
                {attempts[j].accepted} \cup IF session.user THEN {task[t].region} ELSE {}
  <2>1. CASE i \in 1 .. Len(attempts)
    <3>1. /\ b \in Attempts /\ b.seed = attempts[i].seed /\ b.voice = attempts[i].voice
          /\ b.accepted = IF session.user THEN task[t].region ELSE attempts[i].accepted
      BY <1>1, <1>2, <1>3, <2>1, Typing DEF Attempts, TaskTypes
    <3>2. attempts' = [attempts EXCEPT ![i] = b]
      BY DEF StoreDetails, Accept
    <3> HIDE DEF b, i
    <3> QED
      BY <1>1, <1>3, <2>1, <3>1, <3>2, Typing, ExceptSeq
  <2>2. CASE i \notin 1 .. Len(attempts)
    <3>1. attempts' = attempts
      BY <1>1, <2>2, Typing DEF StoreDetails, Accept
    <3> QED
      BY <1>1, <3>1, Typing
  <2> QED
    BY <2>1, <2>2
<1>5. DOMAIN attempts' = 1 .. Len(attempts)
  BY <1>4
<1>6. \A j \in DOMAIN attempts' : SeedIsVoice(attempts'[j])
  BY <1>1, <1>4, <1>5, Typing DEF IInv, SeedIsVoice
<1>7. \A s \in Tabs : Shows(page[s], attempts')
  BY <1>3, <1>4 DEF IInv, Shows
<1>8. DetailsFollowConsent'
  <2>1. session.user => {"age"} \cup Required(task[t].region) \subseteq consents
    BY <1>1 DEF Holds
  <2>2. consents' = consents
    BY DEF StoreDetails
  <2> QED
    BY <1>1, <1>4, <1>5, <2>1, <2>2, Typing DEF IInv, DetailsFollowConsent
<1>9. UNCHANGED <<session, vault, consents, rows, submits, crashes>> /\ task' = [task EXCEPT ![t] = x]
  BY <1>1 DEF StoreDetails, TypeOK
<1>10. task' \in [Tabs -> TaskTypes(Len(attempts))] /\ \A s \in Tabs : Holds(s)'
  <2>1. /\ x \in TaskTypes(Len(attempts)) /\ x.pc # "store"
        /\ x.pc # "idle" => x.region = task[t].region /\ x.boxes = task[t].boxes
    BY <1>2, <1>3 DEF TaskTypes, Idle, Consents
  <2>2. x.pc # "idle" => /\ session.attempt # 0 /\ x.region \in Regions
                         /\ {"age"} \cup Required(x.region) \subseteq x.boxes
    BY <1>1, <2>1 DEF Holds
  <2>3. \A s \in Tabs \ {t} : Holds(s)
    BY DEF IInv
  <2> HIDE DEF x
  <2> QED
    BY <1>2, <1>3, <1>9, <2>1, <2>2, <2>3, TaskKeeps
<1>11. /\ \A s \in Tabs : Shows(page'[s], attempts')
       /\ page' \in [Tabs -> [step : 0 .. 6, attempt : 0 .. Len(attempts'),
                              region : Regions \cup {None}, voice : Spoken, ready : BOOLEAN]]
  <2>1. CASE session.user
    <3>1. page' = page
      BY <2>1 DEF StoreDetails
    <3> QED
      BY <1>1, <1>4, <1>7, <3>1 DEF TypeOK
  <2>2. CASE ~session.user
    <3> DEFINE a == attempts'[session.attempt]
    <3>1. page' = [page EXCEPT ![t] = Render(3, a)]
      BY <2>2 DEF StoreDetails
    <3>2. a \in Attempts /\ SeedIsVoice(a) /\ Current \in 1 .. Len(attempts') /\ attempts'[Current] = a
      BY <1>3, <1>4, <1>5, <1>6
    <3>3. 3 \in 1 .. 6
      OBVIOUS
    <3> HIDE DEF a
    <3>4. Render(3, a) \in Pages /\ Shows(Render(3, a), attempts')
      BY <1>1, <1>4, <3>2, <3>3, RenderShows
    <3> QED
      BY <1>1, <1>4, <1>7, <3>1, <3>4, PageKeeps
  <2> QED
    BY <2>1, <2>2
<1>12. TypeOK'
  BY <1>1, <1>4, <1>9, <1>10, <1>11 DEF TypeOK, TaskTypes
<1>13. VoiceIsKept'
  BY <1>9 DEF IInv, VoiceIsKept
<1> QED
  BY <1>6, <1>8, <1>10, <1>11, <1>12, <1>13 DEF IInv

LEMMA StoreVaultKeeps ==
  ASSUME IInv, NEW t \in Tabs, StoreVault(t)
  PROVE  IInv'
<1> DEFINE a == attempts[session.attempt]
<1>1. TypeOK /\ Holds(t) /\ task[t].pc = "vault" /\ \A s \in Tabs : Holds(s)
  BY DEF IInv, StoreVault
<1>2. /\ vault' = [vault EXCEPT !.filled = (@ \cap {"dob"}) \cup task[t].filled]
      /\ page' = [page EXCEPT ![t] = Render(3, a)] /\ task' = [task EXCEPT ![t] = Idle]
      /\ UNCHANGED <<session, consents, attempts, rows, submits, crashes>>
  BY DEF StoreVault
<1>3. /\ Len(attempts) \in Nat /\ attempts \in Seq(Attempts) /\ 3 \in 1 .. 6
      /\ a \in Attempts /\ SeedIsVoice(a)
      /\ Current \in 1 .. Len(attempts) /\ attempts[Current] = a
  BY <1>1, Typing DEF IInv, Holds, Current
<1>4. task \in [Tabs -> TaskTypes(Len(attempts))] /\ task[t] \in TaskTypes(Len(attempts))
  BY <1>1 DEF TypeOK, TaskTypes
<1>5. Idle \in TaskTypes(Len(attempts)) /\ Idle.pc = "idle"
  BY <1>3 DEF Idle, TaskTypes, Consents
<1>6. task' \in [Tabs -> TaskTypes(Len(attempts))] /\ \A s \in Tabs : Holds(s)'
  BY <1>1, <1>2, <1>3, <1>4, <1>5, TaskKeeps
<1>7. \A s \in Tabs : Shows(page[s], attempts)
  BY DEF IInv
<1>8. Render(3, a) \in Pages /\ Shows(Render(3, a), attempts)
  <2> HIDE DEF a
  <2> QED
    BY <1>1, <1>3, RenderShows
<1>9. /\ \A s \in Tabs : Shows(page'[s], attempts)
      /\ page' \in [Tabs -> [step : 0 .. 6, attempt : 0 .. Len(attempts),
                             region : Regions \cup {None}, voice : Spoken, ready : BOOLEAN]]
  <2> HIDE DEF a
  <2> QED
    BY <1>1, <1>2, <1>3, <1>7, <1>8, PageKeeps
<1>10. vault' \in VaultTypes
  BY <1>1, <1>2, <1>4 DEF TypeOK, TaskTypes, VaultTypes
<1>11. TypeOK'
  BY <1>1, <1>2, <1>6, <1>9, <1>10 DEF TypeOK, TaskTypes
<1>12. (\A i \in DOMAIN attempts : SeedIsVoice(attempts[i]))' /\ DetailsFollowConsent'
  BY <1>2, StillSays
<1>13. VoiceIsKept' /\ (\A s \in Tabs : Shows(page[s], attempts))'
  BY <1>2, <1>9 DEF IInv, VoiceIsKept
<1> QED
  BY <1>6, <1>11, <1>12, <1>13 DEF IInv

(* A new attempt has a number that no page knows; its seed is its voice. *)
LEMMA NewKeeps ==
  ASSUME IInv, NEW t \in Tabs, NEW from \in 0 .. Len(rows), New(t, from)
  PROVE  IInv'
<1> DEFINE n == Len(attempts) + 1
           a == IF from = 0 THEN NewAttempt
                ELSE [NewAttempt EXCEPT !.region = rows[from].region,
                                        !.voice = rows[from].voice, !.seed = rows[from].voice]
           p == [Blank EXCEPT !.step = 1]
<1>1. TypeOK /\ Len(attempts) < MaxAttempts /\ Len(attempts) \in Nat
  BY Typing DEF IInv, New
<1>2. /\ session' = [session EXCEPT !.attempt = n] /\ attempts' = Append(attempts, a)
      /\ page' = [page EXCEPT ![t] = p]
      /\ UNCHANGED <<vault, consents, task, rows, submits, crashes>>
  BY DEF New
<1>3. a \in Attempts /\ SeedIsVoice(a) /\ a.accepted = None
  <2>1. rows \in Seq(Rows) /\ Len(rows) \in Nat
    BY <1>1 DEF TypeOK, Rows
  <2>2. from # 0 => rows[from] \in Rows
    BY <2>1
  <2> QED
    BY <1>1, <2>2, WizardAssumption
    DEF NewAttempt, Attempts, Rows, SeedIsVoice, Follows, Spoken, Seeds, Silent, Unseeded
<1>4. /\ attempts' \in Seq(Attempts) /\ Len(attempts') = n /\ attempts'[n] = a
      /\ DOMAIN attempts' = 1 .. n
      /\ \A i \in 1 .. Len(attempts) : attempts'[i] = attempts[i]
  <2> HIDE DEF a
  <2> QED
    BY <1>1, <1>2, <1>3, Typing, AppendProperties
<1>5. \A i \in DOMAIN attempts' : SeedIsVoice(attempts'[i])
  <2> HIDE DEF a
  <2> QED
    BY <1>1, <1>3, <1>4, Typing DEF IInv
<1>6. \A s \in Tabs : Shows(page[s], attempts')
  <2> HIDE DEF a
  <2> QED
    BY <1>1, <1>4 DEF IInv, Shows
<1>7. DetailsFollowConsent'
  <2> HIDE DEF a
  <2> QED
    BY <1>1, <1>2, <1>3, <1>4, Typing DEF IInv, DetailsFollowConsent
<1>8. p \in Pages /\ Shows(p, attempts')
  <2>1. Blank \in Pages /\ Blank.attempt = 0
    BY WizardAssumption DEF Blank, Pages, Silent, Spoken
  <2>2. p \in Pages /\ p.attempt = 0
    BY <2>1 DEF Pages
  <2>3. n \in Nat
    BY <1>1
  <2> HIDE DEF p, a, n
  <2> QED
    BY <1>4, <2>2, <2>3 DEF Shows
<1>9. /\ \A s \in Tabs : Shows(page'[s], attempts')
      /\ page' \in [Tabs -> [step : 0 .. 6, attempt : 0 .. Len(attempts'),
                             region : Regions \cup {None}, voice : Spoken, ready : BOOLEAN]]
  <2> HIDE DEF a, p
  <2> QED
    BY <1>1, <1>2, <1>4, <1>6, <1>8, PageKeeps
<1>10. /\ session' \in [attempt : 0 .. Len(attempts'), user : BOOLEAN]
       /\ session'.attempt # 0 /\ session'.user = session.user
  <2>1. session' = [attempt |-> n, user |-> session.user] /\ session.user \in BOOLEAN
    BY <1>1, <1>2 DEF TypeOK
  <2>2. n \in 0 .. Len(attempts') /\ n # 0
    BY <1>1, <1>4
  <2> HIDE DEF n
  <2> QED
    BY <2>1, <2>2
<1>11. task' \in [Tabs -> TaskTypes(Len(attempts'))]
  BY <1>1, <1>2, <1>4 DEF TypeOK, TaskTypes
<1>12. \A s \in Tabs : Holds(s)'
  BY <1>2, <1>10 DEF IInv, Holds
<1>13. TypeOK'
  <2>1. Len(attempts') <= MaxAttempts
    BY <1>1, <1>4, WizardAssumption
  <2> HIDE DEF a, n, p
  <2> QED
    BY <1>1, <1>2, <1>4, <1>9, <1>10, <1>11, <2>1 DEF TypeOK, TaskTypes
<1>14. VoiceIsKept'
  BY <1>2 DEF IInv, VoiceIsKept
<1> QED
  BY <1>5, <1>7, <1>9, <1>12, <1>13, <1>14 DEF IInv

LEMMA GenerateKeeps ==
  ASSUME IInv, NEW t \in Tabs, Generate(t)
  PROVE  IInv'
<1> DEFINE r == [region |-> Loaded.region, voice |-> Loaded.voice, seed |-> Loaded.seed]
<1>1. TypeOK /\ Loaded \in Attempts /\ SeedIsVoice(Loaded) /\ NoNewSeed(Loaded)
  BY LoadedFits DEF IInv
<1>2. /\ rows' = Append(rows, r)
      /\ UNCHANGED <<session, vault, consents, attempts, page, task, submits, crashes>>
  BY DEF Generate
<1>3. rows \in Seq(Rows) /\ r \in Rows /\ \A f \in Fields : Follows(r.voice, r.seed, f)
  BY <1>1 DEF TypeOK, Rows, Attempts, SeedIsVoice
<1>4. /\ rows' \in Seq(Rows) /\ DOMAIN rows' = 1 .. Len(rows) + 1 /\ Len(rows) \in Nat
      /\ rows'[Len(rows) + 1] = r /\ \A i \in 1 .. Len(rows) : rows'[i] = rows[i]
      /\ DOMAIN rows = 1 .. Len(rows)
  <2> HIDE DEF r
  <2> QED
    BY <1>2, <1>3, AppendProperties
<1>5. VoiceIsKept'
  <2> HIDE DEF r
  <2> QED
    BY <1>3, <1>4 DEF IInv, VoiceIsKept
<1>6. TypeOK'
  BY <1>1, <1>2, <1>4 DEF TypeOK, Rows
<1>7. (\A i \in DOMAIN attempts : SeedIsVoice(attempts[i]))' /\ DetailsFollowConsent'
  BY <1>2, StillSays
<1>8. (\A s \in Tabs : Holds(s) /\ Shows(page[s], attempts))'
  BY <1>2 DEF IInv, Holds
<1> QED
  BY <1>5, <1>6, <1>7, <1>8 DEF IInv

(* Nobody logs in while a request of the session is under way, and a dead  *)
(* worker's requests are gone.                                             *)
LEMMA OthersKeep ==
  ASSUME IInv,
         \/ \E v \in Vaults : LogIn(v)
         \/ Crash
         \/ UNCHANGED vars
  PROVE  IInv'
<1>1. TypeOK
  BY DEF IInv
<1>2. /\ UNCHANGED <<attempts, consents, page, rows>>
      /\ session' = session \/ \A t \in Tabs : task'[t].pc = "idle"
      /\ task' = task \/ \A t \in Tabs : task'[t].pc = "idle"
  BY <1>1 DEF LogIn, Crash, vars, TypeOK, Idle
<1>3. \A s \in Tabs : Holds(s)'
  BY <1>2 DEF IInv, Holds
<1>4. (\A i \in DOMAIN attempts : SeedIsVoice(attempts[i]))' /\ DetailsFollowConsent'
  BY <1>2, StillSays
<1>5. (\A s \in Tabs : Shows(page[s], attempts))' /\ VoiceIsKept'
  BY <1>2 DEF IInv, VoiceIsKept
<1>6. TypeOK'
  <2>1. ASSUME NEW v \in Vaults, LogIn(v)
        PROVE  TypeOK'
    BY <1>1, <2>1, Typing, WizardAssumption DEF TypeOK, LogIn
  <2>2. CASE Crash
    <3>1. task' = [t \in Tabs |-> Idle] /\ Idle \in TaskTypes(Len(attempts))
      BY <1>1, <2>2, Typing DEF Crash, Idle, TaskTypes, Consents
    <3>2. crashes' \in 0 .. MaxCrashes
      BY <1>1, <2>2, WizardAssumption DEF Crash, TypeOK
    <3>3. UNCHANGED <<session, vault, consents, attempts, page, rows, submits>>
      BY <2>2 DEF Crash
    <3> QED
      BY <1>1, <3>1, <3>2, <3>3 DEF TypeOK, TaskTypes
  <2>3. CASE UNCHANGED vars
    BY <1>1, <2>3 DEF TypeOK, vars
  <2> QED
    BY <2>1, <2>2, <2>3
<1> QED
  BY <1>3, <1>4, <1>5, <1>6 DEF IInv

(***************************************************************************)
(* The specification                                                       *)
(***************************************************************************)
LEMMA InvInit == Init => IInv
<1> SUFFICES ASSUME Init PROVE IInv
  OBVIOUS
<1>1. attempts = <<>> /\ Len(attempts) = 0 /\ DOMAIN attempts = {}
  BY DEF Init
<1>2. PICK v \in Spoken : rows = <<[region |-> Default, voice |-> v, seed |-> Unseeded]>>
  BY DEF Init
<1>3. rows \in Seq(Rows) /\ VoiceIsKept
  BY <1>2, WizardAssumption DEF Rows, VoiceIsKept, Follows, Seeds, Unseeded
<1>4. TypeOK
  BY <1>1, <1>3, WizardAssumption
  DEF Init, TypeOK, Rows, Attempts, Blank, Idle, Consents, NoVault, Silent, Spoken
<1>5. \A t \in Tabs : Holds(t) /\ Shows(page[t], attempts)
  BY <1>1 DEF Init, Holds, Shows, Blank, Idle
<1> QED
  BY <1>1, <1>3, <1>4, <1>5 DEF IInv, DetailsFollowConsent

LEMMA InvStep == IInv /\ [Next]_vars => IInv'
<1> SUFFICES ASSUME IInv, [Next]_vars PROVE IInv'
  OBVIOUS
<1>1. ASSUME NEW t \in Tabs, NEW step \in 1 .. 6, Open(t, step) PROVE IInv'
  BY <1>1, OpenKeeps
<1>2. ASSUME NEW t \in Tabs, NEW from \in 0 .. Len(rows), New(t, from) PROVE IInv'
  BY <1>2, NewKeeps
<1>3. ASSUME NEW t \in Tabs,
             \/ \E region \in Regions : SaveStep1(t, region)
             \/ \E document \in BOOLEAN : SaveStep4(t, document)
             \/ SaveStep5(t)
      PROVE  IInv'
  BY <1>3, SaveStepsKeep
<1>4. ASSUME NEW t \in Tabs, NEW filled \in SUBSET {"name", "contact"}, SaveStep2(t, filled) PROVE IInv'
  BY <1>4, SaveStep2Keeps
<1>5. ASSUME NEW t \in Tabs, NEW voice \in Spoken, SaveStep3(t, voice) PROVE IInv'
  BY <1>5, SaveStep3Keeps
<1>6. ASSUME NEW t \in Tabs,
             RecordConsents(t) \/ StoreDetails(t) \/ StoreVault(t) \/ Generate(t)
      PROVE  IInv'
  BY <1>6, RecordConsentsKeeps, StoreDetailsKeeps, StoreVaultKeeps, GenerateKeeps
<1>7. ASSUME \/ \E v \in Vaults : LogIn(v)
             \/ Crash
             \/ UNCHANGED vars
      PROVE  IInv'
  BY <1>7, OthersKeep
<1> QED
  BY <1>1, <1>2, <1>3, <1>4, <1>5, <1>6, <1>7 DEF Next

(* What the requests and the pages of a session still know, whatever its   *)
(* other tabs have done since.                                             *)
THEOREM InvariantHolds == Spec => []IInv
BY InvInit, InvStep, PTL DEF Spec

(* Attempts, tabs, consents and the session keep their types, whatever the *)
(* order of pages and saves (wizard.py enforces none).                     *)
THEOREM TypeCorrect == Spec => []TypeOK
BY InvariantHolds, PTL DEF IInv

(* A user's details are in the attempt only when the consents that the     *)
(* region they were entered for asks for, and the age, are on record.      *)
THEOREM ConsentComesFirst == Spec => []DetailsFollowConsent
BY InvariantHolds, PTL DEF IInv

(* A CV tailored from a saved one has its voice in every field that the    *)
(* user left alone; only a shared field that was empty there may have been *)
(* filled from the vault.                                                  *)
THEOREM SeedReachesTheCv == Spec => []VoiceIsKept
BY InvariantHolds, PTL DEF IInv
=============================================================================
