--------------------------- MODULE AccountsProofs ---------------------------
(***************************************************************************)
(* Proofs about Accounts for any accounts, browsers, passwords, attempts   *)
(* and any number of requests in flight.                                   *)
(***************************************************************************)
EXTENDS Accounts, TLAPS

(***************************************************************************)
(* Types of the parts                                                      *)
(***************************************************************************)
LEMMA NotWizard == None # "wizard"
BY AccountsAssumption DEF Forms

LEMMA Blanks ==
  /\ LoggedOut \in Blob /\ Idle \in Task
  /\ \A u \in Users : SeedOf(u) \in Pii
BY DEF LoggedOut, Idle, Blob, Task, SeedOf, Pii

LEMMA LogInType ==
  ASSUME NEW blob \in Blob, NEW u \in Users, NEW pii \in Pii, NEW key \in Key
  PROVE  /\ LogIn(blob, u, pii, key) \in Blob
         /\ LogIn(blob, u, pii, key).user = u /\ LogIn(blob, u, pii, key).pii = pii
         /\ LogIn(blob, u, pii, key).attempt = blob.attempt
         /\ key # Server => SessionKey(LogIn(blob, u, pii, key)) = key
BY AccountsAssumption DEF LogIn, Blob, Key, SessionKey

Replaced(old, pii) == [old EXCEPT !.pii = pii]

LEMMA ReplacedType ==
  ASSUME NEW old \in Blob, NEW pii \in Pii
  PROVE  /\ Replaced(old, pii) \in Blob /\ Replaced(old, pii).user = old.user
         /\ Replaced(old, pii).pii = pii /\ Replaced(old, pii).attempt = old.attempt
         /\ SessionKey(Replaced(old, pii)) = SessionKey(old)
BY DEF Blob, SessionKey, Replaced

Moved(old, a) == [old EXCEPT !.attempt = a]

LEMMA MovedType ==
  ASSUME NEW old \in Blob, NEW a \in Attempts
  PROVE  /\ Moved(old, a) \in Blob /\ Moved(old, a).user = old.user
         /\ Moved(old, a).pii = old.pii /\ Moved(old, a).attempt = a
         /\ SessionKey(Moved(old, a)) = SessionKey(old)
BY DEF Blob, SessionKey, Moved

LEMMA AnswerType ==
  ASSUME TypeOK, NEW t \in Tasks, NEW b \in Browsers \union {None}, NEW blob \in Blob,
         Answer(t, b, blob)
  PROVE  /\ task' \in [Tasks -> Task]
         /\ task'[t].pc = "respond" /\ task'[t].blob = blob /\ task'[t].browser = b
         /\ task'[t].form = None
         /\ \A q \in Tasks \ {t} : task'[q] = task[q]
<1>1. [Idle EXCEPT !.pc = "respond", !.browser = b, !.blob = blob] \in Task
  BY Blanks DEF Task, Idle
<1> QED
  BY <1>1 DEF Answer, TypeOK, Idle

LEMMA FinishType ==
  ASSUME TypeOK, NEW t \in Tasks, Finish(t)
  PROVE  task' \in [Tasks -> Task] /\ task'[t] = Idle
         /\ \A q \in Tasks \ {t} : task'[q] = task[q]
BY Blanks DEF Finish, TypeOK

LEMMA StartType ==
  ASSUME TypeOK, NEW t \in Tasks, NEW b \in Browsers, NEW u \in Users \union {None},
         NEW key \in Key \union {None}, NEW form \in Forms \union {None},
         NEW step \in {"unlock", "seed", "save", "backfill", "recover", "delete"},
         Start(t, step, b, u, key, form)
  PROVE  /\ task' \in [Tasks -> Task]
         /\ task'[t] = [pc |-> step, browser |-> b, user |-> u, blob |-> row[b],
                        key |-> key, form |-> form]
         /\ \A q \in Tasks \ {t} : task'[q] = task[q]
<1>1. row[b] \in Blob
  BY DEF TypeOK
<1>2. [pc |-> step, browser |-> b, user |-> u, blob |-> row[b],
       key |-> key, form |-> form] \in Task
  BY <1>1 DEF Task
<1> QED
  BY <1>2 DEF Start, TypeOK

LEMMA UpsertType ==
  ASSUME TypeOK, NEW u \in Users, NEW key \in Key, NEW pii \in Pii, Upsert(u, key, pii)
  PROVE  /\ vault' \in [Users -> Vault \union {None}]
         /\ vault'[u] = [key |-> key, pii |-> pii] /\ vault'[u] \in Vault
         /\ \A w \in Users \ {u} : vault'[w] = vault[w]
<1>1. [key |-> key, pii |-> pii] \in Vault
  BY DEF Vault
<1> QED
  BY <1>1 DEF Upsert, TypeOK

(***************************************************************************)
(* What stays as it is keeps its part of the invariant                     *)
(***************************************************************************)
Grows ==
  /\ exists \subseteq exists' /\ provider \subseteq provider' /\ changed \subseteq changed'
  /\ \A u \in Users : vault[u] \in Vault => vault'[u] \in Vault
  /\ \A u \in exists \ changed' : hash'[u] = hash[u]
  /\ \A a \in Attempts : /\ used[a] \subseteq used'[a]
                         /\ holds[a] # None => holds'[a] # None /\ holds[a] \subseteq holds'[a]

Stored ==
  \A a \in Attempts : /\ used[a] \subseteq used'[a]
                      /\ holds[a] # None => holds'[a] # None /\ holds[a] \subseteq holds'[a]

(* What is known stays known. *)
LEMMA KnownKept ==
  ASSUME TypeOK, Grows
  PROVE  \A u, pii : Known(u, pii) => Known(u, pii)'
BY DEF Grows, Known, Made

LEMMA SessionKept ==
  ASSUME TypeOK, Grows, NEW blob, SessionFits(blob)
  PROVE  SessionFits(blob)'
BY KnownKept DEF TypeOK, Grows, SessionFits, OwnData, Loyal, SessionKey, Made

LEMMA RowKept ==
  ASSUME IInv, Grows, NEW b \in Browsers, row'[b] = row[b]
  PROVE  SessionFits(row[b])'
BY DEF IInv, TypeOK, Grows, SessionFits, OwnData, Loyal, SessionKey, Made, Known

LEMMA TaskKept ==
  ASSUME IInv, Grows, NEW t \in Tasks, task'[t] = task[t]
  PROVE  TaskFits(task[t])'
<1>1. TaskFits(task[t]) /\ task[t] \in Task /\ exists \subseteq Users
  BY DEF IInv, TypeOK
<1>2. SessionFits(task[t].blob)'
  BY <1>1 DEF IInv, TypeOK, Grows, TaskFits, SessionFits, OwnData, Loyal, SessionKey, Made, Known
<1>3. (task[t].pc \in {"unlock", "seed"} =>
         task[t].user \in exists /\ task[t].key \in Key /\ Loyal(task[t].user, task[t].key))'
  BY <1>1 DEF Grows, TaskFits, Loyal
<1>4. (task[t].pc = "backfill" \/ task[t].form = "wizard" => Made(task[t].blob.attempt))'
  BY <1>1 DEF Grows, TaskFits, Made
<1> QED
  BY <1>1, <1>2, <1>3, <1>4 DEF TaskFits

LEMMA VaultKept ==
  ASSUME IInv, Grows, NEW u \in Users, vault'[u] = vault[u]
  PROVE  VaultFits(u)'
BY DEF IInv, TypeOK, Grows, VaultFits, Loyal, Known, Made

(* What a request works with. *)
LEMMA TaskFacts ==
  ASSUME IInv, NEW t \in Tasks, task[t].pc # "idle"
  PROVE  /\ task[t] \in Task /\ task[t].blob \in Blob /\ SessionFits(task[t].blob)
         /\ task[t].browser \in Browsers
         /\ task[t].pc \in {"unlock", "seed"} =>
              /\ task[t].user \in Users /\ task[t].user \in exists /\ task[t].key \in Key
              /\ Loyal(task[t].user, task[t].key)
         /\ task[t].pc \in {"save", "backfill", "recover", "delete"} /\ task[t].user # None =>
              /\ task[t].user \in Users /\ task[t].user \in exists
              /\ task[t].user = task[t].blob.user
              /\ task[t].blob.pii \in Pii /\ Known(task[t].user, task[t].blob.pii)
              /\ SessionKey(task[t].blob) \in Key
              /\ Loyal(task[t].user, SessionKey(task[t].blob))
         /\ task[t].pc \in {"backfill", "recover", "delete"} => task[t].user # None
         /\ task[t].pc = "save" => task[t].form \in Forms
         /\ task[t].pc = "save" /\ task[t].form # "wizard" => task[t].user # None
         /\ task[t].pc = "backfill" \/ task[t].form = "wizard" =>
              /\ task[t].blob.attempt \in Attempts /\ holds[task[t].blob.attempt] \in Pii
              /\ Made(task[t].blob.attempt)
<1>1. task[t] \in Task /\ TaskFits(task[t]) /\ exists \subseteq Users
  BY DEF IInv, TypeOK
<1>2. task[t].blob \in Blob
  BY <1>1 DEF Task
<1>3. SessionKey(task[t].blob) \in Key
  BY <1>2 DEF SessionKey, Blob, Key
<1>4. task[t].pc = "backfill" \/ task[t].form = "wizard" =>
        /\ task[t].blob.attempt \in Attempts /\ holds[task[t].blob.attempt] \in Pii
        /\ Made(task[t].blob.attempt)
  BY <1>1 DEF TaskFits, Made, IInv, TypeOK
<1> QED
  BY <1>1, <1>2, <1>3, <1>4 DEF TaskFits, SessionFits, OwnData

(***************************************************************************)
(* The invariant after a step                                              *)
(***************************************************************************)
(* It is enough to look at what the step replaces. *)
LEMMA Assemble ==
  ASSUME IInv, TypeOK', Grows,
         \A b \in Browsers : row'[b] = row[b] \/ SessionFits(row[b])',
         \A t \in Tasks : task'[t] = task[t] \/ TaskFits(task[t])',
         \A u \in Users : vault'[u] = vault[u] \/ VaultFits(u)'
  PROVE  IInv'
<1>1. \A b \in Browsers : SessionFits(row[b])'
  BY RowKept
<1>2. \A t \in Tasks : TaskFits(task[t])'
  BY TaskKept
<1>3. \A u \in Users : VaultFits(u)'
  BY VaultKept
<1> QED
  BY <1>1, <1>2, <1>3 DEF IInv

LEMMA IdleFits ==
  ASSUME NEW t \in Tasks, task'[t] = Idle
  PROVE  TaskFits(task[t])'
BY NotWizard DEF TaskFits, SessionFits, OwnData, Idle, LoggedOut

(* A request that has just begun holds the session as it is. *)
LEMMA StartFits ==
  ASSUME IInv, Grows, NEW t \in Tasks, NEW b \in Browsers,
         row'[b] = row[b], task'[t].blob = row[b]
  PROVE  SessionFits(task[t].blob)'
<1>1. SessionFits(row[b])'
  BY RowKept
<1> QED
  BY <1>1 DEF SessionFits, OwnData, Loyal, SessionKey, Known, Made

(* A session that is logged in. *)
LEMMA RowFacts ==
  ASSUME IInv, NEW b \in Browsers
  PROVE  /\ row[b] \in Blob /\ SessionFits(row[b])
         /\ row[b].user # None => row[b].user \in Users /\ row[b].user \in exists
BY DEF IInv, TypeOK, SessionFits

(* A request of a session that is logged in, or, in the wizard, of a guest. *)
LEMMA RequestStarts ==
  ASSUME IInv, requests' \in Nat, NEW t \in Tasks, NEW b \in Browsers, NEW u \in {row[b].user, None},
         NEW step \in {"save", "backfill", "recover", "delete"},
         NEW form \in Forms \union {None}, step = "save" => form \in Forms,
         u # None \/ (step = "save" /\ form = "wizard"),
         step = "backfill" \/ form = "wizard" => row[b].attempt # None,
         Start(t, step, b, u, None, form),
         UNCHANGED <<exists, hash, vault, row, store, history>>
  PROVE  IInv'
<1>1. u \in Users \union {None} /\ TypeOK
  BY RowFacts DEF IInv
<1>2. /\ task' \in [Tasks -> Task]
      /\ task'[t] = [pc |-> step, browser |-> b, user |-> u, blob |-> row[b],
                     key |-> None, form |-> form]
      /\ \A q \in Tasks \ {t} : task'[q] = task[q]
  BY <1>1, StartType DEF Start
<1>3. TypeOK' /\ Grows
  BY <1>1, <1>2 DEF TypeOK, Grows, history, store
<1>4. SessionFits(task[t].blob)'
  BY <1>2, <1>3, StartFits DEF history
<1>5. row[b].attempt # None => Made(row[b].attempt)
  BY RowFacts DEF SessionFits
<1>6. (task[t].pc = "backfill" \/ task[t].form = "wizard" => Made(task[t].blob.attempt))'
  BY <1>2, <1>5 DEF Made, store
<1>7. TaskFits(task[t])'
  BY <1>1, <1>2, <1>4, <1>6 DEF TaskFits
<1> QED
  BY <1>2, <1>3, <1>7, Assemble DEF history

(* A request that ends, having changed no session. *)
LEMMA Ends ==
  ASSUME IInv, requests' \in Nat, NEW t \in Tasks, Finish(t), UNCHANGED <<exists, hash, vault, row, store, history>>
  PROVE  IInv'
<1>1. TypeOK
  BY DEF IInv
<1>2. /\ task' \in [Tasks -> Task] /\ task'[t] = Idle
      /\ \A q \in Tasks \ {t} : task'[q] = task[q]
  BY <1>1, FinishType
<1>3. TypeOK' /\ Grows
  BY <1>1, <1>2 DEF TypeOK, Grows, history, store
<1> QED
  BY <1>2, <1>3, IdleFits, Assemble DEF history

(***************************************************************************)
(* Signing up and logging in                                               *)
(***************************************************************************)
LEMMA SignUpKeeps ==
  ASSUME IInv, requests' \in Nat, NEW t \in Tasks, NEW b \in Browsers, NEW u \in Users, NEW p \in Passwords,
         SignUp(t, b, u, p)
  PROVE  IInv'
<1>1. TypeOK /\ p \in Key /\ p # Server
  BY AccountsAssumption DEF IInv, Key
<1>2. /\ task' \in [Tasks -> Task]
      /\ task'[t] = [pc |-> "seed", browser |-> b, user |-> u, blob |-> row[b],
                     key |-> p, form |-> None]
      /\ \A q \in Tasks \ {t} : task'[q] = task[q]
  BY <1>1, StartType DEF SignUp
<1>3. TypeOK' /\ Grows /\ u \in exists' /\ hash'[u] = p
  BY <1>1, <1>2 DEF SignUp, TypeOK, Grows, history, store
<1>4. SessionFits(task[t].blob)'
  BY <1>2, <1>3, StartFits DEF SignUp
<1>5. TaskFits(task[t])'
  BY <1>1, <1>2, <1>3, <1>4, NotWizard DEF TaskFits, Loyal
<1> QED
  BY <1>2, <1>3, <1>5, Assemble DEF SignUp

LEMMA PasswordLoginKeeps ==
  ASSUME IInv, requests' \in Nat, NEW t \in Tasks, NEW b \in Browsers, NEW u \in Users, PasswordLogin(t, b, u)
  PROVE  IInv'
<1>1. TypeOK /\ hash[u] \in Passwords /\ hash[u] \in Key /\ hash[u] # Server
  BY AccountsAssumption DEF IInv, TypeOK, Key, PasswordLogin
<1>2. /\ task' \in [Tasks -> Task]
      /\ task'[t] = [pc |-> "unlock", browser |-> b, user |-> u, blob |-> row[b],
                     key |-> hash[u], form |-> None]
      /\ \A q \in Tasks \ {t} : task'[q] = task[q]
  BY <1>1, StartType DEF PasswordLogin, Start
<1>3. TypeOK' /\ Grows
  BY <1>1, <1>2 DEF PasswordLogin, TypeOK, Grows, history, store
<1>4. SessionFits(task[t].blob)'
  BY <1>2, <1>3, StartFits DEF PasswordLogin
<1>5. TaskFits(task[t])'
  BY <1>1, <1>2, <1>3, <1>4, NotWizard DEF TaskFits, Loyal, PasswordLogin, history
<1> QED
  BY <1>2, <1>3, <1>5, Assemble DEF PasswordLogin, history

LEMMA ProviderLoginKeeps ==
  ASSUME IInv, requests' \in Nat, NEW t \in Tasks, NEW b \in Browsers, NEW u \in Users, ProviderLogin(t, b, u)
  PROVE  IInv'
<1>1. TypeOK /\ Server \in Key
  BY DEF IInv, Key
<1>2. /\ task' \in [Tasks -> Task]
      /\ task'[t] = [pc |-> "unlock", browser |-> b, user |-> u, blob |-> row[b],
                     key |-> Server, form |-> None]
      /\ \A q \in Tasks \ {t} : task'[q] = task[q]
  BY <1>1, StartType DEF ProviderLogin
<1>3. TypeOK' /\ Grows /\ u \in exists' /\ u \in provider'
  BY <1>1, <1>2 DEF ProviderLogin, TypeOK, Grows, store
<1>4. SessionFits(task[t].blob)'
  BY <1>2, <1>3, StartFits DEF ProviderLogin
<1>5. TaskFits(task[t])'
  BY <1>1, <1>2, <1>3, <1>4, NotWizard DEF TaskFits, Loyal
<1> QED
  BY <1>2, <1>3, <1>5, Assemble DEF ProviderLogin

(* A login that answers: the account's vault exists by now. *)
LEMMA LoggedIn ==
  ASSUME IInv, Grows, NEW t \in Tasks, NEW old \in Blob, NEW u \in Users, u \in exists,
         old.attempt # None => Made(old.attempt), NEW pii \in Pii, Known(u, pii), NEW key \in Key, Loyal(u, key), vault'[u] \in Vault,
         task'[t].pc = "respond", task'[t].form = None, task'[t].browser \in Browsers,
         task'[t].blob = LogIn(old, u, pii, key)
  PROVE  TaskFits(task[t])'
<1>1. PICK blob \in Blob :
        /\ blob = LogIn(old, u, pii, key) /\ blob.user = u /\ blob.pii = pii
        /\ blob.attempt = old.attempt
        /\ key # Server => SessionKey(blob) = key
  BY LogInType
<1>2. PICK kept \in Key : kept = SessionKey(blob) /\ (key # Server => kept = key)
  BY <1>1 DEF SessionKey, Blob, Key
<1>3. Loyal(u, kept)
  BY <1>2 DEF Loyal
<1>4. Loyal(u, kept)'
  BY <1>3 DEF Grows, Loyal
<1>5. u # None
  BY AccountsAssumption
<1>6. Known(u, pii)' /\ (blob.attempt # None => Made(blob.attempt)')
  BY <1>1, KnownKept DEF IInv, Grows, Made
<1>7. SessionFits(task[t].blob)'
  BY <1>1, <1>2, <1>4, <1>5, <1>6 DEF Grows, SessionFits, OwnData, SessionKey, Loyal, Known, Made
<1> QED
  BY <1>7, NotWizard DEF TaskFits

LEMMA UnlockKeeps ==
  ASSUME IInv, requests' \in Nat, NEW t \in Tasks, Unlock(t)
  PROVE  IInv'
<1>1. TypeOK /\ task[t].pc = "unlock"
  BY DEF IInv, Unlock
<1>2. PICK u \in Users, key \in Key, old \in Blob, b \in Browsers :
        /\ u = task[t].user /\ key = task[t].key /\ old = task[t].blob /\ b = task[t].browser
        /\ u \in exists /\ Loyal(u, key)
        /\ old.attempt # None => Made(old.attempt)
  BY <1>1, TaskFacts DEF Loyal, SessionFits
<1>3. CASE Opens(u, key)
  <2>1. PICK pii \in Pii : pii = vault[u].pii /\ Known(u, pii)
    BY <1>1, <1>2, <1>3 DEF Opens, TypeOK, Vault, IInv, VaultFits
  <2>2. Answer(t, b, LogIn(old, u, pii, key))
    BY <1>2, <1>3, <2>1 DEF Unlock, Opens
  <2>3. LogIn(old, u, pii, key) \in Blob
    BY LogInType
  <2>4. /\ task' \in [Tasks -> Task] /\ task'[t].pc = "respond" /\ task'[t].browser = b
        /\ task'[t].blob = LogIn(old, u, pii, key) /\ task'[t].form = None
        /\ \A q \in Tasks \ {t} : task'[q] = task[q]
    BY <1>1, <2>2, <2>3, AnswerType
  <2>5. TypeOK' /\ Grows /\ vault'[u] \in Vault
    BY <1>1, <1>3, <2>4 DEF Unlock, Opens, TypeOK, Grows, history, store
  <2>6. TaskFits(task[t])'
    BY <1>2, <2>1, <2>4, <2>5, LoggedIn
  <2> QED
    BY <2>4, <2>5, <2>6, Assemble DEF Unlock
<1>4. CASE ~Opens(u, key)
  <2>1. task' = [task EXCEPT ![t].pc = "seed"]
    BY <1>2, <1>4 DEF Unlock, Opens
  <2>2. task[t] \in Task
    BY <1>1 DEF TypeOK
  <2>3. [task[t] EXCEPT !.pc = "seed"] \in Task
    BY <2>2 DEF Task
  <2>4. /\ task' \in [Tasks -> Task] /\ task'[t] = [task[t] EXCEPT !.pc = "seed"]
        /\ \A q \in Tasks \ {t} : task'[q] = task[q]
    BY <1>1, <2>1, <2>3 DEF TypeOK
  <2>5. TypeOK' /\ Grows
    BY <1>1, <2>4 DEF Unlock, TypeOK, Grows, history, store
  <2>6. SessionFits(task[t].blob)
    BY <1>1, TaskFacts
  <2>7. /\ task'[t].pc = "seed" /\ task'[t].blob = old /\ task'[t].user = u
        /\ task'[t].key = key /\ task'[t].browser = b
    BY <1>2, <2>2, <2>4 DEF Task
  <2>8. SessionFits(task[t].blob)'
    BY <1>2, <2>5, <2>6, <2>7 DEF Unlock, SessionFits, OwnData, Loyal, SessionKey, history, store,
                                  Known, Made
  <2>9. TaskFits(task[t])'
    <3>1. task'[t].form = task[t].form /\ task'[t].blob = task[t].blob
      BY <2>2, <2>4 DEF Task
    <3>2. task[t].form = "wizard" => Made(task[t].blob.attempt)
      BY <1>1, TaskFacts
    <3>3. (task[t].form = "wizard" => Made(task[t].blob.attempt))'
      BY <3>1, <3>2 DEF Unlock, Made, store
    <3> QED
      BY <1>2, <2>7, <2>8, <3>3 DEF Unlock, TaskFits, Loyal, history
  <2> QED
    BY <2>4, <2>5, <2>9, Assemble DEF Unlock
<1> QED
  BY <1>3, <1>4

LEMMA SeedVaultKeeps ==
  ASSUME IInv, requests' \in Nat, NEW t \in Tasks, SeedVault(t)
  PROVE  IInv'
<1>1. TypeOK /\ task[t].pc = "seed"
  BY DEF IInv, SeedVault
<1>2. PICK u \in Users, key \in Key, old \in Blob, b \in Browsers :
        /\ u = task[t].user /\ key = task[t].key /\ old = task[t].blob /\ b = task[t].browser
        /\ u \in exists /\ Loyal(u, key)
        /\ old.attempt # None => Made(old.attempt)
  BY <1>1, TaskFacts DEF Loyal, SessionFits
<1>3. SeedOf(u) \in Pii /\ Known(u, SeedOf(u))
  BY Blanks DEF SeedOf, Known
<1>4. Upsert(u, key, SeedOf(u)) /\ Answer(t, b, LogIn(old, u, SeedOf(u), key))
  BY <1>2 DEF SeedVault, Upsert
<1>5. LogIn(old, u, SeedOf(u), key) \in Blob
  BY <1>3, LogInType
<1>6. /\ task' \in [Tasks -> Task] /\ task'[t].pc = "respond" /\ task'[t].browser = b
      /\ task'[t].blob = LogIn(old, u, SeedOf(u), key) /\ task'[t].form = None
      /\ \A q \in Tasks \ {t} : task'[q] = task[q]
  BY <1>1, <1>4, <1>5, AnswerType
<1>7. /\ vault' \in [Users -> Vault \union {None}] /\ vault'[u] = [key |-> key, pii |-> SeedOf(u)]
      /\ vault'[u] \in Vault /\ \A w \in Users \ {u} : vault'[w] = vault[w]
  BY <1>1, <1>3, <1>4, UpsertType
<1>8. TypeOK' /\ Grows
  BY <1>1, <1>6, <1>7 DEF SeedVault, TypeOK, Grows, history, store
<1>9. TaskFits(task[t])'
  BY <1>2, <1>3, <1>6, <1>7, <1>8, LoggedIn
<1>10. VaultFits(u)'
  <2>1. Known(u, SeedOf(u))'
    BY DEF SeedOf, Known
  <2> QED
    BY <1>2, <1>3, <1>7, <2>1 DEF SeedVault, VaultFits, Loyal, history, SeedOf, Known, Made
<1> QED
  BY <1>6, <1>7, <1>8, <1>9, <1>10, Assemble DEF SeedVault

LEMMA LogOutKeeps ==
  ASSUME IInv, requests' \in Nat, NEW t \in Tasks, NEW b \in Browsers, LogOut(t, b)
  PROVE  IInv'
<1> DEFINE blob == [row[b] EXCEPT !.user = None, !.pii = None]
<1>1. TypeOK /\ row[b] \in Blob
  BY RowFacts DEF IInv
<1>2. /\ blob \in Blob /\ blob.user = None /\ blob.pii = None
      /\ blob.attempt # None => Made(blob.attempt)
  BY <1>1, RowFacts DEF Blob, SessionFits
<1>3. /\ task' \in [Tasks -> Task] /\ task'[t].pc = "respond" /\ task'[t].browser = b
      /\ task'[t].blob = blob /\ task'[t].form = None
      /\ \A q \in Tasks \ {t} : task'[q] = task[q]
  BY <1>1, <1>2, AnswerType DEF LogOut, Answer
<1>4. TypeOK' /\ Grows
  BY <1>1, <1>3 DEF LogOut, TypeOK, Grows, history, store
<1>5. (blob.attempt # None => Made(blob.attempt)) => (task[t].blob.attempt # None => Made(task[t].blob.attempt))'
  BY <1>3 DEF LogOut, Made, store
<1> HIDE DEF blob
<1>6. task'[t].blob.user = None /\ task'[t].blob.pii = None /\ task'[t].form = None
      /\ task'[t].pc = "respond" /\ task'[t].browser \in Browsers
  BY <1>2, <1>3
<1>7. TaskFits(task[t])'
  BY <1>2, <1>5, <1>6, NotWizard DEF TaskFits, SessionFits, OwnData
<1> QED
  BY <1>3, <1>4, <1>7, Assemble DEF LogOut

(* A new attempt has nobody's data. *)
LEMMA NewAttemptKeeps ==
  ASSUME IInv, requests' \in Nat, NEW t \in Tasks, NEW b \in Browsers, NewAttempt(t, b)
  PROVE  IInv'
<1>1. /\ TypeOK /\ row[b] \in Blob /\ SessionFits(row[b])
      /\ UNCHANGED <<exists, hash, vault, row, used, history>>
  BY RowFacts DEF IInv, NewAttempt
<1>2. PICK a \in Attempts : /\ holds[a] = None /\ holds' = [holds EXCEPT ![a] = {}]
                            /\ Answer(t, b, [row[b] EXCEPT !.attempt = a])
  BY DEF NewAttempt
<1>3. PICK blob \in Blob : /\ blob = Moved(row[b], a) /\ blob.attempt = a
                           /\ blob.user = row[b].user /\ blob.pii = row[b].pii
                           /\ SessionKey(blob) = SessionKey(row[b])
  BY <1>1, MovedType
<1>4. /\ task' \in [Tasks -> Task] /\ task'[t].pc = "respond" /\ task'[t].browser = b
      /\ task'[t].blob = blob /\ task'[t].form = None
      /\ \A q \in Tasks \ {t} : task'[q] = task[q]
  BY <1>1, <1>2, <1>3, AnswerType DEF Moved
<1>5. holds' \in [Attempts -> Pii \union {None}] /\ holds'[a] = {} /\ holds'[a] # None
      /\ \A c \in Attempts \ {a} : holds'[c] = holds[c]
  BY <1>1, <1>2, AccountsAssumption DEF TypeOK, Pii
<1>6. TypeOK'
  BY <1>1, <1>4, <1>5 DEF TypeOK, history
<1>7. Grows
  BY <1>1, <1>2, <1>5 DEF Grows, history
<1>8. (row[b].user # None => Known(row[b].user, row[b].pii)) /\ Made(a)'
  BY <1>1, <1>5 DEF SessionFits, OwnData, Made
<1>9. row[b].user # None => Known(blob.user, blob.pii)'
  BY <1>1, <1>3, <1>7, <1>8, KnownKept
<1>10. SessionFits(task[t].blob)'
  BY <1>1, <1>3, <1>4, <1>8, <1>9 DEF SessionFits, OwnData, Loyal, SessionKey, history, Made, Known
<1>11. TaskFits(task[t])'
  BY <1>4, <1>10, NotWizard DEF TaskFits
<1> QED
  BY <1>1, <1>4, <1>6, <1>7, <1>11, Assemble

(***************************************************************************)
(* Saving personal data                                                    *)
(***************************************************************************)
(* The handlers that write the vault write what the account may know under *)
(* the key of the session they hold; the wizard writes its attempt too.    *)
LEMMA Saved ==
  ASSUME IInv, NEW u \in Users, u \in exists, NEW key \in Key, Loyal(u, key),
         NEW pii \in Pii, Known(u, pii)', Upsert(u, key, pii), UNCHANGED <<exists, hash, history>>,
         Stored
  PROVE  /\ vault' \in [Users -> Vault \union {None}] /\ Grows
         /\ \A w \in Users : vault'[w] = vault[w] \/ VaultFits(w)'
<1>1. TypeOK
  BY DEF IInv
<1>2. /\ vault' \in [Users -> Vault \union {None}] /\ vault'[u] = [key |-> key, pii |-> pii]
      /\ vault'[u] \in Vault /\ \A w \in Users \ {u} : vault'[w] = vault[w]
  BY <1>1, UpsertType
<1>3. Grows
  BY <1>2 DEF Grows, history, Stored
<1>4. vault'[u].pii = pii /\ vault'[u].key = key
  BY <1>2
<1>5. Known(u, vault[u].pii)'
  BY <1>4 DEF Known, Made
<1>6. VaultFits(u)'
  BY <1>4, <1>5 DEF VaultFits, Loyal, history
<1> QED
  BY <1>2, <1>3, <1>6

(* A request that saved and ends. *)
LEMMA SavedEnds ==
  ASSUME IInv, requests' \in Nat, NEW t \in Tasks, Finish(t), UNCHANGED row, Grows,
         exists' \subseteq Users, hash' = hash, UNCHANGED history,
         vault' \in [Users -> Vault \union {None}],
         \A w \in Users : vault'[w] = vault[w] \/ VaultFits(w)',
         holds' \in [Attempts -> Pii \union {None}], used' \in [Attempts -> SUBSET Users]
  PROVE  IInv'
<1>1. TypeOK
  BY DEF IInv
<1>2. /\ task' \in [Tasks -> Task] /\ task'[t] = Idle
      /\ \A q \in Tasks \ {t} : task'[q] = task[q]
  BY <1>1, FinishType
<1>3. TypeOK'
  BY <1>1, <1>2 DEF TypeOK, history
<1> QED
  BY <1>2, <1>3, IdleFits, Assemble

(* What of an attempt comes into a map is known. *)
LEMMA AttemptKnown ==
  ASSUME IInv, Grows, NEW u \in Users, NEW a \in Attempts, Made(a), u \in used'[a],
         NEW pii \in Pii, Known(u, pii), NEW rest, rest \subseteq holds[a]
  PROVE  Known(u, pii \union rest)'
<1>1. Known(u, pii)'
  BY KnownKept DEF IInv
<1>2. Made(a)' /\ holds[a] \subseteq holds'[a]
  BY DEF Grows, Made
<1> QED
  BY <1>1, <1>2 DEF Known, Made

LEMMA MergeKeeps ==
  ASSUME IInv, requests' \in Nat, NEW t \in Tasks, task[t].pc = "save", task[t].form = "wizard",
         NEW rest \in Pii, Merge(task[t], rest), Finish(t), UNCHANGED <<exists, hash, row, history>>
  PROVE  IInv'
<1> DEFINE s == task[t]
<1>1. PICK a \in Attempts : a = s.blob.attempt /\ Made(a) /\ holds[a] \in Pii
  BY TaskFacts
<1>2. /\ TypeOK /\ holds \in [Attempts -> Pii \union {None}] /\ used \in [Attempts -> SUBSET Users]
      /\ \A w \in Users : vault[w] \in Vault \union {None}
      /\ vault \in [Users -> Vault \union {None}] /\ exists \subseteq Users
  BY DEF IInv, TypeOK
<1>3. PICK pii \in Pii :
        /\ pii = IF s.blob.pii = None THEN rest ELSE s.blob.pii \union rest
        /\ rest \subseteq holds[a] /\ holds' = [holds EXCEPT ![a] = @ \union pii]
        /\ IF s.user = None THEN UNCHANGED <<vault, used>>
           ELSE /\ Upsert(s.user, SessionKey(s.blob), pii)
                /\ used' = [used EXCEPT ![a] = @ \union {s.user}]
  <2>1. s.blob.pii = None \/ s.blob.pii \in Pii
    BY TaskFacts DEF Blob
  <2> QED
    BY <1>1, <2>1 DEF Merge, Pii, Upsert
<1>4. /\ holds' \in [Attempts -> Pii \union {None}] /\ holds'[a] # None
      /\ \A c \in Attempts : c # a => holds'[c] = holds[c]
      /\ holds[a] \subseteq holds'[a]
  <2>1. holds[a] \union pii \in Pii
    BY <1>1 DEF Pii
  <2> QED
    BY <1>2, <1>3, <2>1, AccountsAssumption
<1>5. CASE s.user = None
  <2>1. Grows
    BY <1>3, <1>4, <1>5 DEF Grows, history
  <2> QED
    BY <1>2, <1>3, <1>4, <1>5, <2>1, SavedEnds
<1>6. CASE s.user # None
  <2>1. PICK u \in Users, key \in Key, had \in Pii :
          /\ u = s.user /\ key = SessionKey(s.blob) /\ had = s.blob.pii
          /\ u \in exists /\ Loyal(u, key) /\ Known(u, had)
    BY <1>6, TaskFacts DEF Loyal
  <2>2. pii = had \union rest
    BY <1>3, <2>1, AccountsAssumption
  <2>3. /\ used' \in [Attempts -> SUBSET Users] /\ u \in used'[a]
        /\ \A c \in Attempts : used[c] \subseteq used'[c]
    BY <1>2, <1>3, <1>6, <2>1
  <2>4. Upsert(u, key, pii)
    BY <1>3, <1>6, <2>1 DEF Upsert
  <2>5. Stored
    BY <1>4, <2>3 DEF Stored
  <2>6. Grows
    BY <1>2, <2>1, <2>4, <2>5, UpsertType DEF Grows, Stored, history
  <2>7. Known(u, pii)'
    <3>1. Known(u, had \union rest)'
      BY <1>1, <1>3, <2>1, <2>3, <2>6, AttemptKnown
    <3> QED
      BY <2>2, <3>1 DEF Known, Made
  <2>8. /\ vault' \in [Users -> Vault \union {None}]
        /\ \A w \in Users : vault'[w] = vault[w] \/ VaultFits(w)'
    BY <2>1, <2>4, <2>5, <2>7, Saved
  <2> QED
    BY <1>2, <1>4, <2>3, <2>6, <2>8, SavedEnds
<1> QED
  BY <1>5, <1>6

LEMMA SaveKeeps ==
  ASSUME IInv, requests' \in Nat, NEW t \in Tasks, Save(t)
  PROVE  IInv'
<1>1. TypeOK /\ task[t].pc = "save" /\ UNCHANGED <<exists, hash, row, history>>
  BY DEF IInv, Save
<1>2. CASE task[t].form = "wizard"
  BY <1>1, <1>2, MergeKeeps DEF Save
<1>3. CASE task[t].form # "wizard"
  <2>1. PICK u \in Users, key \in Key, old \in Blob, b \in Browsers, pii \in Pii :
          /\ u = task[t].user /\ key = SessionKey(task[t].blob) /\ old = task[t].blob
          /\ b = task[t].browser /\ pii = task[t].blob.pii /\ old.pii = pii
          /\ u \in exists /\ Loyal(u, key) /\ Known(u, pii) /\ old.user = u
          /\ SessionFits(task[t].blob)
    BY <1>1, <1>3, TaskFacts DEF Loyal
  <2>2. Upsert(u, key, pii) /\ UNCHANGED store
    BY <1>3, <2>1 DEF Save, Upsert
  <2>3. Stored
    BY <2>2 DEF Stored, store
  <2>4. Known(u, pii)'
    BY <2>1, <2>2 DEF Known, Made, store
  <2>5. /\ vault' \in [Users -> Vault \union {None}] /\ Grows
        /\ \A w \in Users : vault'[w] = vault[w] \/ VaultFits(w)'
    BY <1>1, <2>1, <2>2, <2>3, <2>4, Saved
  <2>6. CASE Answer(t, b, old)
    <3>1. /\ task' \in [Tasks -> Task] /\ task'[t].pc = "respond" /\ task'[t].browser = b
          /\ task'[t].blob = task[t].blob /\ \A q \in Tasks \ {t} : task'[q] = task[q]
      BY <1>1, <2>1, <2>6, AnswerType
    <3>2. task'[t].form = None
      BY <1>1, <2>1, <2>6, AnswerType
    <3>3. TypeOK'
      BY <1>1, <2>2, <2>5, <3>1 DEF TypeOK, history, store
    <3>4. SessionFits(task[t].blob)'
      BY <2>1, <2>5, <3>1, <1>1 DEF IInv, TypeOK, Grows, SessionFits, OwnData, Loyal, SessionKey,
                               Made, Known
    <3>5. TaskFits(task[t])'
      BY <3>1, <3>2, <3>4, NotWizard DEF TaskFits
    <3> QED
      BY <1>1, <2>5, <3>1, <3>3, <3>5, Assemble
  <2>7. CASE Finish(t)
    BY <1>1, <2>2, <2>5, <2>7, SavedEnds DEF TypeOK, store
  <2> QED
    BY <1>3, <2>1, <2>6, <2>7 DEF Save, Answer
<1> QED
  BY <1>2, <1>3

LEMMA BackfillKeeps ==
  ASSUME IInv, requests' \in Nat, NEW t \in Tasks, Backfill(t)
  PROVE  IInv'
<1> DEFINE s == task[t]
<1>1. /\ TypeOK /\ s.pc = "backfill" /\ Finish(t)
      /\ UNCHANGED <<exists, hash, row, holds, history>>
  BY DEF IInv, Backfill
<1>2. CASE UNCHANGED <<vault, used>>
  BY <1>1, <1>2, Ends DEF store
<1>3. CASE ~UNCHANGED <<vault, used>>
  <2>1. PICK u \in Users, key \in Key, had \in Pii, a \in Attempts :
          /\ u = s.user /\ key = SessionKey(s.blob) /\ had = s.blob.pii /\ a = s.blob.attempt
          /\ u \in exists /\ Loyal(u, key) /\ Known(u, had) /\ Made(a) /\ holds[a] \in Pii
    BY <1>1, TaskFacts DEF Loyal
  <2>2. PICK more \in SUBSET holds[a] : Upsert(u, key, had \union more)
    BY <1>3, <2>1 DEF Backfill, Upsert
  <2>3. used' = [used EXCEPT ![a] = @ \union {u}]
    BY <1>3, <2>1 DEF Backfill
  <2>4. /\ used \in [Attempts -> SUBSET Users] /\ exists \subseteq Users
        /\ holds \in [Attempts -> Pii \union {None}]
    BY <1>1 DEF TypeOK
  <2>5. /\ used' \in [Attempts -> SUBSET Users] /\ u \in used'[a]
        /\ \A c \in Attempts : used[c] \subseteq used'[c]
    BY <2>3, <2>4
  <2>6. had \union more \in Pii
    BY <2>1, <2>2 DEF Pii
  <2>7. Stored
    BY <1>1, <2>5 DEF Stored
  <2>8. Grows
    BY <1>1, <2>2, <2>6, <2>7, UpsertType DEF Grows, Stored, history
  <2>9. Known(u, had \union more)'
    BY <2>1, <2>2, <2>5, <2>8, AttemptKnown
  <2>10. /\ vault' \in [Users -> Vault \union {None}]
         /\ \A w \in Users : vault'[w] = vault[w] \/ VaultFits(w)'
    <3>1. PICK pii \in Pii : pii = had \union more
      BY <2>6
    <3>2. Known(u, pii)'
      BY <2>9, <3>1 DEF Known, Made
    <3> QED
      BY <1>1, <2>1, <2>2, <2>7, <3>1, <3>2, Saved
  <2> QED
    BY <1>1, <2>4, <2>5, <2>8, <2>10, SavedEnds
<1> QED
  BY <1>2, <1>3

LEMMA RecoverKeeps ==
  ASSUME IInv, requests' \in Nat, NEW t \in Tasks, Recover(t)
  PROVE  IInv'
<1>1. TypeOK /\ task[t].pc = "recover" /\ UNCHANGED <<exists, hash, vault, row, store, history>>
  BY DEF IInv, Recover
<1>2. PICK u \in Users, old \in Blob, b \in Browsers, key \in Key :
        /\ u = task[t].user /\ old = task[t].blob /\ b = task[t].browser
        /\ key = SessionKey(old) /\ u \in exists /\ old.user = u
  BY <1>1, TaskFacts DEF SessionKey
<1>3. CASE vault[u] # None /\ Answer(t, b, [old EXCEPT !.pii = vault[u].pii])
  <2>1. PICK pii \in Pii : pii = vault[u].pii /\ Known(u, pii) /\ vault[u] \in Vault
    BY <1>1, <1>2, <1>3 DEF TypeOK, Vault, IInv, VaultFits
  <2>2. PICK blob \in Blob : blob = Replaced(old, pii) /\ blob.user = u /\ blob.pii = pii
                             /\ SessionKey(blob) = key /\ blob.attempt = old.attempt
    BY <1>2, <2>1, ReplacedType
  <2>3. /\ task' \in [Tasks -> Task] /\ task'[t].pc = "respond" /\ task'[t].browser = b
        /\ task'[t].blob = blob /\ \A q \in Tasks \ {t} : task'[q] = task[q]
    BY <1>1, <1>3, <2>1, <2>2, AnswerType DEF Replaced
  <2>4. TypeOK' /\ Grows
    BY <1>1, <2>3 DEF TypeOK, Grows, history, store
  <2>5. SessionFits(task[t].blob)
    BY <1>1, TaskFacts
  <2>6. SessionFits(task[t].blob)'
    <3>1. /\ Known(u, pii)' /\ (blob.attempt # None => Made(blob.attempt)') /\ u # None
          /\ u \in exists' /\ vault'[u] \in Vault
      BY <1>1, <1>2, <2>1, <2>2, <2>5, AccountsAssumption
         DEF SessionFits, Known, Made, store
    <3>2. Loyal(u, SessionKey(blob))'
      BY <1>1, <1>2, <2>2, <2>5, AccountsAssumption
         DEF SessionFits, Loyal, SessionKey, history, store
    <3> QED
      BY <2>2, <2>3, <3>1, <3>2 DEF SessionFits, OwnData, Known, Made, Loyal, SessionKey
  <2>7. task'[t].form = None
    BY <1>1, <1>3, <2>1, <2>2, AnswerType DEF Replaced
  <2>8. TaskFits(task[t])'
    BY <2>3, <2>6, <2>7, NotWizard DEF TaskFits
  <2> QED
    BY <1>1, <2>3, <2>4, <2>8, Assemble
<1>4. CASE Finish(t)
  BY <1>1, <1>4, Ends
<1> QED
  BY <1>2, <1>3, <1>4 DEF Recover, Opens, Answer

LEMMA RespondKeeps ==
  ASSUME IInv, requests' \in Nat, NEW t \in Tasks, Respond(t)
  PROVE  IInv'
<1>1. TypeOK /\ task[t].pc = "respond"
  BY DEF IInv, Respond
<1>2. PICK b \in Browsers, blob \in Blob :
        b = task[t].browser /\ blob = task[t].blob /\ SessionFits(task[t].blob)
  BY <1>1, TaskFacts
<1>3. /\ row' \in [Browsers -> Blob] /\ row'[b] = blob
      /\ \A c \in Browsers \ {b} : row'[c] = row[c]
  BY <1>1, <1>2 DEF Respond, TypeOK
<1>4. /\ task' \in [Tasks -> Task] /\ task'[t] = Idle
      /\ \A q \in Tasks \ {t} : task'[q] = task[q]
  BY <1>1, FinishType DEF Respond
<1>5. TypeOK' /\ Grows
  BY <1>1, <1>3, <1>4 DEF Respond, TypeOK, Grows, history, store
<1>6. SessionFits(row[b])'
  BY <1>2, <1>3 DEF Respond, SessionFits, OwnData, Loyal, SessionKey, history, store, Known, Made
<1> QED
  BY <1>3, <1>4, <1>5, <1>6, IdleFits, Assemble DEF Respond

LEMMA SetPasswordKeeps ==
  ASSUME IInv, requests' \in Nat, NEW u \in Users, NEW p \in Passwords, SetPassword(u, p)
  PROVE  IInv'
<1>1. TypeOK
  BY DEF IInv
<1>2. TypeOK' /\ Grows
  BY <1>1 DEF SetPassword, TypeOK, Grows, store
<1> QED
  BY <1>2, Assemble DEF SetPassword

(***************************************************************************)
(* The invariant                                                           *)
(***************************************************************************)
(* IInv holds in every reachable state, whatever requests overlap.         *)
THEOREM InvariantHolds == Spec => []IInv
<1>1. Init => IInv
  <2> SUFFICES ASSUME Init PROVE IInv
    OBVIOUS
  <2>1. TypeOK
    BY Blanks DEF Init, TypeOK
  <2>2. SessionFits(LoggedOut)
    BY DEF SessionFits, OwnData, LoggedOut
  <2>3. TaskFits(Idle)
    BY <2>2, NotWizard DEF TaskFits, Idle
  <2>4. \A u \in Users : VaultFits(u)
    BY DEF Init, VaultFits
  <2>5. \A b \in Browsers : SessionFits(row[b])
    BY <2>2 DEF Init
  <2>6. \A t \in Tasks : TaskFits(task[t])
    BY <2>3 DEF Init
  <2> QED
    BY <2>1, <2>4, <2>5, <2>6 DEF IInv
<1>2. IInv /\ [Next]_vars => IInv'
  <2> SUFFICES ASSUME IInv, [Next]_vars PROVE IInv'
    OBVIOUS
  <2>0. requests' \in Nat
    BY DEF Next, vars, IInv, TypeOK
  <2>1. ASSUME NEW t \in Tasks, Step(t) PROVE IInv'
    <3>1. CASE Unlock(t)
      BY <3>1, <2>0, UnlockKeeps
    <3>2. CASE SeedVault(t)
      BY <3>2, <2>0, SeedVaultKeeps
    <3>3. CASE Save(t)
      BY <3>3, <2>0, SaveKeeps
    <3>4. CASE Backfill(t)
      BY <3>4, <2>0, BackfillKeeps
    <3>5. CASE Recover(t)
      BY <3>5, <2>0, RecoverKeeps
    <3>6. CASE Delete(t)
      BY <3>6, <2>0, Ends DEF Delete
    <3>7. CASE Respond(t)
      BY <3>7, <2>0, RespondKeeps
    <3>8. CASE Abort(t)
      BY <3>8, <2>0, Ends DEF Abort
    <3> QED
      BY <2>1, <3>1, <3>2, <3>3, <3>4, <3>5, <3>6, <3>7, <3>8 DEF Step
  <2>2. ASSUME NEW t \in Tasks, NEW b \in Browsers, Begin(t, b) PROVE IInv'
    <3>1. CASE \E u \in Users, p \in Passwords : SignUp(t, b, u, p)
      BY <3>1, <2>0, SignUpKeeps
    <3>2. CASE \E u \in Users : PasswordLogin(t, b, u)
      BY <3>2, <2>0, PasswordLoginKeeps
    <3>3. CASE \E u \in Users : ProviderLogin(t, b, u)
      BY <3>3, <2>0, ProviderLoginKeeps
    <3>4. CASE LogOut(t, b)
      BY <3>4, <2>0, LogOutKeeps
    <3>5. CASE \E form \in Forms : BeginSave(t, b, form)
      <4>1. PICK form \in Forms, u \in {row[b].user, None} :
              /\ BeginSave(t, b, form) /\ Start(t, "save", b, u, None, form)
              /\ u # None \/ form = "wizard"
        BY <3>5 DEF BeginSave
      <4> QED
        BY <2>0, <4>1, RequestStarts DEF BeginSave
    <3>6. CASE BeginPipeline(t, b)
      <4>1. PICK u \in {row[b].user, None} : u # None /\ Start(t, "backfill", b, u, None, None)
        BY <3>6 DEF BeginPipeline
      <4> QED
        BY <2>0, <3>6, <4>1, NotWizard, RequestStarts DEF BeginPipeline
    <3>7. CASE BeginRecover(t, b)
      <4>1. PICK u \in {row[b].user, None} : u # None /\ Start(t, "recover", b, u, None, None)
        BY <3>7 DEF BeginRecover
      <4> QED
        BY <2>0, <3>7, <4>1, NotWizard, RequestStarts DEF BeginRecover
    <3>8. CASE BeginDelete(t, b)
      <4>1. PICK u \in {row[b].user, None} : u # None /\ Start(t, "delete", b, u, None, None)
        BY <3>8 DEF BeginDelete
      <4> QED
        BY <2>0, <3>8, <4>1, NotWizard, RequestStarts DEF BeginDelete
    <3>9. CASE NewAttempt(t, b)
      BY <3>9, <2>0, NewAttemptKeeps
    <3> QED
      BY <2>2, <3>1, <3>2, <3>3, <3>4, <3>5, <3>6, <3>7, <3>8, <3>9 DEF Begin
  <2>3. ASSUME NEW b \in Browsers, NEW p \in Passwords, ChangePassword(b, p) PROVE IInv'
    <3>1. PICK u \in Users : u = row[b].user
      BY <2>3, RowFacts DEF ChangePassword
    <3> QED
      BY <2>0, <2>3, <3>1, SetPasswordKeeps DEF ChangePassword, SetPassword
  <2>4. ASSUME NEW u \in Users, NEW p \in Passwords, ResetPassword(u, p) PROVE IInv'
    BY <2>0, <2>4, SetPasswordKeeps DEF ResetPassword
  <2>5. CASE UNCHANGED vars
    BY <2>5 DEF vars, history, store, IInv, TypeOK, SessionFits, TaskFits, VaultFits, OwnData,
                Loyal, SessionKey, Known, Made
  <2> QED
    BY <2>1, <2>2, <2>3, <2>4, <2>5 DEF Next
<1> QED
  BY <1>1, <1>2, PTL DEF Spec

(* Every reachable state has the declared type. *)
THEOREM TypeCorrect == Spec => []TypeOK
BY InvariantHolds, PTL DEF IInv

(* Personal data of another account are in a session, a request or a vault *)
(* only if an attempt that both accounts used passed them on; a session    *)
(* without a token has none.                                               *)
THEOREM OwnDataOnly == Spec => []DataStaysWithItsOwner
<1>1. IInv => DataStaysWithItsOwner
  BY DEF IInv, SessionFits, TaskFits, VaultFits, DataStaysWithItsOwner
<1> QED
  BY <1>1, InvariantHolds, PTL

(* A session is logged in only once its account has a vault.               *)
THEOREM VaultBeforeSession == Spec => []LoggedInHasVault
<1>1. IInv => LoggedInHasVault
  BY DEF IInv, SessionFits, LoggedInHasVault
<1> QED
  BY <1>1, InvariantHolds, PTL

(* The server holds the key of a vault only if its account came through a  *)
(* provider.                                                               *)
THEOREM ServerKeyNeedsProvider == Spec => []ServerKeyMeansProvider
<1>1. IInv => ServerKeyMeansProvider
  BY DEF IInv, VaultFits, Loyal, ServerKeyMeansProvider
<1> QED
  BY <1>1, InvariantHolds, PTL

(* Whichever session wrote a vault, and however late, the password opens   *)
(* it, as long as it stays and no provider is used.                        *)
THEOREM PasswordOpensVault == Spec => []VaultOpensWithPassword
<1>1. IInv => VaultOpensWithPassword
  BY DEF IInv, VaultFits, Loyal, VaultOpensWithPassword
<1> QED
  BY <1>1, InvariantHolds, PTL
=============================================================================
