------------------------------ MODULE Accounts ------------------------------
(***************************************************************************)
(* Accounts, browser sessions and the PII vault (app/web/routes/auth.py,   *)
(* onboarding.py, profile.py, account.py, app/pii/adapters/vault.py,       *)
(* app/infrastructure/middleware/session.py).                              *)
(*                                                                         *)
(* A request loads the whole session row of its browser when it starts and *)
(* writes the whole of it back when it answers, if it finds it changed;    *)
(* in between it reads and writes the vault.  Requests of one browser and  *)
(* of several overlap.                                                     *)
(*                                                                         *)
(* The session also names an attempt, in which the wizard keeps what was   *)
(* filled in: no log-out and no log-in takes it out of the session, so the *)
(* next account in the browser goes on with it.  (It names a second one,   *)
(* builder_id, which the CV builder treats alike; see Builder.)  Of        *)
(* personal data the model keeps whose they are.                           *)
(***************************************************************************)
EXTENDS Integers, FiniteSets

CONSTANTS
  Users,      \* accounts, one e-mail address each
  Browsers,   \* session cookies
  Tasks,      \* requests in flight at a time; a task is used again when it ends
  Passwords,  \* what users type
  Attempts,   \* ids of attempts
  Server,     \* the key of the server (ENCRYPTION_KEY)
  None,
  MaxRequests \* bound: requests that begin

(* Onboarding and /account/pii make a new map of personal data; the        *)
(* profile and the career form edit the session's; the wizard's steps 2    *)
(* and 3 edit it with what their attempt has.                              *)
Forms == {"onboarding", "profile", "wizard"}

Key == Passwords \union {Server}

(* The accounts that a map of personal data, or an attempt, has data of.   *)
Pii == SUBSET Users

ASSUME AccountsAssumption ==
  /\ None \notin Users \union Passwords \union Attempts \union Forms \union {Server}
  /\ \A pii \in Pii : pii # None
  /\ Server \notin Passwords

(* The session row: auth_token, pii, _pii_password, attempt_id. *)
Blob == [user : Users \union {None}, pii : Pii \union {None},
         password : Passwords \union {None}, attempt : Attempts \union {None}]

Vault == [key : Key, pii : Pii]

Task == [pc : {"idle", "unlock", "seed", "save", "backfill", "recover", "delete", "respond"},
         browser : Browsers \union {None}, user : Users \union {None}, blob : Blob,
         key : Key \union {None}, form : Forms \union {None}]

VARIABLES
  exists,   \* accounts that have been created
  hash,     \* the password an account logs in with, None: provider only
  vault,    \* pii_vault
  row,      \* the session row of each browser
  holds,    \* the attempt store: whose data each attempt has, None: not made
  task,     \* requests in flight
  provider, \* history: accounts that logged in through a provider
  changed,  \* history: accounts whose password was changed or reset
  requests, \* how many have begun
  used      \* history: accounts that saved from, or generated from, an attempt

store == <<holds, used>>
history == <<provider, changed>>
vars == <<exists, hash, vault, row, store, task, requests, history>>

TypeOK ==
  /\ exists \subseteq Users
  /\ hash \in [Users -> Passwords \union {None}]
  /\ vault \in [Users -> Vault \union {None}]
  /\ row \in [Browsers -> Blob]
  /\ holds \in [Attempts -> Pii \union {None}]
  /\ used \in [Attempts -> SUBSET Users]
  /\ task \in [Tasks -> Task]
  /\ requests \in Nat
  /\ provider \subseteq Users /\ changed \subseteq Users

LoggedOut == [user |-> None, pii |-> None, password |-> None, attempt |-> None]

Idle == [pc |-> "idle", browser |-> None, user |-> None, blob |-> LoggedOut,
         key |-> None, form |-> None]

Init ==
  /\ exists = {} /\ hash = [u \in Users |-> None]
  /\ vault = [u \in Users |-> None]
  /\ row = [b \in Browsers |-> LoggedOut]
  /\ holds = [a \in Attempts |-> None] /\ used = [a \in Attempts |-> {}]
  /\ task = [t \in Tasks |-> Idle]
  /\ requests = 0
  /\ provider = {} /\ changed = {}

(***************************************************************************)
(* The vault                                                               *)
(***************************************************************************)
(* pii_from_user *)
SeedOf(u) == {u}

(* unlock_vault and unlock_vault_server_key: a vault without a salt is     *)
(* opened with the server's key whatever was typed.                        *)
Opens(u, key) == vault[u] # None /\ vault[u].key \in {Server, key}

(* upsert_vault: the row is inserted or replaced as a whole. *)
Upsert(u, key, pii) == vault' = [vault EXCEPT ![u] = [key |-> key, pii |-> pii]]

(* Mutant: the password of an earlier login in this browser is kept. *)
LogInKeepsPassword(blob, u, pii, key) ==
  [blob EXCEPT !.user = u, !.pii = pii,
               !.password = IF key = Server \/ @ # None THEN @ ELSE key]

(* What a login writes to its copy of the session.  A login through a      *)
(* provider leaves _pii_password as it finds it; no login touches the      *)
(* attempt.                                                                *)
LogIn(blob, u, pii, key) ==
  [blob EXCEPT !.user = u, !.pii = pii,
               !.password = IF key = Server THEN @ ELSE key]

(***************************************************************************)
(* Requests                                                                *)
(***************************************************************************)
(* The middleware loads the session and the handler finds its account. *)
Start(t, step, b, u, key, form) ==
  /\ task[t].pc = "idle"
  /\ task' = [task EXCEPT ![t] = [pc |-> step, browser |-> b, user |-> u, blob |-> row[b],
                                  key |-> key, form |-> form]]

(* The key the handlers that save take from the session. *)
SessionKey(blob) == IF blob.password = None THEN Server ELSE blob.password

Answer(t, b, blob) ==
  task' = [task EXCEPT ![t] = [Idle EXCEPT !.pc = "respond", !.browser = b, !.blob = blob]]
Finish(t) == task' = [task EXCEPT ![t] = Idle]

(* signup_submit: create_user commits the account long before its vault. *)
SignUp(t, b, u, p) ==
  /\ u \notin exists
  /\ exists' = exists \union {u}
  /\ hash' = [hash EXCEPT ![u] = p]
  /\ Start(t, "seed", b, u, p, None)
  /\ UNCHANGED <<vault, row, store, history>>

(* login_submit, once authenticate_user has accepted the password. *)
PasswordLogin(t, b, u) ==
  /\ u \in exists /\ hash[u] # None
  /\ Start(t, "unlock", b, u, hash[u], None)
  /\ UNCHANGED <<exists, hash, vault, row, store, history>>

(* google_callback and github_callback: an account is found by its e-mail  *)
(* address too, or made without a password.                                *)
ProviderLogin(t, b, u) ==
  /\ exists' = exists \union {u}
  /\ provider' = provider \union {u}
  /\ Start(t, "unlock", b, u, Server, None)
  /\ UNCHANGED <<hash, vault, row, store, changed>>

(* A vault that the key does not open counts as absent. *)
Unlock(t) ==
  LET s == task[t] IN
  /\ s.pc = "unlock"
  /\ IF Opens(s.user, s.key)
       THEN Answer(t, s.browser, LogIn(s.blob, s.user, vault[s.user].pii, s.key))
       ELSE task' = [task EXCEPT ![t].pc = "seed"]
  /\ UNCHANGED <<exists, hash, vault, row, store, history>>

(* Mutant: the vault is left to onboarding. *)
SeedSessionOnly(t) ==
  LET s == task[t] IN
  /\ s.pc = "seed"
  /\ Answer(t, s.browser, LogIn(s.blob, s.user, SeedOf(s.user), s.key))
  /\ UNCHANGED <<exists, hash, vault, row, store, history>>

SeedVault(t) ==
  LET s == task[t] IN
  /\ s.pc = "seed"
  /\ Upsert(s.user, s.key, SeedOf(s.user))
  /\ Answer(t, s.browser, LogIn(s.blob, s.user, SeedOf(s.user), s.key))
  /\ UNCHANGED <<exists, hash, row, store, history>>

(* Mutant: the pii stays in the session. *)
LogOutKeepsPii(t, b) ==
  /\ task[t].pc = "idle"
  /\ Answer(t, b, [row[b] EXCEPT !.user = None])
  /\ UNCHANGED <<exists, hash, vault, row, store, history>>

(* logout pops the token and the pii, not the password nor the attempt. *)
LogOut(t, b) ==
  /\ task[t].pc = "idle"
  /\ Answer(t, b, [row[b] EXCEPT !.user = None, !.pii = None])
  /\ UNCHANGED <<exists, hash, vault, row, store, history>>

(***************************************************************************)
(* Saving personal data                                                    *)
(***************************************************************************)
(* wizard_new, and the wizard's pages for a session without an attempt. *)
NewAttempt(t, b) ==
  /\ task[t].pc = "idle"
  /\ \E a \in Attempts :
       /\ holds[a] = None
       /\ holds' = [holds EXCEPT ![a] = {}]
       /\ Answer(t, b, [row[b] EXCEPT !.attempt = a])
  /\ UNCHANGED <<exists, hash, vault, row, used, history>>

(* The wizard serves guests too: sessions without a token, or with one     *)
(* that has expired.                                                       *)
BeginSave(t, b, form) ==
  /\ IF form = "wizard" THEN row[b].attempt # None ELSE row[b].user # None
  /\ \/ Start(t, "save", b, row[b].user, None, form)
     \/ form = "wizard" /\ Start(t, "save", b, None, None, form)
  /\ UNCHANGED <<exists, hash, vault, row, store, history>>

(* The wizard's pages show what the vault has, and what the attempt has in *)
(* its place; what is saved goes to the attempt and, of an account, to its *)
(* vault.                                                                  *)
Merge(s, rest) ==
  LET pii == IF s.blob.pii = None THEN rest ELSE s.blob.pii \union rest
      a == s.blob.attempt
  IN /\ rest \subseteq holds[a]
     /\ holds' = [holds EXCEPT ![a] = @ \union pii]
     /\ IF s.user = None THEN UNCHANGED <<vault, used>>
        ELSE /\ Upsert(s.user, SessionKey(s.blob), pii)
             /\ used' = [used EXCEPT ![a] = @ \union {s.user}]

(* Mutant: the password is cleared after onboarding, as a comment of       *)
(* login_submit says.                                                      *)
SaveClearsPassword(t) ==
  LET s == task[t] IN
  /\ s.pc = "save"
  /\ \/ /\ s.form = "wizard" /\ (\E rest \in Pii : Merge(s, rest))
        /\ Finish(t)
     \/ /\ s.form # "wizard" /\ Upsert(s.user, SessionKey(s.blob), s.blob.pii)
        /\ IF s.form = "onboarding" THEN Answer(t, s.browser, [s.blob EXCEPT !.password = None])
                                     ELSE Finish(t)
        /\ UNCHANGED store
  /\ UNCHANGED <<exists, hash, row, history>>

(* The middleware compares with a shallow copy: a map edited in place is   *)
(* not seen to be changed, and the session is not written back.            *)
Save(t) ==
  LET s == task[t] IN
  /\ s.pc = "save"
  /\ \/ /\ s.form = "wizard" /\ (\E rest \in Pii : Merge(s, rest))
        /\ Finish(t)
     \/ /\ s.form # "wizard" /\ Upsert(s.user, SessionKey(s.blob), s.blob.pii)
        /\ IF s.form = "onboarding" THEN Answer(t, s.browser, s.blob) ELSE Finish(t)
        /\ UNCHANGED store
  /\ UNCHANGED <<exists, hash, row, history>>

(* A generation holds the pii and the password of the session it started   *)
(* in, for minutes, and writes them back if the new CV, made from the      *)
(* attempt's, has a contact that they lack.                                *)
BeginPipeline(t, b) ==
  /\ row[b].user # None /\ row[b].attempt # None
  /\ Start(t, "backfill", b, row[b].user, None, None)
  /\ UNCHANGED <<exists, hash, vault, row, store, history>>

Backfill(t) ==
  LET s == task[t]
      a == s.blob.attempt
  IN
  /\ s.pc = "backfill"
  /\ \/ /\ \E more \in SUBSET holds[a] : Upsert(s.user, SessionKey(s.blob), s.blob.pii \union more)
        /\ used' = [used EXCEPT ![a] = @ \union {s.user}]
     \/ UNCHANGED <<vault, used>>
  /\ Finish(t)
  /\ UNCHANGED <<exists, hash, row, holds, history>>

(* _ensure_session_pii, when the wizard's first step finds no country. *)
BeginRecover(t, b) ==
  /\ row[b].user # None
  /\ Start(t, "recover", b, row[b].user, None, None)
  /\ UNCHANGED <<exists, hash, vault, row, store, history>>

Recover(t) ==
  LET s == task[t]
      key == IF hash[s.user] = None THEN Server ELSE s.blob.password
  IN
  /\ s.pc = "recover"
  /\ IF key # None /\ Opens(s.user, key)
       THEN Answer(t, s.browser, [s.blob EXCEPT !.pii = vault[s.user].pii])
       ELSE Finish(t)
  /\ UNCHANGED <<exists, hash, vault, row, store, history>>

(* The session goes back as a whole: the last request to answer wins. *)
Respond(t) ==
  /\ task[t].pc = "respond"
  /\ row' = [row EXCEPT ![task[t].browser] = task[t].blob]
  /\ Finish(t)
  /\ UNCHANGED <<exists, hash, vault, store, history>>

(* A request that fails is not answered by its handler: no session saved. *)
Abort(t) ==
  /\ task[t].pc # "idle" /\ Finish(t)
  /\ UNCHANGED <<exists, hash, vault, row, store, history>>

(***************************************************************************)
(* The account                                                             *)
(***************************************************************************)
(* change_password and reset_password_submit write the hash; the vault and *)
(* the sessions stay as they are.                                          *)
SetPassword(u, p) ==
  /\ hash[u] \notin {None, p}
  /\ hash' = [hash EXCEPT ![u] = p]
  /\ changed' = changed \union {u}
  /\ UNCHANGED <<exists, vault, row, store, task, provider>>

ChangePassword(b, p) == row[b].user # None /\ SetPassword(row[b].user, p)
ResetPassword(u, p) == SetPassword(u, p)

(* delete_account: the transaction leaves the vault's row, which refers to *)
(* the account, so the database rejects it and the request fails.  No      *)
(* session of an account without a vault exists (LoggedInHasVault), so     *)
(* the other outcome is left out.                                          *)
BeginDelete(t, b) ==
  /\ row[b].user # None
  /\ Start(t, "delete", b, row[b].user, None, None)
  /\ UNCHANGED <<exists, hash, vault, row, store, history>>

Delete(t) ==
  /\ task[t].pc = "delete" /\ vault[task[t].user] # None
  /\ Finish(t)
  /\ UNCHANGED <<exists, hash, vault, row, store, history>>

(***************************************************************************)
(* Specification                                                           *)
(***************************************************************************)
Begin(t, b) ==
  \/ \E u \in Users, p \in Passwords : SignUp(t, b, u, p)
  \/ \E u \in Users : PasswordLogin(t, b, u) \/ ProviderLogin(t, b, u)
  \/ LogOut(t, b) \/ NewAttempt(t, b)
  \/ \E form \in Forms : BeginSave(t, b, form)
  \/ BeginPipeline(t, b) \/ BeginRecover(t, b) \/ BeginDelete(t, b)

Step(t) ==
  \/ Unlock(t) \/ SeedVault(t) \/ Save(t) \/ Backfill(t) \/ Recover(t)
  \/ Delete(t) \/ Respond(t) \/ Abort(t)

Next ==
  \/ \E t \in Tasks : Step(t) /\ UNCHANGED requests
  \/ /\ requests < MaxRequests /\ requests' = requests + 1
     /\ \/ \E t \in Tasks, b \in Browsers : Begin(t, b)
        \/ \E b \in Browsers, p \in Passwords : ChangePassword(b, p)
        \/ \E u \in Users, p \in Passwords : ResetPassword(u, p)

Spec == Init /\ [][Next]_vars

(***************************************************************************)
(* Properties                                                              *)
(***************************************************************************)
(* Personal data come to another account only through an attempt that has  *)
(* them and that this account saved from or generated from: no session,    *)
(* request or vault has data of another account on any other way,          *)
(* whichever request writes the session back last; and a session without a *)
(* token has none at all (vault.py, session.py).                           *)
Made(a) == a \in Attempts /\ holds[a] # None
Known(u, pii) ==
  \A v \in pii \ {u} : \E a \in Attempts : Made(a) /\ u \in used[a] /\ v \in holds[a]

OwnData(blob) ==
  IF blob.user = None THEN blob.pii = None
                      ELSE blob.pii \in Pii /\ Known(blob.user, blob.pii)

DataStaysWithItsOwner ==
  /\ \A b \in Browsers : OwnData(row[b])
  /\ \A t \in Tasks : OwnData(task[t].blob)
  /\ \A u \in Users : vault[u] # None => Known(u, vault[u].pii)

(* Every session that is logged in belongs to an account with a vault. *)
LoggedInHasVault ==
  \A b \in Browsers : row[b].user # None => vault[row[b].user] \in Vault

(* "Even with full DB + server access, admins cannot decrypt without the   *)
(* user's password" (vault.py): the vault of an account that never came    *)
(* through a provider is never written under the server's key.             *)
ServerKeyMeansProvider ==
  \A u \in Users : vault[u] # None /\ vault[u].key = Server => u \in provider

(* As long as the password stays and no provider is used, the vault opens  *)
(* with the password: whichever session wrote it, however late.            *)
VaultOpensWithPassword ==
  \A u \in Users \ (provider \union changed) :
    vault[u] # None => vault[u].key = hash[u]

(* An inductive invariant: what a copy of a session says of its account,   *)
(* what a request holds, and what a vault says of its owner.               *)
Loyal(u, key) ==
  /\ key = Server => u \in provider
  /\ u \notin provider \union changed => key = hash[u]

SessionFits(blob) ==
  /\ blob.attempt # None => Made(blob.attempt)
  /\ OwnData(blob)
  /\ blob.user # None =>
       blob.user \in exists /\ vault[blob.user] \in Vault /\ Loyal(blob.user, SessionKey(blob))

TaskFits(s) ==
  /\ SessionFits(s.blob)
  /\ s.pc \in {"unlock", "seed"} => s.user \in exists /\ s.key \in Key /\ Loyal(s.user, s.key)
  /\ s.pc \in {"backfill", "recover", "delete"} => s.user = s.blob.user /\ s.user # None
  /\ s.pc = "save" => s.form \in Forms /\ (s.user = s.blob.user \/ s.user = None)
  /\ s.pc = "save" /\ s.form # "wizard" => s.user # None
  /\ s.pc = "backfill" \/ s.form = "wizard" => Made(s.blob.attempt)
  /\ s.pc # "idle" => s.browser \in Browsers

VaultFits(u) ==
  vault[u] # None => u \in exists /\ Known(u, vault[u].pii) /\ Loyal(u, vault[u].key)

IInv ==
  /\ TypeOK
  /\ \A b \in Browsers : SessionFits(row[b])
  /\ \A t \in Tasks : TaskFits(task[t])
  /\ \A u \in Users : VaultFits(u)
=============================================================================
