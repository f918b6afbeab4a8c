------------------------------- MODULE Builder -------------------------------
(***************************************************************************)
(* The manual CV builder of one browser session and the saved CVs it edits *)
(* (app/web/routes/builder.py, app/cv_builder/use_cases/build_cv.py,       *)
(* app/infrastructure/persistence/cv_repo.py).                             *)
(*                                                                         *)
(* Several tabs of the browser share the session's builder_id, which names *)
(* the attempt that previews and saves write to; which saved CV a save     *)
(* updates is read from that attempt, not from the page.  A preview or a   *)
(* save reads the attempt, awaits the form, and writes the attempt back;   *)
(* a save then writes the row.  Neither logging out nor logging in as      *)
(* somebody else touches builder_id, so the attempt of one account is the  *)
(* next one's too.                                                         *)
(*                                                                         *)
(* Of a CV the model keeps the list of roles, the phone number (one of the *)
(* fields that are redacted on the way to the database and filled in again *)
(* from the vault) and whether it has a voice.  The references, which have *)
(* a column of their own, are in Redaction.  Opening a page is one step:   *)
(* that a session is written back late, over a log-in or a log-out of      *)
(* another tab, is the business of Accounts.                               *)
(***************************************************************************)
EXTENDS Naturals, SequencesExt

CONSTANTS
  Tabs,
  Users,               \* accounts that use this browser
  Roles, Phones,       \* what is typed
  Starter,             \* the role of STARTER_BUILDER_DATA
  Tailored,            \* the roles of a CV the generator saved
  Token,               \* <<PHONE_1>>, <<REF_1_NAME>>, ...
  None,
  Limit,               \* parse_form_experience reads the indices 0 .. Limit
  MaxRows, MaxAttempts, MaxOpens, MaxEdits, MaxRequests,   \* bounds
  MaxVisits            \* bound: log-ins

Blank == "blank"       \* an index of the form no input has
Locked == "locked"     \* a session without pii

VARIABLES
  session,    \* builder_id, whose token it has, and the phone in session["pii"]
  vault,      \* the phone number in the vault of each account
  attempts,   \* the attempt store, by id: <<a1, a2, ...>>
  rows,       \* saved_cvs, by id
  page,       \* what each tab shows
  task,       \* the request each tab has in flight
  cleared,    \* history: who emptied the phone in the profile
  spoiled,    \* history: whose vault a save of the builder took the number from
  opens, edits, requests, visits

vars == <<session, vault, attempts, rows, page, task, cleared, spoiled, opens, edits, requests, visits>>

Texts == Phones \cup {Token, None}
Titles == Roles \cup {Starter}
Contents == [roles : Seq(Titles), phone : Texts]
Session == [builder : 0 .. MaxAttempts, user : Users \cup {None}, pii : Texts \cup {Locked}]
(* of and opener are history: the CV the attempt was opened for, and who   *)
(* was logged in then.  So is by, who saved the row last.                  *)
Attempt == [data : Contents, editing : Nat, of : Nat, opener : Users \cup {None}]
Row == [cv : Contents, voice : BOOLEAN,
        owner : Users \cup {None}, by : Users \cup {None}]
Form == [cv : Nat, attempt : Nat, slots : Seq(Titles \cup {Blank}), phone : Texts,
         open : BOOLEAN, crossed : BOOLEAN]

ASSUME BuilderAssumption ==
  /\ Limit \in Nat /\ MaxAttempts \in Nat
  /\ None \notin Phones \cup {Token} \cup Users /\ Locked \notin Texts
  /\ Token \notin Phones
  /\ Blank \notin Titles
  /\ Tailored \in Seq(Titles)

Idle == [pc |-> "idle", form |-> None, session |-> None, editing |-> 0]
NoPage == [cv |-> 0, attempt |-> 0, slots |-> <<>>, phone |-> None,
           open |-> FALSE, crossed |-> FALSE]

TypeOK ==
  /\ session \in Session /\ vault \in [Users -> Texts]
  /\ cleared \subseteq Users /\ spoiled \subseteq Users
  /\ attempts \in Seq(Attempt) /\ Len(attempts) <= MaxAttempts
  /\ session.builder <= Len(attempts)
  /\ rows \in Seq(Row)
  /\ \A a \in DOMAIN attempts : attempts[a].editing <= Len(rows)
  /\ page \in [Tabs -> Form]
  /\ \A t \in Tabs : page[t].cv <= Len(rows) /\ page[t].attempt <= Len(attempts)
  /\ task \in [Tabs -> [pc : {"idle", "preview", "save", "row"}, form : Form \cup {None},
                        session : Session \cup {None}, editing : 0 .. Len(rows)]]
  /\ \A t \in Tabs :
       task[t].pc # "idle" => /\ task[t].form \in Form /\ task[t].session \in Session
                              /\ task[t].session.builder \in DOMAIN attempts

Init ==
  /\ session = [builder |-> 0, user |-> None, pii |-> Locked]
  /\ vault = [u \in Users |-> None]
  /\ attempts = <<>> /\ rows = <<>>
  /\ page = [t \in Tabs |-> NoPage]
  /\ task = [t \in Tabs |-> Idle]
  /\ cleared = {} /\ spoiled = {}
  /\ opens = 0 /\ edits = 0 /\ requests = 0 /\ visits = 0

-----------------------------------------------------------------------------
(* Storing and reading back a CV. *)

(* save_cv, update_cv: the phone number is stored as a token. *)
Redacted(c) == [c EXCEPT !.phone = IF c.phone = None THEN None ELSE Token]

(* restore_pii_tokens and the prefill that follows: a token, and an empty  *)
(* field, become what the vault has, if it has anything.                   *)
FromVault(p) == IF p \in {Token, None} /\ session.pii \notin {Locked, None} THEN session.pii ELSE p

(* get_saved_cv and builder_edit. *)
Opened(r) == [rows[r].cv EXCEPT !.phone = FromVault(rows[r].cv.phone)]

(* parse_form_experience: index 0, which may be missing, and what follows  *)
(* up to the first index after it that has no title.                       *)
TitleAt(slots, i) == IF i + 1 \in DOMAIN slots THEN slots[i + 1] ELSE Blank
Upto(slots, limit) ==
  LET stop == Min({n \in 1 .. limit : n = limit \/ TitleAt(slots, n) = Blank})
  IN IF TitleAt(slots, 0) = Blank THEN SubSeq(slots, 2, stop) ELSE SubSeq(slots, 1, stop)
ParseBeyond(slots) == Upto(slots, Limit + 2)
Parse(slots) == Upto(slots, Limit + 1)

(* parse_form_into_builder_data *)
Parsed(form) == [roles |-> Parse(form.slots), phone |-> form.phone]

StarterData == [roles |-> <<Starter>>, phone |-> None]

-----------------------------------------------------------------------------
(* Opening a page.  It crosses a request when one that will write its      *)
(* attempt back, with the CV it was editing, is in flight.                 *)
Carries(t, a) ==
  task[t].pc \in {"preview", "save"} /\ task[t].session.builder = a /\ task[t].editing # 0

Show(t, cv, a, c) ==
  page' = [page EXCEPT ![t] =
            [cv |-> cv, attempt |-> a, slots |-> c.roles, phone |-> c.phone,
             open |-> TRUE, crossed |-> \E u \in Tabs : Carries(u, a)]]

Visit ==
  /\ opens < MaxOpens
  /\ opens' = opens + 1
  /\ UNCHANGED <<vault, rows, task, cleared, spoiled, edits, requests, visits>>

Fresh(data) == [data |-> data, editing |-> 0, of |-> 0, opener |-> None]

(* builder_page: the attempt is used again, and no longer edits a CV. *)
OpenNewKeeping(t) ==
  LET a == IF session.builder # 0 THEN session.builder ELSE Len(attempts) + 1
      data == IF session.builder # 0 THEN attempts[a].data ELSE StarterData
  IN /\ Visit
     /\ a <= MaxAttempts
     /\ session' = [session EXCEPT !.builder = a]
     /\ attempts' = IF session.builder # 0 THEN attempts
                    ELSE Append(attempts, Fresh(data))
     /\ Show(t, 0, a, [data EXCEPT !.phone = IF @ = None THEN FromVault(@) ELSE @])
OpenNew(t) ==
  LET a == IF session.builder # 0 THEN session.builder ELSE Len(attempts) + 1
      data == IF session.builder # 0 THEN attempts[a].data ELSE StarterData
  IN /\ Visit
     /\ a <= MaxAttempts
     /\ session' = [session EXCEPT !.builder = a]
     /\ attempts' = IF session.builder # 0 THEN [attempts EXCEPT ![a].editing = 0]
                    ELSE Append(attempts, Fresh(data))
     /\ Show(t, 0, a, [data EXCEPT !.phone = IF @ = None THEN FromVault(@) ELSE @])

(* builder_edit: a new attempt for this CV, which becomes the session's.   *)
(* An anonymous session may open any row, a user only their own.           *)
OpenEdit(t, r) ==
  LET a == Len(attempts) + 1
  IN /\ Visit
     /\ session.user \in {None, rows[r].owner}
     /\ a <= MaxAttempts
     /\ session' = [session EXCEPT !.builder = a]
     /\ attempts' = Append(attempts, [data |-> Opened(r), editing |-> r, of |-> r,
                                        opener |-> session.user])
     /\ Show(t, r, a, Opened(r))

-----------------------------------------------------------------------------
(* Typing, in the page only.  Removing a role leaves its index unused. *)
Edit(t) ==
  /\ page[t].open /\ edits < MaxEdits
  /\ edits' = edits + 1
  /\ UNCHANGED <<session, vault, attempts, rows, task, cleared, spoiled, opens, requests, visits>>
AddRole(t, role) ==
  /\ Edit(t)
  /\ Len(page[t].slots) <= Limit + 1
  /\ page' = [page EXCEPT ![t].slots = Append(@, role)]
RemoveRole(t, i) ==
  /\ Edit(t)
  /\ page[t].slots[i] # Blank
  /\ page' = [page EXCEPT ![t].slots[i] = Blank]
SetPhone(t, p) ==
  /\ Edit(t)
  /\ p # page[t].phone
  /\ page' = [page EXCEPT ![t].phone = p]

-----------------------------------------------------------------------------
(* Previews and saves.  A request works on the session as it loaded it. *)
Request(t, kind) ==
  /\ page[t].open /\ task[t].pc = "idle"
  /\ requests < MaxRequests
  /\ requests' = requests + 1
  /\ task' = [task EXCEPT ![t] = [pc |-> kind, form |-> page[t], session |-> session,
                                  editing |-> attempts[session.builder].editing]]
  /\ UNCHANGED <<vault, rows, page, cleared, spoiled, opens, edits, visits>>

(* A page that is open has given the session a builder, so the branches    *)
(* without one are not taken.                                              *)
StartPreview(t) ==
  /\ session.builder # 0
  /\ UNCHANGED <<session, attempts>>
  /\ Request(t, "preview")
StartSave(t) ==
  /\ session.builder # 0
  /\ UNCHANGED <<session, attempts>>
  /\ Request(t, "save")

(* The form has arrived: the attempt gets its data, and the id of the CV   *)
(* it was editing when it was read, if it was editing one.                 *)
WriteBack(t) ==
  attempts' = [attempts EXCEPT
    ![task[t].session.builder].data = Parsed(task[t].form),
    ![task[t].session.builder].editing = IF task[t].editing # 0 THEN task[t].editing ELSE @]

Preview(t) ==
  /\ task[t].pc = "preview"
  /\ WriteBack(t)
  /\ task' = [task EXCEPT ![t] = Idle]
  /\ UNCHANGED <<session, vault, rows, page, cleared, spoiled, opens, edits, requests, visits>>

(* builder_save after the form: the attempt is read once more, and what    *)
(* the request's copy of the vault has not got it takes from the CV        *)
(* (compute_pii_backfill), a token as well as a number; other is another   *)
(* field that it takes.  The vault then becomes the copy.  The copy was    *)
(* edited in place, so the middleware does not see a change and the        *)
(* session keeps the pii it had.                                           *)
NoBackfill(s, phone) == FALSE
Backfill(s, phone) == s.pii = None /\ phone # None
SaveForm(t, other) ==
  LET s == task[t].session
      phone == task[t].form.phone
      copy == IF Backfill(s, phone) THEN phone ELSE s.pii
  IN /\ task[t].pc = "save"
     /\ WriteBack(t)
     /\ task' = [task EXCEPT ![t].pc = "row", ![t].editing = attempts'[s.builder].editing]
     /\ IF s.user # None /\ s.pii # Locked /\ (Backfill(s, phone) \/ other)
        THEN /\ vault' = [vault EXCEPT ![s.user] = copy]
             /\ spoiled' = IF copy \in Phones \cup {vault[s.user]} THEN spoiled
                           ELSE spoiled \cup {s.user}
        ELSE UNCHANGED <<vault, spoiled>>
     /\ UNCHANGED <<session, rows, page, cleared, opens, edits, requests, visits>>

(* update_cv: the voice fields are passed as "", so they are overwritten. *)
Updated(row, c, user) == [row EXCEPT !.cv = Redacted(c), !.voice = FALSE, !.by = user]
(* save_cv *)
Inserted(c, user) == [cv |-> Redacted(c), owner |-> user, by |-> user, voice |-> FALSE]

(* builder_save: an update, whosever row it is, or an insert.  No row      *)
(* vanishes, so an update never falls back to an insert.                   *)
SaveRow(t) ==
  LET c == Parsed(task[t].form)
      r == task[t].editing
      user == task[t].session.user
  IN /\ task[t].pc = "row"
     /\ \/ r # 0 /\ rows' = [rows EXCEPT ![r] = Updated(@, c, user)]
        \/ r = 0 /\ Len(rows) < MaxRows /\ rows' = Append(rows, Inserted(c, user))
     /\ task' = [task EXCEPT ![t] = Idle]
     /\ UNCHANGED <<session, vault, attempts, page, cleared, spoiled, opens, edits, requests, visits>>

-----------------------------------------------------------------------------
(* The rest of the application, as far as the builder sees it. *)

(* A generation saves a tailored CV with the voice of its attempt, and the *)
(* phone of the session it was filled in from.                             *)
Generate ==
  /\ session.user # None /\ Len(rows) < MaxRows
  /\ rows' = Append(rows, [cv |-> [roles |-> Tailored,
                                   phone |-> IF session.pii \in {None, Locked} THEN None ELSE Token],
                           owner |-> session.user, by |-> session.user,
                           voice |-> TRUE])
  /\ UNCHANGED <<session, vault, attempts, page, task, cleared, spoiled, opens, edits, requests, visits>>

(* Logging in and out keep the pages and the builder. *)
LogIn(u) ==
  /\ session.user # u /\ visits < MaxVisits
  /\ visits' = visits + 1
  /\ session' = [session EXCEPT !.user = u, !.pii = vault[u]]
  /\ UNCHANGED <<vault, attempts, rows, page, task, cleared, spoiled, opens, edits, requests>>
LogOut ==
  /\ session.user # None
  /\ session' = [session EXCEPT !.user = None, !.pii = Locked]
  /\ UNCHANGED <<vault, attempts, rows, page, task, cleared, spoiled, opens, edits, requests, visits>>
(* The token is no longer valid; the session keeps the pii. *)
Expire ==
  /\ session.user # None
  /\ session' = [session EXCEPT !.user = None]
  /\ UNCHANGED <<vault, attempts, rows, page, task, cleared, spoiled, opens, edits, requests, visits>>

(* The user edits the phone number of the vault: in the profile, which     *)
(* edits the session's copy in place, so that the session is not saved, or *)
(* in the onboarding, which replaces it.                                   *)
EditProfile(p) ==
  /\ session.user # None /\ edits < MaxEdits
  /\ edits' = edits + 1
  /\ vault' = [vault EXCEPT ![session.user] = p]
  /\ session' \in {session, [session EXCEPT !.pii = p]}
  /\ cleared' = IF p = None THEN cleared \cup {session.user} ELSE cleared
  /\ UNCHANGED <<attempts, rows, page, task, spoiled, opens, requests, visits>>

Next ==
  \/ \E t \in Tabs :
       \/ OpenNew(t)
       \/ \E r \in DOMAIN rows : OpenEdit(t, r)
       \/ \E role \in Roles : AddRole(t, role)
       \/ \E i \in DOMAIN page[t].slots : RemoveRole(t, i)
       \/ \E p \in Phones \cup {None} : SetPhone(t, p)
       \/ StartPreview(t) \/ Preview(t)
       \/ StartSave(t) \/ SaveRow(t)
       \/ \E other \in BOOLEAN : SaveForm(t, other)
  \/ Generate
  \/ \E u \in Users : LogIn(u)
  \/ LogOut \/ Expire
  \/ \E p \in Phones \cup {None} : EditProfile(p)

Spec == Init /\ [][Next]_vars

-----------------------------------------------------------------------------
(* A save changes only the CV its attempt was opened for, which is one of  *)
(* the account that opened it; and of those the one its page shows, unless *)
(* the session has moved to another attempt than the page's, or the page   *)
(* was opened while a request carried a CV back into its attempt.  The row *)
(* to update is read from the session's attempt, which builder_page uses   *)
(* again, every builder_edit replaces and every request in flight writes,  *)
(* so this needs them to agree over several requests.                      *)
NothingIsOverwritten ==
  [][\A r \in DOMAIN rows :
       rows'[r] # rows[r] =>
         \E t \in Tabs :
           /\ task[t].pc = "row" /\ task'[t].pc = "idle"
           /\ LET b == task[t].session.builder
                  form == task[t].form
              IN /\ attempts[b].of = r
                 /\ attempts[b].opener \in {None, rows[r].owner}
                 /\ form.cv = r \/ form.attempt # b \/ form.crossed]_vars

(* A phone number that a user's save turned into a token is not lost: the  *)
(* vault has a number to put in its place, until the user empties it in    *)
(* the profile, or a save puts the token itself, or a session's old copy   *)
(* without a number, over it.                                              *)
TokensResolve ==
  \A r \in DOMAIN rows, u \in Users \ (cleared \cup spoiled) :
    rows[r].owner = u /\ rows[r].by = u /\ rows[r].cv.phone = Token => vault[u] \in Phones

(* "This ensures <<PHONE_1>>, <<EMAIL_1>> etc. tokens can be restored on   *)
(* load" (builder.py:333-334): a save fills in numbers that the vault      *)
(* lacks, and takes none from it.                                          *)
BackfillOnlyFillsIn ==
  [][\A t \in Tabs, u \in Users :
       task[t].pc = "save" /\ task'[t].pc = "row" /\ vault[u] \in Phones => vault'[u] = vault[u]]_vars

(* A page with no removed role, saved, keeps all its roles in their order, *)
(* up to the limit of the parser; whichever of update and insert it was.   *)
RolesAreKept ==
  [][\A t \in Tabs :
       task[t].pc = "row" /\ task'[t].pc = "idle" =>
         LET slots == task[t].form.slots
         IN Blank \notin Range(slots) =>
              \E r \in DOMAIN rows' : rows'[r].cv.roles =
                IF Len(slots) <= Limit + 1 THEN slots ELSE SubSeq(slots, 1, Limit + 1)]_vars
=============================================================================
