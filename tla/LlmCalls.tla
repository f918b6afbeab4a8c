------------------------------ MODULE LlmCalls ------------------------------
(***************************************************************************)
(* The calls of the language model and what is kept of them                *)
(* (app/infrastructure/llm/client.py).                                     *)
(*                                                                         *)
(* A call takes its session, user and iteration from context variables of  *)
(* the asyncio task it runs in.  When it ends, a task nobody waits for     *)
(* writes the api_request_logs row and, if the user is eligible and has    *)
(* consented by then, the prompt itself.  The cover_letter flag            *)
(* (app/features.py) is cached in each worker.                             *)
(***************************************************************************)
EXTENDS Naturals, FiniteSets, People

CONSTANTS
  Workers,                       \* gunicorn's worker processes
  Runs, Kind(_),                 \* what is run: a pipeline or the fixes
  AttemptOf(_), UserOf(_),       \* for which session and user
  Polish,                        \* what a pipeline does at once: "cover", "review", "groups"
  MaxCalls, MaxEvents            \* bounds: calls; toggles and restarts

ASSUME CallsAssumption ==
  /\ Polish \subseteq {"cover", "review", "groups"}
  /\ None \notin Users \cup Workers
  /\ \A r \in Runs : /\ Kind(r) \in {"pipeline", "fixes"}
                     /\ UserOf(r) \in Users \cup {None}
  /\ MaxCalls \in Nat /\ MaxEvents \in Nat

VARIABLES
  run,        \* phase and worker of each run
  ctx,        \* the context variables of each task of a run
  call,       \* the calls of a run, by part
  eligible,   \* users.prompt_logging_eligible
  granted,    \* the latest prompt_logging consent
  asking,     \* the consent a user's request in flight will record
  optedIn,    \* history: the user agreed after the flag was last taken away
  stored, cache, setting,   \* the flag: its row, each worker's copy, toggles in flight
  current,    \* history: workers whose copy nothing has outdated
  events

consent == <<eligible, granted, asking, optedIn>>
flag == <<stored, cache, setting, current>>
vars == <<run, ctx, call, consent, flag, events>>

Parts == {"keywords", "cv", "fixes"} \cup Polish
RunTasks == {"main"} \cup Polish
TaskOf(p) == IF p \in Polish THEN p ELSE "main"
Contexts == [service : Parts \cup {"unknown", "pipeline"},
             attempt : {AttemptOf(r) : r \in Runs} \cup {None},
             user : Users \cup {None}, tx : Runs \cup {None}]
Default == [service |-> "unknown", attempt |-> None, user |-> None, tx |-> None]
NoCall == [stage |-> "none", ctx |-> Default, saw |-> {}]

Stages == {"none", "ready", "open", "ended", "lost",
           "row", "eligible", "agreed", "logged", "saved"}
Rowed == {"row", "eligible", "agreed", "logged", "saved"}     \* api_request_logs has it

TypeOK ==
  /\ run \in [Runs -> [pc : {"idle", "keywords", "cv", "gather", "polish", "call", "done"},
                       at : Workers \cup {None}]]
  /\ ctx \in [Runs -> [RunTasks -> Contexts]]
  /\ call \in [Runs -> [Parts -> [stage : Stages, ctx : Contexts,
                                  saw : SUBSET {"eligible", "optedIn"}]]]
  /\ eligible \in [Users -> BOOLEAN] /\ granted \in [Users -> BOOLEAN]
  /\ optedIn \in [Users -> BOOLEAN]
  /\ asking \in [Users -> {"none", "grant", "withdraw"}]
  /\ stored \in BOOLEAN /\ cache \in [Workers -> BOOLEAN]
  /\ setting \in [Workers -> SUBSET BOOLEAN]
  /\ current \subseteq Workers
  /\ events \in 0 .. MaxEvents

Init ==
  /\ run = [r \in Runs |-> [pc |-> "idle", at |-> None]]
  /\ ctx = [r \in Runs |-> [t \in RunTasks |-> Default]]
  /\ call = [r \in Runs |-> [p \in Parts |-> NoCall]]
  /\ eligible \in [Users -> BOOLEAN] /\ granted = eligible     \* a user who agreed, or not
  /\ asking = [u \in Users |-> "none"] /\ optedIn = granted
  /\ stored = TRUE /\ cache = [w \in Workers |-> stored]
  /\ setting = [w \in Workers |-> {}] /\ current = Workers
  /\ events = 0

-----------------------------------------------------------------------------
(* set_llm_context: a service takes over what its caller set; anybody else *)
(* starts an iteration of their own.                                       *)
InheritService(c, service) == [Default EXCEPT !.service = service, !.tx = c.tx]
Inherit(c, service) == [c EXCEPT !.service = service]
Bind(r, service) == [service |-> service, attempt |-> AttemptOf(r), user |-> UserOf(r), tx |-> r]

EntryService == [pipeline |-> "pipeline", fixes |-> "fixes"]
Begin(r, w) ==
  /\ run[r].pc = "idle"
  /\ run' = [run EXCEPT ![r] = [pc |-> IF Kind(r) = "pipeline" THEN "keywords" ELSE "call",
                                at |-> w]]
  /\ ctx' = [ctx EXCEPT ![r]["main"] = Bind(r, EntryService[Kind(r)])]
  /\ UNCHANGED <<call, consent, flag, events>>

(* What the attempt already has is not asked for again. *)
Skip(r) ==
  /\ run[r].pc \in {"keywords", "cv"}
  /\ run' = [run EXCEPT ![r].pc = IF @ = "keywords" THEN "cv" ELSE "gather"]
  /\ UNCHANGED <<ctx, call, consent, flag, events>>

(* gather wraps every part in a task, which gets a copy of the context.    *)
(* The cover letter is written if this worker's copy of the flag says so.  *)
Gather(r) ==
  /\ run[r].pc = "gather"
  /\ run' = [run EXCEPT ![r].pc = "polish"]
  /\ \E missing \in SUBSET Polish :
       LET parts == {p \in missing : p = "cover" => cache[run[r].at]}
       IN /\ ctx' = [ctx EXCEPT ![r] = [t \in RunTasks |-> IF t \in parts THEN ctx[r]["main"]
                                                                          ELSE ctx[r][t]]]
          /\ call' = [call EXCEPT ![r] = [p \in Parts |-> IF p \in parts
                                            THEN [NoCall EXCEPT !.stage = "ready"]
                                            ELSE call[r][p]]]
  /\ UNCHANGED <<consent, flag, events>>

(* A part is due when the run has come to it.  Only the grouping of        *)
(* keywords does not name its service.                                     *)
Due(r, p) ==
  CASE p \in {"keywords", "cv"} -> run[r].pc = p /\ call[r][p].stage = "none"
    [] p \in Polish -> run[r].pc = "polish" /\ call[r][p].stage = "ready"
    [] OTHER -> run[r].pc = "call" /\ Kind(r) = p /\ call[r][p].stage = "none"
Tagged(c, p) == IF p = "groups" THEN c ELSE Inherit(c, p)

(* What each user has said and is allowed at this moment. *)
Says(u) == IF u = None THEN {}
           ELSE {x \in {"eligible", "optedIn"} : IF x = "eligible" THEN eligible[u] ELSE optedIn[u]}

(* generate: the context is read before the call is awaited.  A prompt in  *)
(* which the tripwire finds personal data is refused and leaves no row.    *)
Called == {rp \in Runs \X Parts : call[rp[1]][rp[2]].stage \notin {"none", "ready"}}
Call(r, p) ==
  /\ Due(r, p)
  /\ Cardinality(Called) < MaxCalls
  /\ LET c == Tagged(ctx[r][TaskOf(p)], p)
     IN /\ ctx' = [ctx EXCEPT ![r][TaskOf(p)] = c]
        /\ call' = [call EXCEPT ![r][p] = [stage |-> "open", ctx |-> c, saw |-> Says(c.user)]]
  /\ UNCHANGED <<run, consent, flag, events>>

After(pc, ok) == CASE pc = "keywords" -> "cv"
                   [] pc = "cv" /\ ok -> "gather"
                   [] pc = "polish" -> "polish"
                   [] OTHER -> "done"
Refuse(r, p) ==
  /\ Due(r, p) /\ Cardinality(Called) < MaxCalls
  /\ call' = [call EXCEPT ![r][p].stage = "lost"]
  /\ run' = [run EXCEPT ![r].pc = After(@, FALSE)]
  /\ UNCHANGED <<ctx, consent, flag, events>>

(* The answer, an error or a timeout; either way the log task is started.  *)
Answer(r, p) ==
  /\ call[r][p].stage = "open"
  /\ call' = [call EXCEPT ![r][p].stage = "ended"]
  /\ \E ok \in BOOLEAN : run' = [run EXCEPT ![r].pc = After(@, ok)]
  /\ UNCHANGED <<ctx, consent, flag, events>>
Finish(r) ==
  /\ run[r].pc = "polish"
  /\ \A p \in Polish : call[r][p].stage \notin {"ready", "open"}
  /\ run' = [run EXCEPT ![r].pc = "done"]
  /\ UNCHANGED <<ctx, call, consent, flag, events>>

-----------------------------------------------------------------------------
(* _log_to_db: the row, then two reads for the consent, then the prompt.   *)
(* Whatever fails is swallowed.                                            *)
Log(r, p, from, to) ==
  LET c == call[r][p]
  IN /\ c.stage = from
     /\ call' = [call EXCEPT ![r][p] = [c EXCEPT !.stage = to,
                                    !.saw = IF to \in {"logged", "lost"} THEN {} ELSE c.saw]]
     /\ UNCHANGED <<run, ctx, consent, flag, events>>
WriteRow(r, p) == \E to \in {"row", "lost"} : Log(r, p, "ended", to)
ReadEligible(r, p) ==
  LET u == call[r][p].ctx.user
  IN Log(r, p, "row", IF u # None /\ eligible[u] THEN "eligible" ELSE "logged")
ReadConsent(r, p) ==
  LET u == call[r][p].ctx.user
  IN Log(r, p, "eligible", IF u # None /\ granted[u] THEN "agreed" ELSE "logged")
WritePrompt(r, p) == \E to \in {"saved", "logged"} : Log(r, p, "agreed", to)

-----------------------------------------------------------------------------
(* Calls that have begun see what becomes true before they are logged. *)
Seen(u, what) ==
  [r \in Runs |-> [p \in Parts |->
     IF call[r][p].ctx.user = u /\ call[r][p].stage \notin {"none", "ready", "lost", "logged", "saved"}
     THEN [call[r][p] EXCEPT !.saw = @ \cup what] ELSE call[r][p]]]

(* admin_toggle_prompt_eligible: taking the flag away also withdraws the   *)
(* consent, in the same commit.                                            *)
ToggleKeepingConsent(u) ==
  /\ events < MaxEvents /\ events' = events + 1
  /\ eligible' = [eligible EXCEPT ![u] = ~@]
  /\ optedIn' = [optedIn EXCEPT ![u] = @ /\ ~eligible[u]]
  /\ call' = Seen(u, IF eligible[u] THEN {} ELSE {"eligible"})
  /\ UNCHANGED <<run, ctx, granted, asking, flag>>
ToggleEligible(u) ==
  /\ events < MaxEvents /\ events' = events + 1
  /\ eligible' = [eligible EXCEPT ![u] = ~@]
  /\ granted' = [granted EXCEPT ![u] = @ /\ ~eligible[u]]
  /\ optedIn' = [optedIn EXCEPT ![u] = @ /\ ~eligible[u]]
  /\ call' = Seen(u, IF eligible[u] THEN {} ELSE {"eligible"})
  /\ UNCHANGED <<run, ctx, asking, flag>>

(* update_prompt_logging_consent: the user row was read when the request   *)
(* came in.                                                                *)
AskConsent(u, what) ==
  /\ events < MaxEvents /\ events' = events + 1
  /\ asking[u] = "none" /\ eligible[u]
  /\ asking' = [asking EXCEPT ![u] = what]
  /\ UNCHANGED <<run, ctx, call, eligible, granted, optedIn, flag>>
RecordConsent(u) ==
  /\ asking[u] # "none"
  /\ asking' = [asking EXCEPT ![u] = "none"]
  /\ granted' = [granted EXCEPT ![u] = (asking[u] = "grant")]
  /\ optedIn' = [optedIn EXCEPT ![u] = (asking[u] = "grant")]
  /\ call' = Seen(u, IF asking[u] = "grant" THEN {"optedIn"} ELSE {})
  /\ UNCHANGED <<run, ctx, eligible, flag, events>>

-----------------------------------------------------------------------------
(* set_flag: the row is committed, then this worker's copy is changed. *)
SetFlag(w, b) ==
  /\ events < MaxEvents /\ events' = events + 1
  /\ stored' = b
  /\ setting' = [setting EXCEPT ![w] = @ \cup {b}]
  /\ current' = IF setting[w] = {} THEN {w} ELSE {}
  /\ UNCHANGED <<run, ctx, call, consent, cache>>
CacheFlag(w, b) ==
  /\ b \in setting[w]
  /\ setting' = [setting EXCEPT ![w] = @ \ {b}]
  /\ cache' = [cache EXCEPT ![w] = b]
  /\ UNCHANGED <<run, ctx, call, consent, stored, current, events>>

(* A worker dies with its tasks, those that log included, and the one that *)
(* takes its place loads the flags.                                        *)
Died(c) ==
  [c EXCEPT !.stage = CASE @ \in {"ready", "open", "ended"} -> "lost"
                        [] @ \in {"row", "eligible", "agreed"} -> "logged"
                        [] OTHER -> @,
            !.saw = IF c.stage = "saved" THEN @ ELSE {}]
KillRuns(w) ==
  LET dead == {r \in Runs : run[r].at = w}
  IN /\ events < MaxEvents /\ events' = events + 1
     /\ run' = [r \in Runs |-> IF r \in dead THEN [run[r] EXCEPT !.pc = "done"] ELSE run[r]]
     /\ call' = [r \in Runs |-> IF r \in dead THEN [p \in Parts |-> Died(call[r][p])]
                                             ELSE call[r]]
     /\ setting' = [setting EXCEPT ![w] = {}]
     /\ current' = current \cup {w}
     /\ UNCHANGED <<ctx, consent, stored>>
RestartWithDefault(w) == KillRuns(w) /\ cache' = [cache EXCEPT ![w] = FALSE]
Restart(w) == KillRuns(w) /\ cache' = [cache EXCEPT ![w] = stored]

Next ==
  \/ \E r \in Runs :
       \/ \E w \in Workers : Begin(r, w)
       \/ Skip(r) \/ Gather(r) \/ Finish(r)
       \/ \E p \in Parts : \/ Call(r, p) \/ Refuse(r, p) \/ Answer(r, p)
                           \/ WriteRow(r, p) \/ ReadEligible(r, p)
                           \/ ReadConsent(r, p) \/ WritePrompt(r, p)
  \/ \E u \in Users :
       \/ ToggleEligible(u) \/ RecordConsent(u)
       \/ \E what \in {"grant", "withdraw"} : AskConsent(u, what)
  \/ \E w \in Workers :
       \/ Restart(w)
       \/ \E b \in BOOLEAN : SetFlag(w, b) \/ CacheFlag(w, b)

Spec == Init /\ [][Next]_vars

-----------------------------------------------------------------------------
(* The rows admin_session_detail sums up: by session, then by iteration. *)
Rows == {rp \in Runs \X Parts : call[rp[1]][rp[2]].stage \in Rowed}
Row(rp) == call[rp[1]][rp[2]].ctx
Iteration(attempt, tx) == {rp \in Rows : Row(rp).attempt = attempt /\ Row(rp).tx = tx}

(* What the admin pages group as one iteration is one run's: every row     *)
(* names the session and the user of the run that made the call and, but   *)
(* for the grouping of keywords, the service that asked; however the calls *)
(* of different tasks overlap.                                             *)
RowsTellWhoAsked ==
  \A rp \in Rows :
    /\ rp \in Iteration(AttemptOf(rp[1]), rp[1])
    /\ Row(rp).user = UserOf(rp[1])
    /\ rp[2] # "groups" => Row(rp).service = rp[2]

(* A prompt is kept only of a user who was eligible, and who agreed after  *)
(* the flag was last taken away, at some moment between the start of the   *)
(* call and the write.                                                     *)
PromptsNeedConsent ==
  \A r \in Runs, p \in Parts :
    call[r][p].stage = "saved" => call[r][p].saw = {"eligible", "optedIn"}

(* The worker that took the last toggle, if it was not taking another one, *)
(* and those started since, use the flag as it is stored.                  *)
FlagIsCurrent == \A w \in current : setting[w] = {} => cache[w] = stored
=============================================================================
