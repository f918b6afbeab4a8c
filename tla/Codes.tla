-------------------------------- MODULE Codes -------------------------------
(***************************************************************************)
(* Two kinds of code that are meant to be used once: invitations, which    *)
(* are redeemed for credits (app/web/routes/invitations.py, and the        *)
(* sign-up and login routes of auth.py), and password reset tokens         *)
(* (auth.py).  Every route reads the code, checks it, and commits its use  *)
(* later; nothing is locked.  The credits are added in a commit of their   *)
(* own.  Left out: expressions of interest, and the consents, session and  *)
(* vault of a sign-up (module Accounts).                                   *)
(***************************************************************************)
EXTENDS CreditLedger, People

CONSTANTS
  Invitations, Amount(_),
  Addressee(_),        \* whom an invitation is for; None: anybody
  Tokens,
  Tasks,               \* requests in flight
  MaxCrashes           \* bound

ASSUME CodesAssumption ==
  /\ None \notin Users \cup Invitations \cup Tokens
  /\ Users \cap {"unsent", "open"} = {}
  /\ MaxCrashes \in Nat
  /\ \A i \in Invitations : Amount(i) \in Nat /\ Addressee(i) \in Users \cup {None}

VARIABLES
  exists,     \* accounts
  credits,    \* their rows of the ledger
  invitation, \* "unsent", "open" or the account that redeemed it
  token,      \* state and account of a reset token
  password,   \* what set an account's password last: a token, or None
  task,
  received,   \* history: how often an account got an invitation's credits
  resets,     \* history: how often a token set a password
  spoiled,    \* history: codes two requests used at once, or that a crash cut short
  crashes

codeVars ==
  <<exists, credits, invitation, token, password, task, received, resets, spoiled, crashes>>

Idle == [pc |-> "idle", user |-> None, code |-> None, kind |-> "grant"]

CodesTypeOK ==
  /\ exists \subseteq Users
  /\ credits \in [Users -> CreditRow]
  /\ invitation \in [Invitations -> Users \cup {"unsent", "open"}]
  /\ token \in [Tokens -> [state : {"none", "sent", "expired", "used"}, user : Users \cup {None}]]
  /\ password \in [Users -> Tokens \cup {None}]
  /\ task \in [Tasks -> [pc : {"idle", "create", "recheck", "use", "pay", "reset"},
                         user : Users \cup {None}, kind : {"grant", "purchase"},
                         code : Invitations \cup Tokens \cup {None}]]
  /\ received \in [Invitations -> [Users -> Nat]]
  /\ resets \in [Tokens -> Nat]
  /\ spoiled \subseteq Invitations \cup Tokens
  /\ crashes \in 0 .. MaxCrashes

CodesInit ==
  /\ exists \in SUBSET Users
  /\ credits = [u \in Users |-> EmptyRow]
  /\ invitation = [i \in Invitations |-> "unsent"]
  /\ token = [k \in Tokens |-> [state |-> "none", user |-> None]]
  /\ password = [u \in Users |-> None]
  /\ task = [t \in Tasks |-> Idle]
  /\ received = [i \in Invitations |-> [u \in Users |-> 0]]
  /\ resets = [k \in Tokens |-> 0]
  /\ spoiled = {} /\ crashes = 0

-----------------------------------------------------------------------------
(* admin_create_invitation *)
Invite(i) ==
  /\ invitation[i] = "unsent"
  /\ invitation' = [invitation EXCEPT ![i] = "open"]
  /\ UNCHANGED <<exists, credits, token, password, task, received, resets, spoiled, crashes>>

(* A request found the code unused and is going to use it. *)
Uses(t, step, u, c, kind) ==
  /\ task' = [task EXCEPT ![t] = [pc |-> step, user |-> u, code |-> c, kind |-> kind]]
  /\ spoiled' = IF step # "create" /\ \E s \in Tasks \ {t} : task[s].code = c
                                                             /\ task[s].pc \in {"use", "reset"}
                THEN spoiled \cup {c} ELSE spoiled
Ends(t) == task' = [task EXCEPT ![t] = Idle]

Redeemable(i, u) == invitation[i] = "open" /\ Addressee(i) \in {None, u}

(* invite_redeem, and login_submit with a code: the one books a gift, the  *)
(* other a purchase.                                                       *)
Redeem(t, u, i) ==
  /\ task[t].pc = "idle" /\ u \in exists /\ Redeemable(i, u)
  /\ \E kind \in {"grant", "purchase"} : Uses(t, "use", u, i, kind)
  /\ UNCHANGED <<exists, credits, invitation, token, password, received, resets, crashes>>

(* signup_submit with a code: it is checked, the account is created, the   *)
(* code is read again.  Somebody else may have got the address or the      *)
(* code meanwhile; in the second case the account stays, without credits.  *)
SignUp(t, u, i) ==
  /\ task[t].pc = "idle" /\ u \notin exists /\ Redeemable(i, u)
  /\ Uses(t, "create", u, i, "purchase")
  /\ UNCHANGED <<exists, credits, invitation, token, password, received, resets, crashes>>
CreateAccount(t) ==
  /\ task[t].pc = "create"
  /\ exists' = exists \cup {task[t].user}
  /\ IF task[t].user \in exists THEN Ends(t) ELSE task' = [task EXCEPT ![t].pc = "recheck"]
  /\ UNCHANGED <<credits, invitation, token, password, received, resets, spoiled, crashes>>
UseUnchecked(t) ==
  /\ task[t].pc = "recheck"
  /\ Uses(t, "use", task[t].user, task[t].code, "purchase")
  /\ UNCHANGED <<exists, credits, invitation, token, password, received, resets, crashes>>
Recheck(t) ==
  /\ task[t].pc = "recheck"
  /\ IF invitation[task[t].code] = "open"
     THEN Uses(t, "use", task[t].user, task[t].code, "purchase")
     ELSE Ends(t) /\ UNCHANGED spoiled
  /\ UNCHANGED <<exists, credits, invitation, token, password, received, resets, crashes>>

(* redeemed_by is committed, then the credits are added. *)
MarkRedeemed(t) ==
  /\ task[t].pc = "use"
  /\ invitation' = [invitation EXCEPT ![task[t].code] = task[t].user]
  /\ task' = [task EXCEPT ![t].pc = "pay"]
  /\ UNCHANGED <<exists, credits, token, password, received, resets, spoiled, crashes>>
AddCredits(t) ==
  LET u == task[t].user
      i == task[t].code
  IN /\ task[t].pc = "pay"
     /\ credits' = [credits EXCEPT ![u] = Added(@, Amount(i), task[t].kind)]
     /\ received' = [received EXCEPT ![i][u] = @ + 1]
     /\ Ends(t)
     /\ UNCHANGED <<exists, invitation, token, password, resets, spoiled, crashes>>

(* signup_submit without a code, while sign-ups are open. *)
OpenSignUp(u) ==
  /\ u \notin exists
  /\ exists' = exists \cup {u}
  /\ UNCHANGED <<credits, invitation, token, password, task, received, resets, spoiled, crashes>>

-----------------------------------------------------------------------------
(* forgot_password_submit: earlier tokens of the account stay as they are. *)
Forgot(u, k) ==
  /\ u \in exists /\ token[k].state = "none"
  /\ token' = [token EXCEPT ![k] = [state |-> "sent", user |-> u]]
  /\ UNCHANGED <<exists, credits, invitation, password, task, received, resets, spoiled, crashes>>
Expire(k) ==
  /\ token[k].state = "sent"
  /\ token' = [token EXCEPT ![k].state = "expired"]
  /\ UNCHANGED <<exists, credits, invitation, password, task, received, resets, spoiled, crashes>>

(* reset_password_submit: the password is hashed between the check and the *)
(* commit.                                                                 *)
SubmitReset(t, k) ==
  /\ task[t].pc = "idle" /\ token[k].state = "sent"
  /\ Uses(t, "reset", token[k].user, k, "grant")
  /\ UNCHANGED <<exists, credits, invitation, token, password, received, resets, crashes>>
SetPassword(t) ==
  /\ task[t].pc = "reset"
  /\ password' = [password EXCEPT ![task[t].user] = task[t].code]
  /\ resets' = [resets EXCEPT ![task[t].code] = @ + 1]
  /\ Ends(t)
  /\ UNCHANGED <<exists, credits, invitation, received, spoiled, crashes>>
ResetAgain(t) == SetPassword(t) /\ UNCHANGED token
Reset(t) == SetPassword(t) /\ token' = [token EXCEPT ![task[t].code].state = "used"]

(* The worker dies in the middle of a request. *)
Crash(t) ==
  /\ task[t].pc # "idle"
  /\ crashes < MaxCrashes /\ crashes' = crashes + 1
  /\ Ends(t)
  /\ spoiled' = IF task[t].pc = "pay" THEN spoiled \cup {task[t].code} ELSE spoiled
  /\ UNCHANGED <<exists, credits, invitation, token, password, received, resets>>

CodesNext ==
  \/ \E t \in Tasks :
       \/ \E u \in Users, i \in Invitations : Redeem(t, u, i) \/ SignUp(t, u, i)
       \/ \E k \in Tokens : SubmitReset(t, k)
       \/ CreateAccount(t) \/ Recheck(t) \/ MarkRedeemed(t) \/ AddCredits(t)
       \/ Reset(t) \/ Crash(t)
  \/ \E i \in Invitations : Invite(i)
  \/ \E u \in Users : OpenSignUp(u) \/ \E k \in Tokens : Forgot(u, k)
  \/ \E k \in Tokens : Expire(k)

CodesSpec == CodesInit /\ [][CodesNext]_codeVars

-----------------------------------------------------------------------------
(* A redeemed invitation has given its credits to the account it names,    *)
(* once, and to no other, and an open one to nobody; unless two requests   *)
(* used it at once or a crash cut one short, which is all that can go      *)
(* wrong.  In no case do they go to somebody it was not for.               *)
CreditsFollowRedemption ==
  \A i \in Invitations, u \in Users :
    /\ i \notin spoiled /\ (\A t \in Tasks : task[t].code = i => task[t].pc # "pay") =>
         received[i][u] = IF invitation[i] = u THEN 1 ELSE 0
    /\ received[i][u] > 0 => Addressee(i) \in {None, u}

(* A reset token sets the password of the account it was issued for, once, *)
(* unless two requests used it at once.                                    *)
TokensResetOnce ==
  /\ \A k \in Tokens : /\ resets[k] > 0 => token[k].state = "used"
                       /\ k \notin spoiled => resets[k] <= 1
  /\ \A u \in Users : password[u] # None => token[password[u]].user = u
=============================================================================
