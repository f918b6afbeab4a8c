------------------------- MODULE CodesAndCallsProofs ------------------------
(***************************************************************************)
(* Proofs about Codes, for any accounts, invitations, tokens and any       *)
(* number of requests in flight, and about LlmCalls, for any runs, users   *)
(* and workers.                                                            *)
(***************************************************************************)
EXTENDS Codes, LlmCalls, TLAPS

(***************************************************************************)
(* Codes                                                                   *)
(***************************************************************************)
(* A row of the credits table stays a row under add_credits. *)
LEMMA AddedType ==
  ASSUME NEW row \in CreditRow, NEW n \in Int, NEW k
  PROVE  Added(row, n, k) \in CreditRow
<1>1. row.balance + n \in Int
  BY DEF CreditRow
<1>2. (IF k = "grant" /\ n >= 0 THEN row.granted + n ELSE row.granted) \in Nat
  BY DEF CreditRow
<1>3. (IF k = "purchase" /\ n >= 0 THEN row.purchased + n ELSE row.purchased) \in Nat
  BY DEF CreditRow
<1> QED
  BY <1>1, <1>2, <1>3, Zenon DEF Added, CreditRow

Task == [pc : {"idle", "create", "recheck", "use", "pay", "reset"},
         user : Users \cup {None}, kind : {"grant", "purchase"},
         code : Invitations \cup Tokens \cup {None}]

(***************************************************************************)
(* The invariant                                                           *)
(***************************************************************************)
(* What a request holds over its waits. *)
Holds(t) ==
  /\ task[t].pc # "idle" => task[t].user \in Users
  /\ task[t].pc \in {"create", "recheck", "use", "pay"} =>
       task[t].code \in Invitations /\ Addressee(task[t].code) \in {None, task[t].user}
  /\ task[t].pc = "reset" =>
       /\ task[t].code \in Tokens
       /\ token[task[t].code].user = task[t].user /\ token[task[t].code].state # "none"

At(t, step, c) == task[t].pc = step /\ task[t].code = c
Alone(steps, c) ==
  \A s, t \in Tasks : s # t => ~ (/\ task[s].pc \in steps /\ task[s].code = c
                                  /\ task[t].pc \in steps /\ task[t].code = c)
Paying(i) == \E t \in Tasks : At(t, "pay", i)

(* An invitation no two requests used at once is open until the one that   *)
(* uses it marks it, and has paid its account once that one is through.    *)
OneRedemption(i) ==
  i \notin spoiled =>
    /\ Alone({"use", "pay"}, i)
    /\ \A t \in Tasks : At(t, "use", i) => invitation[i] = "open"
    /\ \A t \in Tasks : At(t, "pay", i) => invitation[i] = task[t].user
    /\ \A u \in Users :
         received[i][u] = IF invitation[i] = u /\ ~Paying(i) THEN 1 ELSE 0

ForWhom(i) == \A u \in Users : received[i][u] > 0 => Addressee(i) \in {None, u}

(* The same for a token: a request that is about to use it is the first.   *)
OneReset(k) ==
  /\ token[k].state # "none" => token[k].user \in Users
  /\ resets[k] > 0 => token[k].state = "used"
  /\ k \notin spoiled =>
       /\ Alone({"reset"}, k)
       /\ \A t \in Tasks : At(t, "reset", k) => resets[k] = 0
       /\ resets[k] <= 1

OwnPassword(u) ==
  password[u] # None => /\ token[password[u]].user = u
                        /\ token[password[u]].state = "used"

CodesInv ==
  /\ CodesTypeOK
  /\ \A t \in Tasks : Holds(t)
  /\ \A i \in Invitations : OneRedemption(i) /\ ForWhom(i)
  /\ \A k \in Tokens : OneReset(k)
  /\ \A u \in Users : OwnPassword(u)

(***************************************************************************)
(* Steps of a request                                                      *)
(***************************************************************************)
LEMMA EndsEffect ==
  ASSUME CodesTypeOK, NEW t \in Tasks, Ends(t)
  PROVE  /\ task' \in [Tasks -> Task] /\ task'[t] = Idle
         /\ \A s \in Tasks \ {t} : task'[s] = task[s]
<1>1. Idle \in Task
  BY DEF Task, Idle
<1>2. task \in [Tasks -> Task]
  BY DEF CodesTypeOK, Task
<1> QED
  BY <1>1, <1>2 DEF Ends

LEMMA MovesEffect ==
  ASSUME CodesTypeOK, NEW t \in Tasks, NEW step \in {"recheck", "pay"},
         task' = [task EXCEPT ![t].pc = step]
  PROVE  /\ task' \in [Tasks -> Task]
         /\ task'[t].pc = step /\ task'[t].user = task[t].user /\ task'[t].code = task[t].code
         /\ \A s \in Tasks \ {t} : task'[s] = task[s]
<1>1. task \in [Tasks -> Task]
  BY DEF CodesTypeOK, Task
<1>2. [task[t] EXCEPT !.pc = step] \in Task
  BY <1>1 DEF Task
<1> QED
  BY <1>1, <1>2 DEF Task

(***************************************************************************)
(* Initial state                                                           *)
(***************************************************************************)
LEMMA CodesInvInit == CodesAssumption /\ CodesInit => CodesInv
<1> SUFFICES ASSUME CodesAssumption, CodesInit PROVE CodesInv
  OBVIOUS
<1>1. EmptyRow \in CreditRow /\ Idle \in Task
  BY DEF EmptyRow, CreditRow, Idle, Task
<1>2. CodesTypeOK
  BY <1>1 DEF CodesInit, CodesTypeOK, CodesAssumption, Task
<1>3. \A t \in Tasks : task[t].pc = "idle"
  BY DEF CodesInit, Idle
<1>4. \A i \in Invitations : OneRedemption(i) /\ ForWhom(i)
  BY <1>3 DEF CodesInit, OneRedemption, ForWhom, Alone, At, Paying, CodesAssumption
<1>5. \A k \in Tokens : OneReset(k)
  BY <1>3 DEF CodesInit, OneReset, Alone, At
<1> QED
  BY <1>2, <1>3, <1>4, <1>5 DEF CodesInv, Holds, OwnPassword, CodesInit

(***************************************************************************)
(* Requests that use a code                                                *)
(***************************************************************************)
rest == <<exists, credits, invitation, token, password, received, resets>>

(* A request that begins, or finds the code still unused.  If it is the    *)
(* first to use the code, nobody else holds it.                            *)
LEMMA UsesKeeps ==
  ASSUME CodesAssumption, CodesInv, NEW t \in Tasks, NEW step \in {"create", "use", "reset"},
         NEW u \in Users, NEW c \in Invitations \cup Tokens, NEW kind \in {"grant", "purchase"},
         task[t].pc \in {"idle", "recheck"},
         step # "reset" => c \in Invitations /\ Addressee(c) \in {None, u},
         step = "use" => invitation[c] = "open",
         step = "reset" => c \in Tokens /\ token[c].user = u /\ token[c].state = "sent",
         Uses(t, step, u, c, kind), UNCHANGED rest, UNCHANGED crashes
  PROVE  CodesInv'
<1>1. CodesTypeOK
  BY DEF CodesInv
<1> USE <1>1 DEF rest
<1>2. /\ task' \in [Tasks -> Task] /\ spoiled' \subseteq Invitations \cup Tokens
      /\ task'[t] = [pc |-> step, user |-> u, code |-> c, kind |-> kind]
      /\ \A s \in Tasks \ {t} : task'[s] = task[s]
      /\ spoiled \subseteq spoiled' /\ spoiled' \subseteq spoiled \cup {c}
      /\ c \notin spoiled' /\ step # "create" =>
           \A s \in Tasks \ {t} : task[s].code = c => task[s].pc \notin {"use", "reset"}
  <2>1. [pc |-> step, user |-> u, code |-> c, kind |-> kind] \in Task
    BY DEF Task
  <2>2. task \in [Tasks -> Task]
    BY DEF CodesTypeOK, Task
  <2> QED
    BY <2>1, <2>2 DEF Uses, CodesTypeOK
<1>3. CodesTypeOK'
  BY <1>2 DEF CodesTypeOK, Task
<1>4. ASSUME NEW s \in Tasks PROVE Holds(s)'
  BY <1>2 DEF CodesInv, Holds
<1>5. ASSUME NEW i \in Invitations PROVE OneRedemption(i)'
  <2>1. CASE i \in spoiled'
    BY <2>1 DEF OneRedemption
  <2>2. CASE i \notin spoiled'
    <3>1. i \notin spoiled /\ OneRedemption(i)
      BY <1>2, <2>2 DEF CodesInv
    <3>2. Paying(i)' <=> Paying(i)
      BY <1>2 DEF Paying, At
    <3>3. step = "use" /\ c = i => \A s \in Tasks : ~At(s, "pay", i) /\ ~At(s, "use", i)
      BY <1>2, <2>2, <3>1 DEF OneRedemption, At, CodesInv, Holds, CodesAssumption
    <3>4. Alone({"use", "pay"}, i)'
      BY <1>2, <3>1, <3>3 DEF OneRedemption, Alone, At
    <3>5. \A s \in Tasks : At(s, "use", i)' => invitation[i] = "open"
      BY <1>2, <3>1 DEF OneRedemption, At
    <3>6. \A s \in Tasks : At(s, "pay", i)' => invitation[i] = task'[s].user
      BY <1>2, <3>1 DEF OneRedemption, At
    <3> QED
      BY <3>1, <3>2, <3>4, <3>5, <3>6 DEF OneRedemption
  <2> QED
    BY <2>1, <2>2
<1>6. ASSUME NEW k \in Tokens PROVE OneReset(k)'
  <2>1. OneReset(k) /\ resets[k] \in Nat
    BY DEF CodesInv, CodesTypeOK
  <2>2. step = "reset" /\ c = k => resets[k] = 0
    BY <2>1 DEF OneReset
  <2>3. k \notin spoiled' => Alone({"reset"}, k)'
    BY <1>2, <2>1 DEF OneReset, Alone, At
  <2>4. k \notin spoiled' => \A s \in Tasks : At(s, "reset", k)' => resets[k] = 0
    BY <1>2, <2>1, <2>2 DEF OneReset, At
  <2> QED
    BY <1>2, <2>1, <2>3, <2>4 DEF OneReset
<1>7. \A i \in Invitations : ForWhom(i)'
  BY DEF CodesInv, ForWhom
<1>8. \A w \in Users : OwnPassword(w)'
  BY DEF CodesInv, OwnPassword
<1> QED
  BY <1>3, <1>4, <1>5, <1>6, <1>7, <1>8 DEF CodesInv

(* A request that ends without using its code, or dies. *)
LEMMA EndKeeps ==
  ASSUME CodesAssumption, CodesInv, NEW t \in Tasks, Ends(t),
         exists' \subseteq Users, crashes' \in 0 .. MaxCrashes,
         spoiled' \subseteq Invitations \cup Tokens, spoiled \subseteq spoiled',
         task[t].pc = "pay" => task[t].code \in spoiled',
         UNCHANGED <<credits, invitation, token, password, received, resets>>
  PROVE  CodesInv'
<1>1. CodesTypeOK
  BY DEF CodesInv
<1>2. /\ task' \in [Tasks -> Task] /\ task'[t] = Idle
      /\ \A s \in Tasks \ {t} : task'[s] = task[s]
  BY <1>1, EndsEffect
<1>3. CodesTypeOK'
  BY <1>1, <1>2 DEF CodesTypeOK, Task
<1>4. ASSUME NEW s \in Tasks PROVE Holds(s)'
  BY <1>2 DEF CodesInv, Holds, Idle
<1>5. ASSUME NEW i \in Invitations PROVE OneRedemption(i)'
  <2>1. CASE i \in spoiled'
    BY <2>1 DEF OneRedemption
  <2>2. CASE i \notin spoiled'
    <3>1. i \notin spoiled /\ OneRedemption(i)
      BY <2>2 DEF CodesInv
    <3>2. Paying(i)' <=> Paying(i)
      BY <1>2, <2>2 DEF Paying, At, Idle
    <3> QED
      BY <1>2, <3>1, <3>2 DEF OneRedemption, Alone, At, Idle
  <2> QED
    BY <2>1, <2>2
<1>6. ASSUME NEW k \in Tokens PROVE OneReset(k)'
  BY <1>2 DEF CodesInv, OneReset, Alone, At, Idle
<1>7. \A i \in Invitations : ForWhom(i)'
  BY DEF CodesInv, ForWhom
<1>8. \A w \in Users : OwnPassword(w)'
  BY DEF CodesInv, OwnPassword
<1> QED
  BY <1>3, <1>4, <1>5, <1>6, <1>7, <1>8 DEF CodesInv

LEMMA SignUpKeeps ==
  ASSUME CodesAssumption, CodesInv, NEW t \in Tasks, CreateAccount(t) \/ Recheck(t)
  PROVE  CodesInv'
<1>1. CodesTypeOK /\ Holds(t) /\ crashes \in 0 .. MaxCrashes
  BY DEF CodesInv, CodesTypeOK
<1>2. CASE CreateAccount(t)
  <2>1. exists' \subseteq Users /\ task[t].pc = "create"
    BY <1>1, <1>2 DEF CreateAccount, Holds, CodesTypeOK
  <2>2. CASE task[t].user \in exists
    BY <1>1, <1>2, <2>1, <2>2, EndKeeps DEF CreateAccount, CodesTypeOK
  <2>3. CASE task[t].user \notin exists
    <3>1. /\ task' \in [Tasks -> Task]
          /\ task'[t].pc = "recheck" /\ task'[t].user = task[t].user /\ task'[t].code = task[t].code
          /\ \A s \in Tasks \ {t} : task'[s] = task[s]
      BY <1>1, <1>2, <2>3, MovesEffect DEF CreateAccount
    <3>2. CodesTypeOK'
      BY <1>1, <1>2, <2>1, <3>1 DEF CodesTypeOK, Task, CreateAccount
    <3>3. \A s \in Tasks : Holds(s)'
      BY <1>2, <2>1, <3>1 DEF CodesInv, Holds, CreateAccount
    <3>4. ASSUME NEW i \in Invitations PROVE OneRedemption(i)' /\ ForWhom(i)'
      <4>1. Paying(i)' <=> Paying(i)
        BY <2>1, <3>1 DEF Paying, At
      <4> QED
        BY <1>2, <2>1, <3>1, <4>1 DEF CodesInv, OneRedemption, ForWhom, Alone, At, CreateAccount
    <3>5. \A k \in Tokens : OneReset(k)'
      BY <1>2, <2>1, <3>1 DEF CodesInv, OneReset, Alone, At, CreateAccount
    <3>6. \A w \in Users : OwnPassword(w)'
      BY <1>2 DEF CodesInv, OwnPassword, CreateAccount
    <3> QED
      BY <3>2, <3>3, <3>4, <3>5, <3>6 DEF CodesInv
  <2> QED
    BY <2>2, <2>3
<1>3. CASE Recheck(t) /\ invitation[task[t].code] = "open"
  <2>1. /\ task[t].pc = "recheck" /\ task[t].user \in Users /\ task[t].code \in Invitations
        /\ Addressee(task[t].code) \in {None, task[t].user}
        /\ Uses(t, "use", task[t].user, task[t].code, "purchase")
    BY <1>1, <1>3 DEF Recheck, Holds
  <2>2. UNCHANGED rest /\ UNCHANGED crashes
    BY <1>3 DEF Recheck, rest
  <2> QED
    BY <1>3, <2>1, <2>2, UsesKeeps
<1>4. CASE Recheck(t) /\ invitation[task[t].code] # "open"
  BY <1>1, <1>4, EndKeeps DEF Recheck, CodesTypeOK
<1> QED
  BY <1>2, <1>3, <1>4

(* The two commits of a redemption. *)
LEMMA MarkKeeps ==
  ASSUME CodesAssumption, CodesInv, NEW t \in Tasks, MarkRedeemed(t)
  PROVE  CodesInv'
<1>1. CodesTypeOK /\ Holds(t)
  BY DEF CodesInv
<1>a. PICK u, c : u = task[t].user /\ c = task[t].code
  OBVIOUS
<1>2. /\ task[t].pc = "use" /\ u \in Users /\ c \in Invitations
      /\ invitation' \in [Invitations -> Users \cup {"unsent", "open"}]
      /\ invitation'[c] = u /\ \A i \in Invitations \ {c} : invitation'[i] = invitation[i]
  BY <1>1, <1>a DEF MarkRedeemed, Holds, CodesTypeOK
<1>3. /\ task' \in [Tasks -> Task]
      /\ task'[t].pc = "pay" /\ task'[t].user = u /\ task'[t].code = c
      /\ \A s \in Tasks \ {t} : task'[s] = task[s]
  BY <1>1, <1>a, MovesEffect DEF MarkRedeemed
<1>4. CodesTypeOK'
  BY <1>1, <1>2, <1>a, <1>3 DEF CodesTypeOK, Task, MarkRedeemed
<1>5. \A s \in Tasks : Holds(s)'
  <2>1. Addressee(c) \in {None, u}
    BY <1>1, <1>2, <1>a DEF Holds
  <2> QED
    BY <1>2, <1>a, <1>3, <2>1 DEF CodesInv, Holds, MarkRedeemed
<1>6. ASSUME NEW i \in Invitations PROVE OneRedemption(i)'
  <2>1. CASE i \in spoiled
    BY <2>1 DEF OneRedemption, MarkRedeemed
  <2>2. CASE i \notin spoiled /\ i # c
    <3>1. Paying(i)' <=> Paying(i)
      BY <1>2, <1>a, <1>3, <2>2 DEF Paying, At
    <3> QED
      BY <1>2, <1>a, <1>3, <2>2, <3>1 DEF CodesInv, OneRedemption, Alone, At, MarkRedeemed
  <2>3. CASE i \notin spoiled /\ i = c
    <3>1. OneRedemption(c) /\ At(t, "use", c)
      BY <1>2, <1>a, <2>3 DEF CodesInv, At
    <3>2. /\ \A s \in Tasks \ {t} : ~At(s, "use", c) /\ ~At(s, "pay", c)
          /\ invitation[c] = "open"
      BY <1>2, <2>3, <3>1 DEF OneRedemption, Alone, At
    <3>3. \A w \in Users : received[c][w] = 0
      BY <2>3, <3>1, <3>2 DEF OneRedemption, CodesAssumption
    <3>4. Paying(c)'
      BY <1>3 DEF Paying, At
    <3>5. Alone({"use", "pay"}, c)'
      BY <1>3, <3>2 DEF Alone, At
    <3>6. \A s \in Tasks : ~At(s, "use", c)'
      BY <1>3, <3>2 DEF At
    <3>7. \A s \in Tasks : At(s, "pay", c)' => invitation'[c] = task'[s].user
      BY <1>2, <1>a, <1>3, <3>2 DEF At
    <3> QED
      BY <2>3, <3>3, <3>4, <3>5, <3>6, <3>7 DEF OneRedemption, MarkRedeemed
  <2> QED
    BY <2>1, <2>2, <2>3
<1>7. \A k \in Tokens : OneReset(k)'
  BY <1>2, <1>a, <1>3 DEF CodesInv, OneReset, Alone, At, MarkRedeemed
<1>8. \A i \in Invitations : ForWhom(i)'
  BY DEF CodesInv, ForWhom, MarkRedeemed
<1>9. \A w \in Users : OwnPassword(w)'
  BY DEF CodesInv, OwnPassword, MarkRedeemed
<1> QED
  BY <1>4, <1>5, <1>6, <1>7, <1>8, <1>9 DEF CodesInv

LEMMA PayKeeps ==
  ASSUME CodesAssumption, CodesInv, NEW t \in Tasks, AddCredits(t)
  PROVE  CodesInv'
<1>1. CodesTypeOK /\ Holds(t)
  BY DEF CodesInv
<1>a. PICK u, c : u = task[t].user /\ c = task[t].code
  OBVIOUS
<1>2. /\ task[t].pc = "pay" /\ u \in Users /\ c \in Invitations /\ Addressee(c) \in {None, u}
      /\ task[t].kind \in {"grant", "purchase"}
  BY <1>1, <1>a DEF AddCredits, Holds, CodesTypeOK
<1>3. /\ task' \in [Tasks -> Task] /\ task'[t] = Idle
      /\ \A s \in Tasks \ {t} : task'[s] = task[s]
  BY <1>1, EndsEffect DEF AddCredits
<1>4. credits' \in [Users -> CreditRow]
  <2>1. credits \in [Users -> CreditRow] /\ Amount(c) \in Int
    BY <1>1, <1>2 DEF CodesTypeOK, CodesAssumption
  <2>2. Added(credits[u], Amount(c), task[t].kind) \in CreditRow
    BY <1>2, <2>1, AddedType
  <2> QED
    BY <1>a, <1>2, <2>1, <2>2 DEF AddCredits
<1>5. /\ received' \in [Invitations -> [Users -> Nat]]
      /\ received'[c][u] = received[c][u] + 1
      /\ \A w \in Users \ {u} : received'[c][w] = received[c][w]
      /\ \A i \in Invitations \ {c} : received'[i] = received[i]
  BY <1>1, <1>a, <1>2 DEF AddCredits, CodesTypeOK
<1>6. CodesTypeOK'
  BY <1>1, <1>3, <1>4, <1>5 DEF CodesTypeOK, Task, AddCredits
<1>7. \A s \in Tasks : Holds(s)'
  BY <1>3 DEF CodesInv, Holds, Idle, AddCredits
<1>8. ASSUME NEW i \in Invitations PROVE OneRedemption(i)'
  <2>1. CASE i \in spoiled
    BY <2>1 DEF OneRedemption, AddCredits
  <2>2. CASE i \notin spoiled /\ i # c
    <3>1. Paying(i)' <=> Paying(i)
      BY <1>2, <1>a, <1>3, <2>2 DEF Paying, At, Idle
    <3> QED
      BY <1>2, <1>a, <1>3, <1>5, <2>2, <3>1
      DEF CodesInv, OneRedemption, Alone, At, AddCredits, Idle
  <2>3. CASE i \notin spoiled /\ i = c
    <3>1. OneRedemption(c) /\ At(t, "pay", c) /\ Paying(c)
      BY <1>2, <1>a, <2>3 DEF CodesInv, At, Paying
    <3>2. /\ \A s \in Tasks \ {t} : ~At(s, "use", c) /\ ~At(s, "pay", c)
          /\ invitation[c] = u /\ invitation' = invitation
      BY <1>2, <1>a, <2>3, <3>1 DEF OneRedemption, Alone, At, AddCredits
    <3>3. \A w \in Users : received[c][w] = 0
      BY <2>3, <3>1 DEF OneRedemption
    <3>4. \A s \in Tasks : ~At(s, "use", c)' /\ ~At(s, "pay", c)'
      BY <1>3, <3>2 DEF At, Idle
    <3>5. \A w \in Users : received'[c][w] = IF invitation'[c] = w THEN 1 ELSE 0
      BY <1>2, <1>5, <3>2, <3>3
    <3> QED
      BY <2>3, <3>4, <3>5 DEF OneRedemption, Alone, Paying, At
  <2> QED
    BY <2>1, <2>2, <2>3
<1>9. \A i \in Invitations : ForWhom(i)'
  <2>1. \A i \in Invitations : ForWhom(i)
    BY DEF CodesInv
  <2> QED
    BY <1>2, <1>5, <2>1 DEF ForWhom
<1>10. \A k \in Tokens : OneReset(k)'
  BY <1>3 DEF CodesInv, OneReset, Alone, At, AddCredits, Idle
<1>11. \A w \in Users : OwnPassword(w)'
  BY DEF CodesInv, OwnPassword, AddCredits
<1> QED
  BY <1>6, <1>7, <1>8, <1>9, <1>10, <1>11 DEF CodesInv

(* The commit that sets the password and closes the token. *)
LEMMA ResetKeeps ==
  ASSUME CodesAssumption, CodesInv, NEW t \in Tasks, Reset(t)
  PROVE  CodesInv'
<1>1. CodesTypeOK /\ Holds(t)
  BY DEF CodesInv
<1>a. PICK u, c : u = task[t].user /\ c = task[t].code
  OBVIOUS
<1>2. /\ task[t].pc = "reset" /\ u \in Users /\ c \in Tokens /\ token[c].user = u
      /\ token[c].state # "none"
  BY <1>1, <1>a DEF Reset, SetPassword, Holds
<1>3. /\ task' \in [Tasks -> Task] /\ task'[t] = Idle
      /\ \A s \in Tasks \ {t} : task'[s] = task[s]
  BY <1>1, EndsEffect DEF Reset, SetPassword
<1>4. /\ token' \in [Tokens -> [state : {"none", "sent", "expired", "used"},
                               user : Users \cup {None}]]
      /\ token'[c].state = "used" /\ token'[c].user = u
      /\ \A k \in Tokens \ {c} : token'[k] = token[k]
      /\ password' \in [Users -> Tokens \cup {None}] /\ password'[u] = c
      /\ \A w \in Users \ {u} : password'[w] = password[w]
      /\ resets' \in [Tokens -> Nat] /\ resets'[c] = resets[c] + 1
      /\ \A k \in Tokens \ {c} : resets'[k] = resets[k]
  BY <1>1, <1>a, <1>2 DEF Reset, SetPassword, CodesTypeOK
<1>5. CodesTypeOK'
  BY <1>1, <1>3, <1>4 DEF CodesTypeOK, Task, Reset, SetPassword
<1>6. ASSUME NEW s \in Tasks PROVE Holds(s)'
  BY <1>2, <1>3, <1>4 DEF CodesInv, Holds, Idle
<1>7. ASSUME NEW i \in Invitations PROVE OneRedemption(i)' /\ ForWhom(i)'
  <2>1. Paying(i)' <=> Paying(i)
    BY <1>2, <1>3 DEF Paying, At, Idle
  <2> QED
    BY <1>2, <1>3, <2>1
    DEF CodesInv, OneRedemption, ForWhom, Alone, At, Reset, SetPassword, Idle
<1>8. ASSUME NEW k \in Tokens PROVE OneReset(k)'
  <2>1. OneReset(k) /\ resets[k] \in Nat /\ spoiled' = spoiled
    BY <1>1 DEF CodesInv, CodesTypeOK, Reset, SetPassword
  <2>2. CASE k # c
    BY <1>2, <1>a, <1>3, <1>4, <2>1, <2>2 DEF OneReset, Alone, At, Idle
  <2>3. CASE k = c
    <3>1. c \notin spoiled => resets[c] = 0 /\ \A s \in Tasks \ {t} : ~At(s, "reset", c)
      BY <1>2, <1>a, <2>1, <2>3 DEF OneReset, Alone, At
    <3>2. c \notin spoiled => \A s \in Tasks : ~At(s, "reset", c)'
      BY <1>3, <3>1 DEF At, Idle
    <3> QED
      BY <1>2, <1>4, <2>1, <2>3, <3>1, <3>2 DEF OneReset, Alone, At
  <2> QED
    BY <2>2, <2>3
<1>9. ASSUME NEW w \in Users PROVE OwnPassword(w)'
  <2>1. CASE w = u
    BY <1>2, <1>4, <2>1 DEF OwnPassword
  <2>2. CASE w # u
    <3>1. OwnPassword(w) /\ password'[w] = password[w] /\ password[w] \in Tokens \cup {None}
      BY <1>1, <1>4, <2>2 DEF CodesInv, CodesTypeOK
    <3> QED
      BY <1>2, <1>4, <3>1 DEF OwnPassword
  <2> QED
    BY <2>1, <2>2
<1> QED
  BY <1>5, <1>6, <1>7, <1>8, <1>9 DEF CodesInv

(***************************************************************************)
(* Steps outside the requests                                              *)
(***************************************************************************)
LEMMA InviteKeeps ==
  ASSUME CodesAssumption, CodesInv, NEW i \in Invitations, Invite(i)
  PROVE  CodesInv'
<1>1. /\ invitation' \in [Invitations -> Users \cup {"unsent", "open"}]
      /\ invitation'[i] = "open" /\ invitation[i] = "unsent"
      /\ \A j \in Invitations \ {i} : invitation'[j] = invitation[j]
  BY DEF Invite, CodesInv, CodesTypeOK
<1>2. CodesTypeOK'
  BY <1>1 DEF CodesInv, CodesTypeOK, Invite
<1>3. \A t \in Tasks : Holds(t)'
  BY DEF CodesInv, Holds, Invite
<1>4. ASSUME NEW j \in Invitations PROVE OneRedemption(j)' /\ ForWhom(j)'
  <2>1. OneRedemption(j) /\ ForWhom(j) /\ (Paying(j)' <=> Paying(j)) /\ CodesTypeOK
    BY DEF CodesInv, Paying, At, Invite
  <2>2. CASE j # i
    BY <1>1, <2>1, <2>2 DEF OneRedemption, ForWhom, Alone, At, Invite
  <2>3. CASE j = i
    <3>1. \A w \in Users : invitation[i] # w /\ invitation'[i] # w
      BY <1>1 DEF CodesAssumption
    <3>2. \A t \in Tasks : At(t, "pay", i) => task[t].user \in Users
      BY DEF CodesInv, Holds, At
    <3> QED
      BY <1>1, <2>1, <2>3, <3>1, <3>2 DEF OneRedemption, ForWhom, Alone, At, Invite
  <2> QED
    BY <2>2, <2>3
<1>5. \A k \in Tokens : OneReset(k)'
  BY DEF CodesInv, OneReset, Alone, At, Invite
<1>6. \A w \in Users : OwnPassword(w)'
  BY DEF CodesInv, OwnPassword, Invite
<1> QED
  BY <1>2, <1>3, <1>4, <1>5, <1>6 DEF CodesInv

(* A token is sent or expires; nobody has reset anything with an unsent    *)
(* one.                                                                    *)
LEMMA TokenKeeps ==
  ASSUME CodesAssumption, CodesInv, NEW k \in Tokens,
         (\E u \in Users : Forgot(u, k)) \/ Expire(k)
  PROVE  CodesInv'
<1>1. /\ token' \in [Tokens -> [state : {"none", "sent", "expired", "used"},
                               user : Users \cup {None}]]
      /\ token[k].state \in {"none", "sent"} /\ token'[k].state \in {"sent", "expired"}
      /\ token[k].state = "sent" => token'[k].user = token[k].user
      /\ token'[k].user \in Users
      /\ \A j \in Tokens \ {k} : token'[j] = token[j]
  <2>1. /\ token \in [Tokens -> [state : {"none", "sent", "expired", "used"},
                               user : Users \cup {None}]]
        /\ token[k].state = "sent" => token[k].user \in Users
    BY DEF CodesInv, CodesTypeOK, OneReset
  <2>2. CASE \E u \in Users : Forgot(u, k)
    <3>1. PICK u \in Users : Forgot(u, k)
      BY <2>2
    <3> QED
      BY <2>1, <3>1 DEF Forgot
  <2>3. CASE Expire(k)
    BY <2>1, <2>3 DEF Expire
  <2> QED
    BY <2>2, <2>3
<1>2. UNCHANGED <<exists, credits, invitation, password, task, received, resets, spoiled, crashes>>
  BY DEF Forgot, Expire
<1>3. CodesTypeOK'
  BY <1>1, <1>2 DEF CodesInv, CodesTypeOK
<1>4. ASSUME NEW t \in Tasks PROVE Holds(t)'
  BY <1>1, <1>2 DEF CodesInv, Holds
<1>5. ASSUME NEW i \in Invitations PROVE OneRedemption(i)' /\ ForWhom(i)'
  BY <1>2 DEF CodesInv, OneRedemption, ForWhom, Alone, At, Paying
<1>6. ASSUME NEW j \in Tokens PROVE OneReset(j)'
  <2>1. OneReset(j) /\ resets[j] \in Nat
    BY DEF CodesInv, CodesTypeOK
  <2> QED
    BY <1>1, <1>2, <2>1 DEF OneReset, Alone, At
<1>7. ASSUME NEW w \in Users PROVE OwnPassword(w)'
  <2>1. OwnPassword(w) /\ password[w] \in Tokens \cup {None}
    BY DEF CodesInv, CodesTypeOK
  <2> QED
    BY <1>1, <1>2, <2>1 DEF OwnPassword
<1> QED
  BY <1>3, <1>4, <1>5, <1>6, <1>7 DEF CodesInv

(***************************************************************************)
(* Theorems                                                                *)
(***************************************************************************)
LEMMA CodesInvStep == CodesAssumption /\ CodesInv /\ [CodesNext]_codeVars => CodesInv'
<1> SUFFICES ASSUME CodesAssumption, CodesInv, [CodesNext]_codeVars PROVE CodesInv'
  OBVIOUS
<1>a. CodesTypeOK /\ crashes \in 0 .. MaxCrashes /\ spoiled \subseteq Invitations \cup Tokens
  BY DEF CodesInv, CodesTypeOK
<1>1. ASSUME NEW t \in Tasks, NEW u \in Users, NEW i \in Invitations,
             Redeem(t, u, i) \/ SignUp(t, u, i)
      PROVE  CodesInv'
  <2>1. /\ task[t].pc = "idle" /\ invitation[i] = "open" /\ Addressee(i) \in {None, u}
        /\ UNCHANGED rest /\ UNCHANGED crashes
    BY <1>1 DEF Redeem, SignUp, Redeemable, rest
  <2>2. PICK step \in {"create", "use"}, kind \in {"grant", "purchase"} :
          Uses(t, step, u, i, kind)
    BY <1>1 DEF Redeem, SignUp
  <2> QED
    BY <2>1, <2>2, UsesKeeps
<1>2. ASSUME NEW t \in Tasks, NEW k \in Tokens, SubmitReset(t, k) PROVE CodesInv'
  <2>1. /\ task[t].pc = "idle" /\ token[k].state = "sent"
        /\ UNCHANGED rest /\ UNCHANGED crashes /\ Uses(t, "reset", token[k].user, k, "grant")
    BY <1>2 DEF SubmitReset, rest
  <2>2. PICK u \in Users : u = token[k].user
    BY <2>1 DEF CodesInv, OneReset
  <2>3. Uses(t, "reset", u, k, "grant")
    BY <2>1, <2>2
  <2>4. k \in Tokens /\ token[k].user = u /\ token[k].state = "sent"
    BY <2>1, <2>2
  <2> QED
    BY <2>1, <2>3, <2>4, UsesKeeps
<1>3. ASSUME NEW t \in Tasks, Crash(t) PROVE CodesInv'
  <2>1. /\ crashes' \in 0 .. MaxCrashes /\ Ends(t) /\ exists' \subseteq Users
        /\ UNCHANGED <<credits, invitation, token, password, received, resets>>
        /\ spoiled \subseteq spoiled'
        /\ task[t].pc = "pay" => task[t].code \in spoiled'
    BY <1>a, <1>3 DEF Crash, CodesTypeOK, CodesAssumption
  <2>2. task[t].pc = "pay" => task[t].code \in Invitations
    BY DEF CodesInv, Holds
  <2>3. spoiled' \subseteq Invitations \cup Tokens
    BY <1>a, <1>3, <2>2 DEF Crash
  <2> QED
    BY <2>1, <2>3, EndKeeps
<1>4. ASSUME NEW u \in Users, OpenSignUp(u) PROVE CodesInv'
  <2>1. exists' \subseteq Users /\ UNCHANGED <<credits, invitation, token, password, task,
                                              received, resets, spoiled, crashes>>
    BY <1>a, <1>4 DEF OpenSignUp, CodesTypeOK
  <2>2. CodesTypeOK'
    BY <1>a, <2>1 DEF CodesTypeOK
  <2>3. \A t \in Tasks : Holds(t)'
    BY <2>1 DEF CodesInv, Holds
  <2>4. ASSUME NEW i \in Invitations PROVE OneRedemption(i)' /\ ForWhom(i)'
    BY <2>1 DEF CodesInv, OneRedemption, ForWhom, Alone, At, Paying
  <2>5. \A k \in Tokens : OneReset(k)'
    BY <2>1 DEF CodesInv, OneReset, Alone, At
  <2>6. \A w \in Users : OwnPassword(w)'
    BY <2>1 DEF CodesInv, OwnPassword
  <2> QED
    BY <2>2, <2>3, <2>4, <2>5, <2>6 DEF CodesInv
<1>5. CASE UNCHANGED codeVars
  BY <1>5 DEF codeVars, CodesInv, CodesTypeOK, Holds, OneRedemption, ForWhom, OneReset, OwnPassword, Alone,
              At, Paying
<1> QED
  BY <1>1, <1>2, <1>3, <1>4, <1>5, SignUpKeeps, MarkKeeps, PayKeeps, ResetKeeps, InviteKeeps,
     TokenKeeps DEF CodesNext

(* The inductive invariant, from the assumption on the constants alone. *)
THEOREM CodesInvariantHolds == CodesSpec => []CodesInv
BY CodesAssumption, CodesInvInit, CodesInvStep, PTL DEF CodesSpec

(* Accounts, balances, invitations, tokens and requests keep their types. *)
THEOREM CodesTypeCorrect == CodesSpec => []CodesTypeOK
BY CodesInvariantHolds, PTL DEF CodesInv

(* A redeemed invitation has given its credits to the account it names,    *)
(* once, unless two requests used it at once or a crash cut one short; and *)
(* never to somebody it was not for.                                       *)
THEOREM RedeemedOnce == CodesSpec => []CreditsFollowRedemption
<1>1. CodesInv => CreditsFollowRedemption
  BY DEF CodesInv, OneRedemption, ForWhom, Paying, At, CreditsFollowRedemption
<1> QED
  BY <1>1, CodesInvariantHolds, PTL

(* A reset token sets one password, that of the account it was sent to.    *)
THEOREM ResetOnce == CodesSpec => []TokensResetOnce
<1>1. CodesInv => TokensResetOnce
  BY DEF CodesInv, OneReset, OwnPassword, TokensResetOnce
<1> QED
  BY <1>1, CodesInvariantHolds, PTL

(***************************************************************************)
(* LlmCalls: every task of a run has the run's own context, a call that is *)
(* still to be logged has seen whatever consent holds now, and a worker    *)
(* nothing has outdated has the stored flag or is about to.                *)
(***************************************************************************)
CallType == [stage : Stages, ctx : Contexts, saw : SUBSET {"eligible", "optedIn"}]
RunType == [pc : {"idle", "keywords", "cv", "gather", "polish", "call", "done"},
            at : Workers \cup {None}]
Live == {"open", "ended", "row", "eligible", "agreed"}

(* A context of run r, whatever the service. *)
Bound(c, r) == c.attempt = AttemptOf(r) /\ c.user = UserOf(r) /\ c.tx = r
Started(r) == IF run[r].pc = "idle" THEN run[r].at = None ELSE Bound(ctx[r]["main"], r)
Asked(r, p) ==
  /\ call[r][p].stage # "none" => run[r].pc # "idle"
  /\ call[r][p].stage = "ready" => p \in Polish /\ Bound(ctx[r][p], r)
  /\ call[r][p].stage \notin {"none", "ready", "lost"} =>
       /\ Bound(call[r][p].ctx, r)
       /\ p # "groups" => call[r][p].ctx.service = p

(* What has been seen on behalf of a call, by its stage. *)
Saw(c) ==
  /\ c.stage \in Live /\ c.ctx.user # None =>
       /\ eligible[c.ctx.user] => "eligible" \in c.saw
       /\ optedIn[c.ctx.user] => "optedIn" \in c.saw
  /\ c.stage \in {"eligible", "agreed"} => c.ctx.user # None /\ "eligible" \in c.saw
  /\ c.stage = "agreed" => "optedIn" \in c.saw
  /\ c.stage = "saved" => c.saw = {"eligible", "optedIn"}

Follows(w) == \/ setting[w] = {} /\ cache[w] = stored
              \/ setting[w] = {stored}

IInv ==
  /\ TypeOK
  /\ \A r \in Runs : Started(r)
  /\ \A r \in Runs, p \in Parts : Asked(r, p) /\ Saw(call[r][p])
  /\ granted = optedIn
  /\ \A w \in current : Follows(w)

(***************************************************************************)
(* Types and effects                                                       *)
(***************************************************************************)
LEMMA Constants ==
  /\ "main" \in RunTasks /\ Polish \subseteq RunTasks /\ Polish \subseteq Parts
  /\ "main" \notin Polish /\ "keywords" \notin Polish /\ "cv" \notin Polish
  /\ \A p \in Parts : TaskOf(p) \in RunTasks
  /\ Default \in Contexts /\ NoCall \in CallType
BY CallsAssumption DEF RunTasks, Parts, TaskOf, Default, Contexts, NoCall, CallType, Stages

LEMMA Types ==
  ASSUME TypeOK
  PROVE  /\ run \in [Runs -> RunType] /\ ctx \in [Runs -> [RunTasks -> Contexts]]
         /\ call \in [Runs -> [Parts -> CallType]]
BY DEF TypeOK, RunType, CallType

(* One call of one run changes. *)
LEMMA OneCall ==
  ASSUME TypeOK, NEW r \in Runs, NEW p \in Parts, NEW x \in CallType,
         call' = [call EXCEPT ![r][p] = x]
  PROVE  /\ call' \in [Runs -> [Parts -> CallType]] /\ call'[r][p] = x
         /\ \A s \in Runs, q \in Parts : s # r \/ q # p => call'[s][q] = call[s][q]
BY Types

(* Nobody says anything and the flag is left alone. *)
LEMMA Quiet ==
  ASSUME IInv, UNCHANGED <<consent, flag, events>>
  PROVE  /\ \A c : Saw(c) => Saw(c)'
         /\ granted' = optedIn' /\ \A w \in current' : Follows(w)'
         /\ eligible' \in [Users -> BOOLEAN] /\ granted' \in [Users -> BOOLEAN]
         /\ optedIn' \in [Users -> BOOLEAN] /\ asking' \in [Users -> {"none", "grant", "withdraw"}]
         /\ stored' \in BOOLEAN /\ cache' \in [Workers -> BOOLEAN]
         /\ setting' \in [Workers -> SUBSET BOOLEAN]
         /\ current' \subseteq Workers /\ events' \in 0 .. MaxEvents
<1>1. granted' = optedIn' /\ \A w \in current' : Follows(w)'
  BY DEF IInv, consent, flag, Follows
<1>2. /\ eligible' \in [Users -> BOOLEAN] /\ granted' \in [Users -> BOOLEAN]
      /\ optedIn' \in [Users -> BOOLEAN] /\ asking' \in [Users -> {"none", "grant", "withdraw"}]
      /\ stored' \in BOOLEAN /\ cache' \in [Workers -> BOOLEAN]
      /\ setting' \in [Workers -> SUBSET BOOLEAN]
      /\ current' \subseteq Workers /\ events' \in 0 .. MaxEvents
  BY DEF IInv, TypeOK, consent, flag
<1>3. ASSUME NEW c, Saw(c) PROVE (Saw(c))'
  BY <1>3 DEF consent, Saw
<1> QED
  BY <1>1, <1>2, <1>3

(* What is left to show of a step of a run. *)
LEMMA RunKeeps ==
  ASSUME IInv, UNCHANGED <<consent, flag, events>>,
         run' \in [Runs -> RunType], ctx' \in [Runs -> [RunTasks -> Contexts]],
         call' \in [Runs -> [Parts -> CallType]],
         \A r \in Runs : Started(r)', \A r \in Runs, p \in Parts : Asked(r, p)',
         \A r \in Runs, p \in Parts : Saw(call'[r][p])
  PROVE  IInv'
<1>1. \A r \in Runs, p \in Parts : (Saw(call[r][p]))'
  BY DEF Saw, consent
<1>2. TypeOK'
  BY Quiet DEF TypeOK, RunType, CallType
<1> QED
  BY <1>1, <1>2, Quiet DEF IInv

(* The phase of one run changes; it had begun, or has its context now. *)
LEMMA StartedKeeps ==
  ASSUME IInv, NEW r \in Runs, NEW x \in RunType, run' = [run EXCEPT ![r] = x], x.pc # "idle",
         \A s \in Runs \ {r} : ctx'[s]["main"] = ctx[s]["main"],
         Bound(ctx'[r]["main"], r)
  PROVE  /\ run' \in [Runs -> RunType]
         /\ \A s \in Runs : Started(s)'
         /\ \A s \in Runs : run[s].pc # "idle" => run'[s].pc # "idle"
<1>1. /\ run' \in [Runs -> RunType] /\ run'[r] = x
      /\ \A s \in Runs \ {r} : run'[s] = run[s]
  BY Types DEF IInv
<1>2. Started(r)'
  BY <1>1 DEF Started, Bound
<1>3. ASSUME NEW s \in Runs \ {r} PROVE Started(s)'
  BY <1>1, <1>3 DEF IInv, Started, Bound
<1> QED
  BY <1>1, <1>2, <1>3

(***************************************************************************)
(* The steps of a run                                                      *)
(***************************************************************************)
LEMMA BeginKeeps ==
  ASSUME IInv, NEW r \in Runs, NEW w \in Workers, Begin(r, w)
  PROVE  IInv'
<1> DEFINE x == [pc |-> IF Kind(r) = "pipeline" THEN "keywords" ELSE "call", at |-> w]
           c == Bind(r, EntryService[Kind(r)])
<1>1. /\ run' = [run EXCEPT ![r] = x] /\ ctx' = [ctx EXCEPT ![r]["main"] = c]
      /\ UNCHANGED <<call, consent, flag, events>>
  BY DEF Begin
<1>2. x \in RunType /\ x.pc # "idle"
  BY DEF RunType
<1>3. c \in Contexts /\ Bound(c, r)
  <2>1. EntryService[Kind(r)] \in Parts \cup {"unknown", "pipeline"}
    BY CallsAssumption DEF EntryService, Parts
  <2> QED
    BY <2>1, CallsAssumption DEF Bind, Contexts, Bound
<1>4. /\ ctx' \in [Runs -> [RunTasks -> Contexts]] /\ ctx'[r]["main"] = c
      /\ \A s \in Runs \ {r} : ctx'[s] = ctx[s]
      /\ \A p \in Polish : ctx'[r][p] = ctx[r][p]
  <2> HIDE DEF c
  <2> QED
    BY <1>1, <1>3, Constants, Types DEF IInv
<1>5. /\ run' \in [Runs -> RunType]
      /\ \A s \in Runs : Started(s)'
      /\ \A s \in Runs : run[s].pc # "idle" => run'[s].pc # "idle"
  <2>1. Bound(ctx'[r]["main"], r) /\ \A s \in Runs \ {r} : ctx'[s]["main"] = ctx[s]["main"]
    BY <1>3, <1>4
  <2> HIDE DEF c, x
  <2> QED
    BY <1>1, <1>2, <2>1, StartedKeeps
<1>6. \A s \in Runs, p \in Parts : Asked(s, p)'
  BY <1>1, <1>4, <1>5 DEF IInv, Asked, Bound
<1>7. /\ call' \in [Runs -> [Parts -> CallType]]
      /\ \A s \in Runs, p \in Parts : Saw(call'[s][p])
  BY <1>1, Types DEF IInv
<1> QED
  BY <1>1, <1>4, <1>5, <1>6, <1>7, RunKeeps

LEMMA SkipKeeps ==
  ASSUME IInv, NEW r \in Runs, Skip(r) \/ Finish(r)
  PROVE  IInv'
<1>1. PICK pc \in {"cv", "gather", "done"} : run' = [run EXCEPT ![r] = [@ EXCEPT !.pc = pc]]
  BY DEF Skip, Finish
<1> DEFINE x == [run[r] EXCEPT !.pc = pc]
<1>2. /\ run[r].pc # "idle" /\ UNCHANGED <<ctx, call, consent, flag, events>>
  BY DEF Skip, Finish
<1>3. x \in RunType /\ x.pc # "idle" /\ run' = [run EXCEPT ![r] = x]
  BY <1>1, Types DEF IInv, RunType
<1>4. Bound(ctx'[r]["main"], r) /\ \A s \in Runs : ctx'[s]["main"] = ctx[s]["main"]
  BY <1>2 DEF IInv, Started
<1>5. /\ run' \in [Runs -> RunType]
      /\ \A s \in Runs : Started(s)'
      /\ \A s \in Runs : run[s].pc # "idle" => run'[s].pc # "idle"
  <2> HIDE DEF x
  <2> QED
    BY <1>3, <1>4, StartedKeeps
<1>6. \A s \in Runs, p \in Parts : Asked(s, p)'
  BY <1>2, <1>5 DEF IInv, Asked, Bound
<1>7. /\ call' \in [Runs -> [Parts -> CallType]] /\ ctx' \in [Runs -> [RunTasks -> Contexts]]
      /\ \A s \in Runs, p \in Parts : Saw(call'[s][p])
  BY <1>2, Types DEF IInv
<1> QED
  BY <1>2, <1>5, <1>6, <1>7, RunKeeps

(* Every part that is to be done gets the context of the run. *)
LEMMA GatherKeeps ==
  ASSUME IInv, NEW r \in Runs, Gather(r)
  PROVE  IInv'
<1> DEFINE x == [run[r] EXCEPT !.pc = "polish"]
<1>1. PICK parts \in SUBSET Polish :
        /\ ctx' = [ctx EXCEPT ![r] = [t \in RunTasks |-> IF t \in parts THEN ctx[r]["main"]
                                                                    ELSE ctx[r][t]]]
        /\ call' = [call EXCEPT ![r] = [p \in Parts |-> IF p \in parts
                                            THEN [NoCall EXCEPT !.stage = "ready"]
                                            ELSE call[r][p]]]
  <2>1. PICK missing \in SUBSET Polish :
          LET parts == {p \in missing : p = "cover" => cache[run[r].at]}
          IN /\ ctx' = [ctx EXCEPT ![r] = [t \in RunTasks |-> IF t \in parts THEN ctx[r]["main"]
                                                                         ELSE ctx[r][t]]]
             /\ call' = [call EXCEPT ![r] = [p \in Parts |-> IF p \in parts
                                               THEN [NoCall EXCEPT !.stage = "ready"]
                                               ELSE call[r][p]]]
    BY DEF Gather
  <2>2. {p \in missing : p = "cover" => cache[run[r].at]} \in SUBSET Polish
    OBVIOUS
  <2> QED
    BY <2>1, <2>2
<1>2. /\ run[r].pc # "idle" /\ run' = [run EXCEPT ![r] = x] /\ UNCHANGED <<consent, flag, events>>
  BY Types DEF Gather, IInv
<1>3. x \in RunType /\ x.pc # "idle"
  BY Types DEF IInv, RunType
<1>4. Bound(ctx[r]["main"], r) /\ ctx[r]["main"] \in Contexts
  BY <1>2, Types, Constants DEF IInv, Started
<1>5. /\ ctx' \in [Runs -> [RunTasks -> Contexts]]
      /\ \A s \in Runs \ {r} : ctx'[s] = ctx[s]
      /\ \A t \in RunTasks : ctx'[r][t] = IF t \in parts THEN ctx[r]["main"] ELSE ctx[r][t]
      /\ ctx'[r]["main"] = ctx[r]["main"]
  BY <1>1, <1>4, Types, Constants DEF IInv
<1>6. /\ run' \in [Runs -> RunType]
      /\ \A s \in Runs : Started(s)'
      /\ \A s \in Runs : run[s].pc # "idle" => run'[s].pc # "idle"
  <2> HIDE DEF x
  <2> QED
    BY <1>2, <1>3, <1>4, <1>5, StartedKeeps
<1>7. [NoCall EXCEPT !.stage = "ready"] \in CallType
  BY Constants DEF CallType, Stages
<1>8. /\ call' \in [Runs -> [Parts -> CallType]]
      /\ \A s \in Runs \ {r} : call'[s] = call[s]
      /\ \A p \in Parts : call'[r][p] = IF p \in parts THEN [NoCall EXCEPT !.stage = "ready"]
                                                     ELSE call[r][p]
  <2> HIDE DEF NoCall
  <2> QED
    BY <1>1, <1>7, Types DEF IInv
<1>9. [NoCall EXCEPT !.stage = "ready"].stage = "ready"
  BY DEF NoCall
<1>10. \A s \in Runs, p \in Parts : Saw(call'[s][p])
  <2>1. Saw([NoCall EXCEPT !.stage = "ready"])
    BY <1>9 DEF Saw, Live
  <2> HIDE DEF NoCall
  <2> QED
    BY <1>8, <2>1 DEF IInv
<1>11. ASSUME NEW s \in Runs, NEW p \in Parts PROVE Asked(s, p)'
  <2>1. CASE s # r
    <3>1. call'[s][p] = call[s][p] /\ ctx'[s] = ctx[s]
      BY <1>5, <1>8, <2>1
    <3> QED
      BY <1>6, <3>1 DEF IInv, Asked, Bound
  <2>2. CASE s = r /\ p \in parts
    <3>1. call'[r][p].stage = "ready" /\ p \in Polish
      BY <1>1, <1>8, <1>9, <2>2
    <3>2. ctx'[r][p] = ctx[r]["main"] /\ run'[r].pc # "idle"
      BY <1>2, <1>5, <1>6, <2>2, <3>1, Constants
    <3> QED
      BY <1>4, <2>2, <3>1, <3>2 DEF Asked, Bound
  <2>3. CASE s = r /\ p \notin parts
    BY <1>5, <1>6, <1>8, <2>3, Constants DEF IInv, Asked, Bound
  <2> QED
    BY <2>1, <2>2, <2>3
<1> QED
  BY <1>2, <1>5, <1>6, <1>8, <1>10, <1>11, RunKeeps

(* A part is due only in a run that has begun, and its task has the run's  *)
(* context.                                                                *)
LEMMA DueIsBound ==
  ASSUME IInv, NEW r \in Runs, NEW p \in Parts, Due(r, p)
  PROVE  run[r].pc # "idle" /\ Bound(ctx[r][TaskOf(p)], r)
<1>1. CASE p \in {"keywords", "cv"}
  <2>1. run[r].pc = p
    BY <1>1, Constants DEF Due
  <2> QED
    BY <1>1, <2>1, Constants DEF IInv, Started, TaskOf
<1>2. CASE p \in Polish
  <2>1. run[r].pc = "polish" /\ call[r][p].stage = "ready"
    BY <1>2, Constants DEF Due
  <2> QED
    BY <1>2, <2>1 DEF IInv, Asked, TaskOf
<1>3. CASE p \notin {"keywords", "cv"} \cup Polish
  <2>1. run[r].pc = "call"
    BY <1>3 DEF Due
  <2> QED
    BY <1>3, <2>1 DEF IInv, Started, TaskOf
<1> QED
  BY <1>1, <1>2, <1>3

LEMMA CallKeeps ==
  ASSUME IInv, NEW r \in Runs, NEW p \in Parts, Call(r, p)
  PROVE  IInv'
<1> DEFINE t == TaskOf(p)
           c == Tagged(ctx[r][t], p)
           x == [stage |-> "open", ctx |-> c, saw |-> Says(c.user)]
<1>1. /\ ctx' = [ctx EXCEPT ![r][t] = c] /\ call' = [call EXCEPT ![r][p] = x]
      /\ UNCHANGED <<run, consent, flag, events>>
  BY DEF Call
<1>2. Bound(ctx[r][t], r) /\ run[r].pc # "idle" /\ t \in RunTasks /\ ctx[r][t] \in Contexts
  BY DueIsBound, Constants, Types DEF Call, IInv
<1>3. c \in Contexts /\ Bound(c, r) /\ (p # "groups" => c.service = p)
  <2> HIDE DEF t
  <2> QED
    BY <1>2 DEF Tagged, Inherit, Bound, Contexts
<1>4. x \in CallType /\ x.stage = "open" /\ x.ctx = c /\ Saw(x)
  <2> HIDE DEF c
  <2>1. Says(c.user) \in SUBSET {"eligible", "optedIn"}
    BY DEF Says
  <2>2. c.user # None => /\ eligible[c.user] => "eligible" \in Says(c.user)
                         /\ optedIn[c.user] => "optedIn" \in Says(c.user)
    BY DEF Says
  <2> QED
    BY <1>3, <2>1, <2>2 DEF CallType, Stages, Saw, Live
<1> HIDE DEF c, x
<1>5. /\ ctx' \in [Runs -> [RunTasks -> Contexts]] /\ ctx'[r][t] = c
      /\ \A s \in Runs, q \in RunTasks : s # r \/ q # t => ctx'[s][q] = ctx[s][q]
  BY <1>1, <1>2, <1>3, Types DEF IInv
<1>6. /\ call' \in [Runs -> [Parts -> CallType]] /\ call'[r][p] = x
      /\ \A s \in Runs, q \in Parts : s # r \/ q # p => call'[s][q] = call[s][q]
  <2>1. x \in CallType /\ call' = [call EXCEPT ![r][p] = x] /\ TypeOK
    BY <1>1, <1>4 DEF IInv
  <2> QED
    BY <2>1, OneCall, ZenonT(30)
<1>7. \A q \in Polish : q # p => q # t
  BY Constants DEF TaskOf
<1>8. ASSUME NEW s \in Runs, NEW q \in Parts PROVE Asked(s, q)'
  <2>1. CASE s = r /\ q = p
    BY <1>1, <1>2, <1>3, <1>4, <1>6, <2>1 DEF Asked, Bound
  <2>2. CASE s # r \/ q # p
    <3>1. call'[s][q] = call[s][q] /\ (q \in Polish => ctx'[s][q] = ctx[s][q])
      BY <1>5, <1>6, <1>7, <2>2, Constants
    <3> QED
      BY <1>1, <3>1 DEF IInv, Asked, Bound
  <2> QED
    BY <2>1, <2>2
<1>9. ASSUME NEW s \in Runs PROVE Started(s)'
  <2>1. ctx'[s]["main"] \in {ctx[s]["main"]} \cup IF s = r THEN {c} ELSE {}
    BY <1>5, Constants
  <2> QED
    BY <1>1, <1>3, <2>1 DEF IInv, Started, Bound
<1>10. \A s \in Runs, q \in Parts : Saw(call'[s][q])
  BY <1>4, <1>6 DEF IInv
<1>11. run' \in [Runs -> RunType]
  BY <1>1, Types DEF IInv
<1> QED
  BY <1>1, <1>5, <1>6, <1>8, <1>9, <1>10, <1>11, RunKeeps

(* The answer or the refusal of a call, and the steps of its log task,     *)
(* change its stage and forget what was seen once it no longer matters.    *)
LEMMA StageKeeps ==
  ASSUME IInv, NEW r \in Runs, NEW p \in Parts, NEW x \in CallType,
         call' = [call EXCEPT ![r][p] = x],
         x.stage \notin {"none", "ready"}, x.ctx = call[r][p].ctx, Saw(x),
         call[r][p].stage \notin {"none", "ready", "lost"} \/ x.stage = "lost",
         UNCHANGED <<ctx, consent, flag, events>>,
         run[r].pc # "idle", run' \in [Runs -> RunType],
         \A s \in Runs : Started(s)',
         \A s \in Runs : run[s].pc # "idle" => run'[s].pc # "idle"
  PROVE  IInv'
<1>1. /\ call' \in [Runs -> [Parts -> CallType]] /\ call'[r][p] = x
      /\ \A s \in Runs, q \in Parts : s # r \/ q # p => call'[s][q] = call[s][q]
  BY Types DEF IInv
<1>2. ASSUME NEW s \in Runs, NEW q \in Parts PROVE Asked(s, q)'
  <2>1. CASE s = r /\ q = p
    BY <1>1, <2>1 DEF IInv, Asked, Bound
  <2>2. CASE s # r \/ q # p
    BY <1>1, <2>2 DEF IInv, Asked, Bound
  <2> QED
    BY <2>1, <2>2
<1>3. \A s \in Runs, q \in Parts : Saw(call'[s][q])
  BY <1>1 DEF IInv
<1>4. ctx' \in [Runs -> [RunTasks -> Contexts]]
  BY Types DEF IInv
<1> QED
  BY <1>1, <1>2, <1>3, <1>4, RunKeeps

(* The run goes on, or stays. *)
LEMMA AfterKeeps ==
  ASSUME IInv, NEW r \in Runs, NEW ok \in BOOLEAN, run[r].pc # "idle",
         run' = [run EXCEPT ![r].pc = After(@, ok)], ctx' = ctx
  PROVE  /\ run' \in [Runs -> RunType]
         /\ \A s \in Runs : Started(s)'
         /\ \A s \in Runs : run[s].pc # "idle" => run'[s].pc # "idle"
<1> DEFINE x == [run[r] EXCEPT !.pc = After(run[r].pc, ok)]
<1>1. After(run[r].pc, ok) \in {"cv", "gather", "polish", "done"}
  BY DEF After
<1>2. x \in RunType /\ x.pc # "idle" /\ run' = [run EXCEPT ![r] = x]
  BY <1>1, Types DEF IInv, RunType
<1>3. Bound(ctx'[r]["main"], r)
  BY DEF IInv, Started
<1> HIDE DEF x
<1> QED
  BY <1>2, <1>3, StartedKeeps

LEMMA RefuseKeeps ==
  ASSUME IInv, NEW r \in Runs, NEW p \in Parts, Refuse(r, p)
  PROVE  IInv'
<1> DEFINE x == [call[r][p] EXCEPT !.stage = "lost"]
<1>1. x \in CallType /\ x.stage = "lost" /\ x.ctx = call[r][p].ctx
  <2>1. call[r][p] \in CallType
    BY Types DEF IInv
  <2> QED
    BY <2>1 DEF CallType, Stages
<1>2. /\ call' = [call EXCEPT ![r][p] = x] /\ run' = [run EXCEPT ![r].pc = After(@, FALSE)]
      /\ UNCHANGED <<ctx, consent, flag, events>>
  BY DEF Refuse
<1>3. /\ run[r].pc # "idle" /\ run' \in [Runs -> RunType]
      /\ \A s \in Runs : Started(s)'
      /\ \A s \in Runs : run[s].pc # "idle" => run'[s].pc # "idle"
  BY <1>2, DueIsBound, AfterKeeps DEF Refuse
<1> HIDE DEF x
<1>4. Saw(x)
  BY <1>1 DEF Saw, Live
<1> QED
  BY <1>1, <1>2, <1>3, <1>4, StageKeeps

LEMMA AnswerKeeps ==
  ASSUME IInv, NEW r \in Runs, NEW p \in Parts, Answer(r, p)
  PROVE  IInv'
<1> DEFINE x == [call[r][p] EXCEPT !.stage = "ended"]
<1>1. /\ x \in CallType /\ x.stage = "ended" /\ x.ctx = call[r][p].ctx
      /\ x.saw = call[r][p].saw
  <2>1. call[r][p] \in CallType
    BY Types DEF IInv
  <2> QED
    BY <2>1 DEF CallType, Stages
<1>2. PICK ok \in BOOLEAN : run' = [run EXCEPT ![r].pc = After(@, ok)]
  BY DEF Answer
<1>3. /\ call' = [call EXCEPT ![r][p] = x] /\ UNCHANGED <<ctx, consent, flag, events>>
      /\ call[r][p].stage = "open"
  BY DEF Answer
<1>4. run[r].pc # "idle"
  BY <1>3 DEF IInv, Asked
<1>5. /\ run' \in [Runs -> RunType]
      /\ \A s \in Runs : Started(s)'
      /\ \A s \in Runs : run[s].pc # "idle" => run'[s].pc # "idle"
  BY <1>2, <1>3, <1>4, AfterKeeps
<1> HIDE DEF x
<1>6. Saw(x)
  BY <1>1, <1>3 DEF IInv, Saw, Live
<1> QED
  BY <1>1, <1>3, <1>4, <1>5, <1>6, StageKeeps

(***************************************************************************)
(* The log task                                                            *)
(***************************************************************************)
LEMMA LogKeeps ==
  ASSUME IInv, NEW r \in Runs, NEW p \in Parts, NEW from \in Live,
         NEW to \in {"row", "eligible", "agreed", "logged", "saved", "lost"}, Log(r, p, from, to),
         to = "eligible" => call[r][p].ctx.user # None /\ eligible[call[r][p].ctx.user],
         to = "agreed" => from = "eligible" /\ granted[call[r][p].ctx.user],
         to = "saved" => from = "agreed"
  PROVE  IInv'
<1> DEFINE k == call[r][p]
           x == [k EXCEPT !.stage = to, !.saw = IF to \in {"logged", "lost"} THEN {} ELSE k.saw]
<1>1. k \in CallType /\ Saw(k) /\ Asked(r, p)
  BY Types DEF IInv
<1>2. /\ k.stage = from /\ call' = [call EXCEPT ![r][p] = x]
      /\ UNCHANGED <<run, ctx, consent, flag, events>>
  BY DEF Log
<1>3. /\ x \in CallType /\ x.stage = to /\ x.ctx = k.ctx
      /\ x.saw = IF to \in {"logged", "lost"} THEN {} ELSE k.saw
  BY <1>1 DEF CallType, Stages
<1>4. from \notin {"none", "ready", "lost"} /\ run[r].pc # "idle"
  BY <1>1, <1>2 DEF Asked, Live
<1>5. Saw(x)
  <2> HIDE DEF x, k
  <2>1. k.saw \subseteq {"eligible", "optedIn"}
    BY <1>1 DEF CallType
  <2>2. CASE to \in {"row", "logged", "lost"}
    BY <1>1, <1>2, <1>3, <2>2 DEF Saw, Live
  <2>3. CASE to = "eligible"
    BY <1>1, <1>2, <1>3, <2>3 DEF Saw, Live, k
  <2>4. CASE to = "agreed"
    <3>1. optedIn[k.ctx.user]
      BY <2>4 DEF IInv, k
    <3> QED
      BY <1>1, <1>2, <1>3, <2>4, <3>1 DEF Saw, Live
  <2>5. CASE to = "saved"
    BY <1>1, <1>2, <1>3, <2>1, <2>5 DEF Saw, Live
  <2> QED
    BY <2>2, <2>3, <2>4, <2>5
<1>6. /\ run' \in [Runs -> RunType] /\ \A s \in Runs : Started(s)'
      /\ \A s \in Runs : run[s].pc # "idle" => run'[s].pc # "idle"
  BY <1>2, Types DEF IInv, Started, Bound
<1>7. x.stage \notin {"none", "ready"} /\ k.stage \notin {"none", "ready", "lost"}
  BY <1>2, <1>3, <1>4
<1> HIDE DEF x
<1> QED
  BY <1>2, <1>3, <1>4, <1>5, <1>6, <1>7, StageKeeps

LEMMA LogTaskKeeps ==
  ASSUME IInv, NEW r \in Runs, NEW p \in Parts,
         WriteRow(r, p) \/ ReadEligible(r, p) \/ ReadConsent(r, p) \/ WritePrompt(r, p)
  PROVE  IInv'
<1> DEFINE u == call[r][p].ctx.user
<1>1. ASSUME NEW to \in {"row", "lost"}, Log(r, p, "ended", to) PROVE IInv'
  BY <1>1, LogKeeps DEF Live
<1>2. CASE Log(r, p, "row", "eligible") /\ u # None /\ eligible[u]
  BY <1>2, LogKeeps DEF Live
<1>3. CASE Log(r, p, "row", "logged") \/ Log(r, p, "eligible", "logged")
  BY <1>3, LogKeeps DEF Live
<1>4. CASE Log(r, p, "eligible", "agreed") /\ granted[u]
  BY <1>4, LogKeeps DEF Live
<1>5. CASE Log(r, p, "agreed", "saved") \/ Log(r, p, "agreed", "logged")
  BY <1>5, LogKeeps DEF Live
<1>6. ReadEligible(r, p) => \/ Log(r, p, "row", "eligible") /\ u # None /\ eligible[u]
                            \/ Log(r, p, "row", "logged")
  BY DEF ReadEligible
<1>7. ReadConsent(r, p) => \/ Log(r, p, "eligible", "agreed") /\ granted[u]
                           \/ Log(r, p, "eligible", "logged")
  BY DEF ReadConsent
<1> QED
  BY <1>1, <1>2, <1>3, <1>4, <1>5, <1>6, <1>7 DEF WriteRow, WritePrompt

(***************************************************************************)
(* Consent and eligibility                                                 *)
(***************************************************************************)
LEMMA SeenEffect ==
  ASSUME TypeOK, NEW u \in Users, NEW what \in SUBSET {"eligible", "optedIn"},
         call' = Seen(u, what)
  PROVE  /\ call' \in [Runs -> [Parts -> CallType]]
         /\ \A r \in Runs, p \in Parts :
              /\ call'[r][p].stage = call[r][p].stage /\ call'[r][p].ctx = call[r][p].ctx
              /\ call'[r][p].saw =
                   IF call[r][p].stage \in Live /\ call[r][p].ctx.user = u
                   THEN call[r][p].saw \cup what ELSE call[r][p].saw
<1>1. SUFFICES ASSUME NEW r \in Runs, NEW p \in Parts
               PROVE  /\ call'[r][p] \in CallType
                      /\ call'[r][p].stage = call[r][p].stage /\ call'[r][p].ctx = call[r][p].ctx
                      /\ call'[r][p].saw =
                           IF call[r][p].stage \in Live /\ call[r][p].ctx.user = u
                           THEN call[r][p].saw \cup what ELSE call[r][p].saw
  BY DEF Seen
<1>2. call[r][p] \in CallType
  BY Types
<1>3. call'[r][p] =
        IF /\ call[r][p].ctx.user = u
           /\ call[r][p].stage \notin {"none", "ready", "lost", "logged", "saved"}
        THEN [call[r][p] EXCEPT !.saw = @ \cup what] ELSE call[r][p]
  BY DEF Seen
<1>4. call[r][p].stage \notin {"none", "ready", "lost", "logged", "saved"}
        <=> call[r][p].stage \in Live
  BY <1>2 DEF CallType, Stages, Live
<1> QED
  BY <1>2, <1>3, <1>4 DEF CallType

LEMMA ConsentKeeps ==
  ASSUME IInv, NEW u \in Users, NEW what \in SUBSET {"eligible", "optedIn"},
         call' = Seen(u, what), UNCHANGED <<run, ctx, flag>>,
         eligible' \in [Users -> BOOLEAN], optedIn' \in [Users -> BOOLEAN], granted' = optedIn',
         asking' \in [Users -> {"none", "grant", "withdraw"}], events' \in 0 .. MaxEvents,
         \A v \in Users : eligible'[v] => eligible[v] \/ (v = u /\ "eligible" \in what),
         \A v \in Users : optedIn'[v] => optedIn[v] \/ (v = u /\ "optedIn" \in what)
  PROVE  IInv'
<1>1. TypeOK /\ call \in [Runs -> [Parts -> CallType]]
  BY Types DEF IInv
<1>2. /\ call' \in [Runs -> [Parts -> CallType]]
      /\ \A r \in Runs, p \in Parts :
           /\ call'[r][p].stage = call[r][p].stage /\ call'[r][p].ctx = call[r][p].ctx
           /\ call'[r][p].saw =
                IF call[r][p].stage \in Live /\ call[r][p].ctx.user = u
                THEN call[r][p].saw \cup what ELSE call[r][p].saw
  BY <1>1, SeenEffect
<1>3. ASSUME NEW r \in Runs, NEW p \in Parts PROVE (Saw(call[r][p]))'
  <2>1. Saw(call[r][p]) /\ call[r][p].ctx.user \in Users \cup {None}
    BY <1>1 DEF IInv, CallType, Contexts
  <2> DEFINE c == call[r][p]
             d == call'[r][p]
  <2>2. /\ d.stage = c.stage /\ d.ctx = c.ctx
        /\ d.saw = IF c.stage \in Live /\ c.ctx.user = u THEN c.saw \cup what ELSE c.saw
    BY <1>2
  <2> HIDE DEF c, d
  <2>3. c.saw \subseteq d.saw /\ (c.stage \notin Live => d.saw = c.saw)
    BY <2>2
  <2>4. c.stage \in Live /\ c.ctx.user = u => what \subseteq d.saw
    BY <2>2
  <2>5. Saw(c) /\ c.ctx.user \in Users \cup {None}
    BY <2>1 DEF c
  <2>6. /\ d.stage \in Live /\ d.ctx.user # None =>
             /\ eligible'[d.ctx.user] => "eligible" \in d.saw
             /\ optedIn'[d.ctx.user] => "optedIn" \in d.saw
        /\ d.stage \in {"eligible", "agreed"} => d.ctx.user # None /\ "eligible" \in d.saw
        /\ d.stage = "agreed" => "optedIn" \in d.saw
        /\ d.stage = "saved" => d.saw = {"eligible", "optedIn"}
    BY <2>2, <2>3, <2>4, <2>5 DEF Saw, Live
  <2> USE DEF d
  <2> QED
    BY <2>6 DEF Saw
<1>4. ASSUME NEW r \in Runs, NEW p \in Parts PROVE Asked(r, p)'
  <2>1. Asked(r, p) /\ run' = run /\ ctx' = ctx
    BY DEF IInv
  <2> QED
    BY <1>2, <2>1 DEF Asked, Bound
<1>5. \A r \in Runs : Started(r)'
  BY DEF IInv, Started, Bound
<1>6. \A w \in current' : Follows(w)'
  BY DEF IInv, Follows, flag
<1>7. TypeOK'
  BY <1>1, <1>2 DEF TypeOK, CallType, flag
<1> QED
  BY <1>3, <1>4, <1>5, <1>6, <1>7 DEF IInv

LEMMA ToggleKeeps ==
  ASSUME IInv, NEW u \in Users, ToggleEligible(u)
  PROVE  IInv'
<1>1. TypeOK /\ granted = optedIn
  BY DEF IInv
<1> DEFINE what == IF eligible[u] THEN {} ELSE {"eligible"}
<1>2. what \in SUBSET {"eligible", "optedIn"} /\ call' = Seen(u, what)
  BY DEF ToggleEligible
<1>3. UNCHANGED <<run, ctx, asking, flag>> /\ granted' = optedIn'
  BY <1>1 DEF ToggleEligible
<1>4. /\ eligible' \in [Users -> BOOLEAN] /\ optedIn' \in [Users -> BOOLEAN]
      /\ asking' \in [Users -> {"none", "grant", "withdraw"}] /\ events' \in 0 .. MaxEvents
  BY <1>1, <1>3, CallsAssumption DEF ToggleEligible, TypeOK
<1>5. \A v \in Users : eligible'[v] => eligible[v] \/ (v = u /\ "eligible" \in what)
  BY <1>1 DEF ToggleEligible, TypeOK
<1>6. \A v \in Users : optedIn'[v] => optedIn[v] \/ (v = u /\ "optedIn" \in what)
  BY <1>1 DEF ToggleEligible, TypeOK
<1> HIDE DEF what
<1> QED
  BY <1>2, <1>3, <1>4, <1>5, <1>6, ConsentKeeps

LEMMA RecordConsentKeeps ==
  ASSUME IInv, NEW u \in Users, RecordConsent(u)
  PROVE  IInv'
<1>1. TypeOK /\ granted = optedIn
  BY DEF IInv
<1> DEFINE what == IF asking[u] = "grant" THEN {"optedIn"} ELSE {}
<1>2. what \in SUBSET {"eligible", "optedIn"} /\ call' = Seen(u, what)
  BY DEF RecordConsent
<1>3. UNCHANGED <<run, ctx, eligible, flag, events>> /\ granted' = optedIn'
  BY <1>1 DEF RecordConsent
<1>4. /\ eligible' \in [Users -> BOOLEAN] /\ optedIn' \in [Users -> BOOLEAN]
      /\ asking' \in [Users -> {"none", "grant", "withdraw"}] /\ events' \in 0 .. MaxEvents
  BY <1>1, <1>3 DEF RecordConsent, TypeOK
<1>5. \A v \in Users : eligible'[v] => eligible[v] \/ (v = u /\ "eligible" \in what)
  BY <1>3
<1>6. \A v \in Users : optedIn'[v] => optedIn[v] \/ (v = u /\ "optedIn" \in what)
  BY <1>1 DEF RecordConsent, TypeOK
<1> HIDE DEF what
<1> QED
  BY <1>2, <1>3, <1>4, <1>5, <1>6, ConsentKeeps

(***************************************************************************)
(* The flag, and workers that die                                          *)
(***************************************************************************)
LEMMA AskConsentKeeps ==
  ASSUME IInv, NEW u \in Users, NEW what \in {"grant", "withdraw"}, AskConsent(u, what)
  PROVE  IInv'
<1>1. TypeOK'
  BY CallsAssumption DEF IInv, AskConsent, TypeOK, flag
<1>2. UNCHANGED <<run, ctx, call, eligible, granted, optedIn, stored, cache, setting, current>>
  BY DEF AskConsent, flag
<1> QED
  BY <1>1, <1>2 DEF IInv, Started, Asked, Bound, Saw, Follows

LEMMA FlagKeeps ==
  ASSUME IInv, NEW w \in Workers, NEW b \in BOOLEAN, SetFlag(w, b) \/ CacheFlag(w, b)
  PROVE  IInv'
<1>1. TypeOK
  BY DEF IInv
<1>2. TypeOK'
  <2>1. CASE SetFlag(w, b)
    BY <1>1, <2>1, CallsAssumption DEF SetFlag, TypeOK, consent
  <2>2. CASE CacheFlag(w, b)
    BY <1>1, <2>2 DEF CacheFlag, TypeOK, consent
  <2> QED
    BY <2>1, <2>2
<1>3. UNCHANGED <<run, ctx, call, eligible, granted, optedIn>>
  BY DEF SetFlag, CacheFlag, consent
<1>4. \A v \in current' : Follows(v)'
  <2>1. CASE SetFlag(w, b)
    BY <1>1, <2>1 DEF SetFlag, TypeOK, Follows
  <2>2. CASE CacheFlag(w, b)
    <3>1. /\ b \in setting[w] /\ setting' = [setting EXCEPT ![w] = @ \ {b}]
          /\ cache' = [cache EXCEPT ![w] = b] /\ stored' = stored /\ current' = current
      BY <2>2 DEF CacheFlag
    <3>2. current \subseteq Workers
      BY <1>1 DEF TypeOK
    <3>3. \A v \in Workers \ {w} : setting'[v] = setting[v] /\ cache'[v] = cache[v]
      BY <1>1, <3>1 DEF TypeOK
    <3>4. setting'[w] = setting[w] \ {b} /\ cache'[w] = b
      BY <1>1, <3>1 DEF TypeOK
    <3>5. w \in current => Follows(w)'
      BY <3>1, <3>4 DEF IInv, Follows
    <3> QED
      BY <3>1, <3>2, <3>3, <3>5 DEF IInv, Follows
  <2> QED
    BY <2>1, <2>2
<1>5. /\ (\A r \in Runs : Started(r))'
      /\ (\A r \in Runs, p \in Parts : Asked(r, p) /\ Saw(call[r][p]))'
  BY <1>3 DEF IInv, Started, Asked, Bound, Saw
<1> QED
  BY <1>2, <1>3, <1>4, <1>5 DEF IInv

LEMMA RestartKeeps ==
  ASSUME IInv, NEW w \in Workers, Restart(w)
  PROVE  IInv'
<1> DEFINE dead == {r \in Runs : run[r].at = w}
<1>1. TypeOK /\ run \in [Runs -> RunType] /\ call \in [Runs -> [Parts -> CallType]]
  BY Types DEF IInv
<1>2. /\ run' = [r \in Runs |-> IF r \in dead THEN [run[r] EXCEPT !.pc = "done"] ELSE run[r]]
      /\ call' = [r \in Runs |-> IF r \in dead THEN [p \in Parts |-> Died(call[r][p])] ELSE call[r]]
      /\ setting' = [setting EXCEPT ![w] = {}] /\ cache' = [cache EXCEPT ![w] = stored]
      /\ current' = current \cup {w}
      /\ events < MaxEvents /\ events' = events + 1
      /\ UNCHANGED <<ctx, consent, stored>>
  BY DEF Restart, KillRuns
<1>3. run' \in [Runs -> RunType]
  BY <1>1, <1>2 DEF RunType
<1>4. \A r \in Runs : IF r \in dead THEN run[r].pc # "idle" /\ run'[r].pc = "done"
                                   ELSE run'[r] = run[r]
  <2>1. \A r \in Runs : run[r].pc = "idle" => run[r].at # w
    BY CallsAssumption DEF IInv, Started
  <2> QED
    BY <1>1, <1>2, <2>1 DEF RunType
<1>5. \A r \in Runs : Started(r)'
  BY <1>2, <1>4 DEF IInv, Started, Bound
<1>6. \A c \in CallType : /\ Died(c) \in CallType /\ Died(c).ctx = c.ctx
                          /\ Died(c).stage # "ready" /\ (c.stage = "none" <=> Died(c).stage = "none")
                          /\ Died(c).stage # "lost" => c.stage \notin {"ready", "lost"}
                          /\ Saw(Died(c)) \/ ~Saw(c)
  <2> SUFFICES ASSUME NEW c \in CallType
               PROVE  /\ Died(c) \in CallType /\ Died(c).ctx = c.ctx
                      /\ Died(c).stage # "ready" /\ (c.stage = "none" <=> Died(c).stage = "none")
                      /\ Died(c).stage # "lost" => c.stage \notin {"ready", "lost"}
                      /\ Saw(Died(c)) \/ ~Saw(c)
    OBVIOUS
  <2>1. /\ Died(c).stage = CASE c.stage \in {"ready", "open", "ended"} -> "lost"
                             [] c.stage \in {"row", "eligible", "agreed"} -> "logged"
                             [] OTHER -> c.stage
        /\ Died(c).saw = IF c.stage = "saved" THEN c.saw ELSE {}
        /\ Died(c).ctx = c.ctx
    BY DEF Died, CallType
  <2>2. /\ c.stage \in {"ready", "open", "ended"} => Died(c).stage = "lost"
        /\ c.stage \in {"row", "eligible", "agreed"} => Died(c).stage = "logged"
        /\ c.stage \notin {"ready", "open", "ended", "row", "eligible", "agreed"} =>
             Died(c).stage = c.stage
    BY <2>1
  <2>3. Died(c) \in CallType
    <3>1. Died(c) = [c EXCEPT !.stage = Died(c).stage, !.saw = Died(c).saw]
      BY <2>1 DEF Died, CallType
    <3>2. Died(c).stage \in Stages /\ Died(c).saw \in SUBSET {"eligible", "optedIn"}
      BY <2>1, <2>2 DEF CallType, Stages
    <3> QED
      BY <3>1, <3>2 DEF CallType
  <2>4. c.stage \in Stages
    BY DEF CallType
  <2>5. Saw(Died(c)) \/ ~Saw(c)
    BY <2>1, <2>2, <2>4 DEF Saw, Live, Stages
  <2> QED
    BY <2>1, <2>2, <2>3, <2>4, <2>5 DEF Stages
<1>7. /\ call' \in [Runs -> [Parts -> CallType]]
      /\ \A r \in Runs, p \in Parts :
           call'[r][p] = IF r \in dead THEN Died(call[r][p]) ELSE call[r][p]
  BY <1>1, <1>2, <1>6
<1>8. ASSUME NEW r \in Runs, NEW p \in Parts PROVE Asked(r, p)'
  <2>1. call[r][p] \in CallType /\ Asked(r, p)
    BY <1>1 DEF IInv
  <2>2. CASE r \in dead
    BY <1>4, <1>6, <1>7, <2>1, <2>2 DEF Asked, Bound
  <2>3. CASE r \notin dead
    BY <1>2, <1>4, <1>7, <2>1, <2>3 DEF Asked, Bound
  <2> QED
    BY <2>2, <2>3
<1>9. ASSUME NEW r \in Runs, NEW p \in Parts PROVE (Saw(call[r][p]))'
  <2>1. Saw(call'[r][p])
    BY <1>1, <1>6, <1>7 DEF IInv
  <2> QED
    BY <1>2, <2>1 DEF Saw, consent
<1>10. \A v \in current' : Follows(v)'
  <2>1. /\ current \subseteq Workers
        /\ setting \in [Workers -> SUBSET BOOLEAN] /\ cache \in [Workers -> BOOLEAN]
    BY <1>1 DEF TypeOK
  <2>2. setting'[w] = {} /\ cache'[w] = stored
    BY <1>2, <2>1
  <2>3. \A v \in Workers \ {w} : setting'[v] = setting[v] /\ cache'[v] = cache[v]
    BY <1>2, <2>1
  <2> QED
    BY <1>2, <2>1, <2>2, <2>3 DEF IInv, Follows
<1>11. TypeOK'
  <2>1. /\ setting' \in [Workers -> SUBSET BOOLEAN] /\ cache' \in [Workers -> BOOLEAN]
        /\ current' \subseteq Workers /\ events' \in 0 .. MaxEvents
    BY <1>1, <1>2, CallsAssumption DEF TypeOK
  <2>2. /\ eligible' \in [Users -> BOOLEAN] /\ granted' \in [Users -> BOOLEAN]
        /\ optedIn' \in [Users -> BOOLEAN] /\ asking' \in [Users -> {"none", "grant", "withdraw"}]
        /\ stored' \in BOOLEAN /\ ctx' \in [Runs -> [RunTasks -> Contexts]]
    BY <1>1, <1>2 DEF TypeOK, consent
  <2> HIDE DEF dead
  <2> QED
    BY <1>3, <1>7, <2>1, <2>2 DEF TypeOK, RunType, CallType
<1>12. granted' = optedIn'
  BY <1>2 DEF IInv, consent
<1> QED
  BY <1>5, <1>8, <1>9, <1>10, <1>11, <1>12 DEF IInv

(***************************************************************************)
(* The specification                                                       *)
(***************************************************************************)
LEMMA InvInit == Init => IInv
<1> SUFFICES ASSUME Init PROVE IInv
  OBVIOUS
<1>1. TypeOK
  <2>1. /\ run \in [Runs -> RunType] /\ ctx \in [Runs -> [RunTasks -> Contexts]]
        /\ call \in [Runs -> [Parts -> CallType]]
    BY Constants DEF Init, RunType
  <2>2. /\ eligible \in [Users -> BOOLEAN] /\ granted \in [Users -> BOOLEAN]
        /\ optedIn \in [Users -> BOOLEAN] /\ asking \in [Users -> {"none", "grant", "withdraw"}]
        /\ stored \in BOOLEAN /\ cache \in [Workers -> BOOLEAN]
        /\ setting \in [Workers -> SUBSET BOOLEAN]
        /\ current \subseteq Workers /\ events \in 0 .. MaxEvents
    BY CallsAssumption DEF Init
  <2> QED
    BY <2>1, <2>2 DEF TypeOK, RunType, CallType
<1>2. \A r \in Runs : Started(r)
  BY DEF Init, Started
<1>3. NoCall.stage = "none" /\ Saw(NoCall)
  BY DEF NoCall, Saw, Live
<1>4. \A r \in Runs, p \in Parts : Asked(r, p) /\ Saw(call[r][p])
  <2>1. \A r \in Runs, p \in Parts : call[r][p] = NoCall
    BY DEF Init
  <2> QED
    BY <1>3, <2>1 DEF Asked
<1>5. \A w \in current : Follows(w)
  BY DEF Init, Follows
<1> QED
  BY <1>1, <1>2, <1>4, <1>5 DEF IInv, Init

LEMMA InvStep == IInv /\ [Next]_vars => IInv'
<1> SUFFICES ASSUME IInv, [Next]_vars PROVE IInv'
  OBVIOUS
<1>1. ASSUME NEW r \in Runs, NEW w \in Workers, Begin(r, w) PROVE IInv'
  BY <1>1, BeginKeeps
<1>2. ASSUME NEW r \in Runs, Skip(r) \/ Gather(r) \/ Finish(r) PROVE IInv'
  BY <1>2, SkipKeeps, GatherKeeps
<1>3. ASSUME NEW r \in Runs, NEW p \in Parts, Call(r, p) \/ Refuse(r, p) \/ Answer(r, p) PROVE IInv'
  BY <1>3, CallKeeps, RefuseKeeps, AnswerKeeps
<1>4. ASSUME NEW r \in Runs, NEW p \in Parts,
             WriteRow(r, p) \/ ReadEligible(r, p) \/ ReadConsent(r, p) \/ WritePrompt(r, p)
      PROVE  IInv'
  BY <1>4, LogTaskKeeps
<1>5. ASSUME NEW u \in Users, ToggleEligible(u) \/ RecordConsent(u) PROVE IInv'
  BY <1>5, ToggleKeeps, RecordConsentKeeps
<1>6. ASSUME NEW u \in Users, NEW what \in {"grant", "withdraw"}, AskConsent(u, what) PROVE IInv'
  BY <1>6, AskConsentKeeps
<1>7. ASSUME NEW w \in Workers, Restart(w) PROVE IInv'
  BY <1>7, RestartKeeps
<1>8. ASSUME NEW w \in Workers, NEW b \in BOOLEAN, SetFlag(w, b) \/ CacheFlag(w, b) PROVE IInv'
  BY <1>8, FlagKeeps
<1>9. CASE UNCHANGED vars
  <2>1. /\ UNCHANGED <<run, ctx, call, eligible, granted, asking, optedIn>>
        /\ UNCHANGED <<stored, cache, setting, current, events>>
    BY <1>9 DEF vars, consent, flag
  <2> QED
    BY <2>1 DEF IInv, TypeOK, Started, Asked, Bound, Saw, Follows
<1> QED
  BY <1>1, <1>2, <1>3, <1>4, <1>5, <1>6, <1>7, <1>8, <1>9 DEF Next

(* The inductive invariant, from the assumption on the constants alone. *)
THEOREM InvariantHolds == Spec => []IInv
BY InvInit, InvStep, PTL DEF Spec

(* RunTasks, calls, rows, flags and consents keep their types. *)
THEOREM TypeCorrect == Spec => []TypeOK
BY InvariantHolds, PTL DEF IInv

(* Every row names the session, the iteration and the user of the run that *)
(* made the call, however the calls of different tasks overlap.            *)
THEOREM EveryRowHasItsRun == Spec => []RowsTellWhoAsked
<1>1. IInv => RowsTellWhoAsked
  BY DEF IInv, Asked, Bound, RowsTellWhoAsked, Iteration, Rows, Row, Rowed
<1> QED
  BY <1>1, InvariantHolds, PTL

(* No prompt is kept without eligibility and consent during the call.      *)
THEOREM ConsentBeforePrompt == Spec => []PromptsNeedConsent
<1>1. IInv => PromptsNeedConsent
  BY DEF IInv, Saw, PromptsNeedConsent
<1> QED
  BY <1>1, InvariantHolds, PTL

(* The worker that took the last toggle uses the flag as it is stored.     *)
THEOREM LastToggleWins == Spec => []FlagIsCurrent
<1>1. IInv => FlagIsCurrent
  BY DEF IInv, Follows, FlagIsCurrent
<1> QED
  BY <1>1, InvariantHolds, PTL
=============================================================================
