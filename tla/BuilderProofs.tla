---------------------------- MODULE BuilderProofs ----------------------------
(***************************************************************************)
(* Proofs about Builder for any number of tabs, roles, phone numbers, rows *)
(* and requests, and for every limit of the parser.                        *)
(***************************************************************************)
EXTENDS Builder, WellFoundedInduction, TLAPS

(***************************************************************************)
(* The parser                                                              *)
(***************************************************************************)
LEMMA LeastElement ==
  ASSUME NEW S, S \subseteq Nat, S # {}
  PROVE  Min(S) \in S /\ \A y \in S : Min(S) <= y
<1>1. IsWellFoundedOn(OpToRel(<, Nat), Nat)
  BY NatLessThanWellFounded
<1>2. PICK x \in S : \A y \in S : ~(<<y, x>> \in OpToRel(<, Nat))
  BY <1>1, WFMin
<1>3. \A y \in S : ~(y < x)
  BY <1>2 DEF OpToRel
<1>4. \E z \in S : \A y \in S : z <= y
  BY <1>3
<1> QED
  BY <1>4 DEF Min

(* The parser stops at its limit or at the first unused index. *)
LEMMA StopIsFirst ==
  ASSUME NEW slots \in Seq(Titles \cup {Blank}), NEW limit \in Nat \ {0},
         NEW stop, stop = Min({n \in 1 .. limit : n = limit \/ TitleAt(slots, n) = Blank})
  PROVE  /\ stop \in 1 .. limit
         /\ stop = 1 \/ stop <= Len(slots)
         /\ \A n \in 1 .. stop - 1 : n + 1 \in DOMAIN slots /\ slots[n + 1] # Blank
         /\ stop = limit \/ TitleAt(slots, stop) = Blank
<1> DEFINE S == {n \in 1 .. limit : n = limit \/ TitleAt(slots, n) = Blank}
<1>1. S \subseteq Nat /\ limit \in S
  OBVIOUS
<1>2. stop \in S /\ \A n \in S : stop <= n
  <2> HIDE DEF S
  <2>1. Min(S) \in S /\ \A y \in S : Min(S) <= y
    BY <1>1, LeastElement
  <2>2. stop = Min(S)
    BY DEF S
  <2> QED
    BY <2>1, <2>2
<1>3. \A n \in 1 .. stop - 1 : n \in 1 .. limit /\ TitleAt(slots, n) # Blank
  BY <1>2
<1>4. \A n \in 1 .. stop - 1 : n + 1 \in DOMAIN slots /\ slots[n + 1] # Blank
  BY <1>3 DEF TitleAt
<1>5. stop = 1 \/ stop <= Len(slots)
  <2>1. CASE stop # 1
    <3>1. stop - 1 \in 1 .. stop - 1 /\ (stop - 1) + 1 = stop
      BY <1>2, <2>1
    <3> QED
      BY <1>4, <3>1
  <2> QED
    BY <2>1
<1> QED
  BY <1>2, <1>4, <1>5

LEMMA ParseTyped ==
  ASSUME BuilderAssumption, NEW slots \in Seq(Titles \cup {Blank})
  PROVE  Parse(slots) \in Seq(Titles)
<1> DEFINE stop == Min({n \in 1 .. (Limit + 1) : n = Limit + 1 \/ TitleAt(slots, n) = Blank})
<1>1. Limit + 1 \in Nat \ {0}
  BY DEF BuilderAssumption
<1>2. /\ stop \in 1 .. Limit + 1 /\ (stop = 1 \/ stop <= Len(slots))
      /\ \A n \in 1 .. stop - 1 : n + 1 \in DOMAIN slots /\ slots[n + 1] # Blank
  BY <1>1, StopIsFirst
<1>3. Parse(slots) = IF TitleAt(slots, 0) = Blank THEN SubSeq(slots, 2, stop)
                     ELSE SubSeq(slots, 1, stop)
  BY DEF Parse, Upto
<1> HIDE DEF stop
<1>4. \A i \in 2 .. stop : i \in DOMAIN slots /\ slots[i] \in Titles
  <2> SUFFICES ASSUME NEW i \in 2 .. stop PROVE i \in DOMAIN slots /\ slots[i] \in Titles
    OBVIOUS
  <2>1. stop \in Nat /\ i \in Nat
    BY <1>2
  <2>2. i - 1 \in 1 .. stop - 1 /\ (i - 1) + 1 = i
    BY <2>1
  <2>3. i \in DOMAIN slots /\ slots[i] # Blank
    BY <1>2, <2>2
  <2>4. slots[i] \in Titles \cup {Blank}
    BY <2>3
  <2> QED
    BY <2>3, <2>4
<1>5. CASE TitleAt(slots, 0) = Blank
  <2>1. SubSeq(slots, 2, stop) \in Seq(Titles)
    BY <1>2, <1>4
  <2> QED
    BY <1>3, <1>5, <2>1
<1>6. CASE TitleAt(slots, 0) # Blank
  <2>1. 1 \in DOMAIN slots /\ slots[1] \in Titles /\ Len(slots) \in Nat
    BY <1>6 DEF TitleAt
  <2>2. \A i \in 1 .. stop : i \in 1 .. Len(slots) /\ slots[i] \in Titles
    BY <1>2, <1>4, <2>1
  <2>3. SubSeq(slots, 1, stop) \in Seq(Titles)
    BY <1>2, <2>2
  <2> QED
    BY <1>3, <1>6, <2>3
<1> QED
  BY <1>5, <1>6

(* A form without an unused index is read from its first role to the limit. *)
LEMMA ParseKeepsRoles ==
  ASSUME BuilderAssumption, NEW slots \in Seq(Titles \cup {Blank}), Blank \notin Range(slots)
  PROVE  Parse(slots) = IF Len(slots) <= Limit + 1 THEN slots ELSE SubSeq(slots, 1, Limit + 1)
<1> DEFINE stop == Min({n \in 1 .. (Limit + 1) : n = Limit + 1 \/ TitleAt(slots, n) = Blank})
<1>1. Limit + 1 \in Nat \ {0} /\ Limit \in Nat
  BY DEF BuilderAssumption
<1>2. /\ stop \in 1 .. Limit + 1 /\ (stop = 1 \/ stop <= Len(slots))
      /\ stop = Limit + 1 \/ TitleAt(slots, stop) = Blank
  BY <1>1, StopIsFirst
<1>3. Parse(slots) = IF TitleAt(slots, 0) = Blank THEN SubSeq(slots, 2, stop)
                     ELSE SubSeq(slots, 1, stop)
  BY DEF Parse, Upto
<1> HIDE DEF stop
<1>4. Len(slots) \in Nat /\ DOMAIN slots = 1 .. Len(slots)
      /\ \A i \in 1 .. Len(slots) : slots[i] # Blank
  BY DEF Range
<1>5. CASE Len(slots) = 0
  <2>1. slots = <<>> /\ TitleAt(slots, 0) = Blank /\ stop = 1
    BY <1>2, <1>4, <1>5 DEF TitleAt
  <2>2. SubSeq(slots, 2, stop) = <<>>
    BY <2>1
  <2> QED
    BY <1>1, <1>3, <1>5, <2>1, <2>2
<1>6. CASE Len(slots) # 0
  <2>1. TitleAt(slots, 0) # Blank
    BY <1>4, <1>6 DEF TitleAt
  <2>2. CASE Len(slots) <= Limit + 1
    <3>1. stop = Len(slots)
      <4>1. stop \in Nat /\ Len(slots) >= stop
        <5>1. CASE stop = 1
          BY <1>4, <1>6, <5>1
        <5>2. CASE stop # 1
          BY <1>2, <1>4, <5>2
        <5> QED
          BY <1>2, <5>1, <5>2
      <4>a. Len(slots) \in Nat
        BY <1>4
      <4>2. CASE stop = Limit + 1
        BY <1>1, <2>2, <4>1, <4>2, <4>a
      <4>3. CASE stop # Limit + 1
        <5>1. TitleAt(slots, stop) = Blank
          BY <1>2, <4>3
        <5>2. stop + 1 \notin 1 .. Len(slots)
          BY <1>4, <5>1 DEF TitleAt
        <5> QED
          BY <4>1, <4>a, <5>2
      <4> QED
        BY <4>2, <4>3
    <3>2. SubSeq(slots, 1, Len(slots)) = slots
      BY <1>4
    <3> QED
      BY <1>3, <2>1, <2>2, <3>1, <3>2
  <2>3. CASE Len(slots) > Limit + 1
    <3>1. stop = Limit + 1
      BY <1>1, <1>2, <1>4, <2>3 DEF TitleAt
    <3> QED
      BY <1>1, <1>3, <1>4, <2>1, <2>3, <3>1
  <2> QED
    BY <1>1, <1>4, <2>2, <2>3
<1> QED
  BY <1>5, <1>6

(***************************************************************************)
(* Types                                                                   *)
(***************************************************************************)
LEMMA StoredTyped ==
  ASSUME BuilderAssumption, NEW form \in Form, NEW user \in Users \cup {None}
  PROVE  /\ Parsed(form) \in Contents
         /\ Inserted(Parsed(form), user) \in Row
         /\ \A row \in Row : Updated(row, Parsed(form), user) \in Row
<1>1. Parse(form.slots) \in Seq(Titles)
  BY ParseTyped DEF Form
<1>2. Parsed(form) \in Contents
  BY <1>1 DEF Parsed, Contents, Form
<1>3. Redacted(Parsed(form)) \in Contents
  BY <1>2 DEF Redacted, Contents, Texts
<1> HIDE DEF Parsed
<1>4. Inserted(Parsed(form), user) \in Row
  BY <1>3 DEF Inserted, Row
<1>5. ASSUME NEW row \in Row PROVE Updated(row, Parsed(form), user) \in Row
  BY <1>3 DEF Updated, Row
<1> QED
  BY <1>2, <1>4, <1>5

LEMMA OpenedTyped ==
  ASSUME TypeOK, NEW r \in DOMAIN rows
  PROVE  Opened(r) \in Contents
<1>1. rows[r] \in Row
  BY DEF TypeOK
<1>2. rows[r].cv \in Contents
  BY <1>1 DEF Row
<1>3. FromVault(rows[r].cv.phone) \in Texts
  BY <1>2 DEF FromVault, TypeOK, Session, Contents, Texts
<1> QED
  BY <1>2, <1>3 DEF Opened, Contents

(* One tab shows another page. *)
LEMMA ShowTyped ==
  ASSUME TypeOK, NEW t \in Tabs, NEW cv \in Nat, NEW a \in Nat, NEW c \in Contents,
         Show(t, cv, a, c), cv <= Len(rows), a <= Len(attempts'), Len(attempts) <= Len(attempts'),
         Len(attempts') \in Nat
  PROVE  /\ page' \in [Tabs -> Form]
         /\ \A u \in Tabs : page'[u].cv <= Len(rows) /\ page'[u].attempt <= Len(attempts')
<1>1. page \in [Tabs -> Form]
      /\ \A u \in Tabs : page[u].cv <= Len(rows) /\ page[u].attempt <= Len(attempts)
  BY DEF TypeOK
<1> DEFINE new == [cv |-> cv, attempt |-> a, slots |-> c.roles, phone |-> c.phone,
                   open |-> TRUE, crossed |-> \E u \in Tabs : Carries(u, a)]
<1>2. new \in Form
  <2>1. c.roles \in Seq(Titles \cup {Blank})
    BY DEF Contents
  <2> QED
    BY <2>1 DEF Contents, Form
<1>3. page' = [page EXCEPT ![t] = new]
  BY DEF Show
<1>4. new.cv = cv /\ new.attempt = a
  OBVIOUS
<1>5. \A u \in Tabs : page[u].attempt \in Nat
  BY <1>1 DEF Form
<1>6. Len(attempts) \in Nat
  BY DEF TypeOK
<1> HIDE DEF new
<1> QED
  BY <1>1, <1>2, <1>3, <1>4, <1>5, <1>6

(* The requests stay typed while rows and attempts are only added. *)
LEMMA TasksTyped ==
  ASSUME TypeOK, task' = task, attempts' \in Seq(Attempt), Len(attempts) <= Len(attempts'),
         rows' \in Seq(Row), Len(rows) <= Len(rows')
  PROVE  /\ task' \in [Tabs -> [pc : {"idle", "preview", "save", "row"}, form : Form \cup {None},
                                session : Session \cup {None}, editing : 0 .. Len(rows')]]
         /\ \A t \in Tabs :
              task'[t].pc # "idle" => /\ task'[t].form \in Form /\ task'[t].session \in Session
                                      /\ task'[t].session.builder \in DOMAIN attempts'
<1>1. Len(rows) \in Nat /\ Len(rows') \in Nat /\ 0 .. Len(rows) \subseteq 0 .. Len(rows')
  BY DEF TypeOK
<1>2. DOMAIN attempts \subseteq DOMAIN attempts'
  BY DEF TypeOK
<1> QED
  BY <1>1, <1>2 DEF TypeOK

LEMMA OneTaskTyped ==
  ASSUME TypeOK, NEW t \in Tabs, NEW next, task' = [task EXCEPT ![t] = next],
         attempts' \in Seq(Attempt), Len(attempts) <= Len(attempts'),
         rows' \in Seq(Row), Len(rows) <= Len(rows'),
         next \in [pc : {"idle", "preview", "save", "row"}, form : Form \cup {None},
                   session : Session \cup {None}, editing : 0 .. Len(rows')],
         next.pc # "idle" => /\ next.form \in Form /\ next.session \in Session
                             /\ next.session.builder \in DOMAIN attempts'
  PROVE  /\ task' \in [Tabs -> [pc : {"idle", "preview", "save", "row"}, form : Form \cup {None},
                                session : Session \cup {None}, editing : 0 .. Len(rows')]]
         /\ \A u \in Tabs :
              task'[u].pc # "idle" => /\ task'[u].form \in Form /\ task'[u].session \in Session
                                      /\ task'[u].session.builder \in DOMAIN attempts'
<1>1. Len(rows) \in Nat /\ Len(rows') \in Nat /\ 0 .. Len(rows) \subseteq 0 .. Len(rows')
  BY DEF TypeOK
<1>2. DOMAIN attempts \subseteq DOMAIN attempts'
  BY DEF TypeOK
<1> QED
  BY <1>1, <1>2 DEF TypeOK

LEMMA ExceptSeq ==
  ASSUME NEW S, NEW s \in Seq(S), NEW i \in DOMAIN s, NEW e \in S
  PROVE  /\ [s EXCEPT ![i] = e] \in Seq(S)
         /\ Len([s EXCEPT ![i] = e]) = Len(s)
         /\ DOMAIN [s EXCEPT ![i] = e] = DOMAIN s
OBVIOUS

LEMMA BuilderTyped ==
  ASSUME BuilderAssumption, session \in Session, NEW a \in Nat, a <= MaxAttempts
  PROVE  [session EXCEPT !.builder = a] \in Session /\ [session EXCEPT !.builder = a].builder = a
<1>1. a \in 0 .. MaxAttempts
  BY DEF BuilderAssumption
<1> QED
  BY <1>1 DEF Session

(* The actions that leave pages and requests alone. *)
LEMMA TypeRest ==
  ASSUME TypeOK, UNCHANGED <<page, task>>, attempts' \in Seq(Attempt),
         Len(attempts') = Len(attempts), session' \in Session,
         session'.builder <= Len(attempts'), vault' \in [Users -> Texts],
         cleared' \subseteq Users, spoiled' \subseteq Users,
         rows' \in Seq(Row), Len(rows) <= Len(rows'),
         \A a \in DOMAIN attempts' : attempts'[a].editing <= Len(rows')
  PROVE  TypeOK'
<1>1. Len(rows) \in Nat /\ Len(rows') \in Nat /\ Len(attempts) \in Nat
  BY DEF TypeOK
<1>2. page' \in [Tabs -> Form]
      /\ \A t \in Tabs : page'[t].cv <= Len(rows) /\ page'[t].attempt <= Len(attempts)
  BY DEF TypeOK
<1>3. \A t \in Tabs : page'[t].cv \in Nat
  BY <1>2 DEF Form
<1>4. \A t \in Tabs : page'[t].cv <= Len(rows') /\ page'[t].attempt <= Len(attempts')
  BY <1>1, <1>2, <1>3
<1>5. /\ task' \in [Tabs -> [pc : {"idle", "preview", "save", "row"}, form : Form \cup {None},
                             session : Session \cup {None}, editing : 0 .. Len(rows')]]
      /\ \A t \in Tabs :
           task'[t].pc # "idle" => /\ task'[t].form \in Form /\ task'[t].session \in Session
                                   /\ task'[t].session.builder \in DOMAIN attempts'
  BY <1>1, TasksTyped
<1>6. Len(attempts') <= MaxAttempts
  BY DEF TypeOK
<1> QED
  BY <1>2, <1>4, <1>5, <1>6 DEF TypeOK

LEMMA OpenNewTyped ==
  ASSUME BuilderAssumption, TypeOK, NEW t \in Tabs, OpenNew(t)
  PROVE  TypeOK'
<1> DEFINE a == IF session.builder # 0 THEN session.builder ELSE Len(attempts) + 1
           data == IF session.builder # 0 THEN attempts[a].data ELSE StarterData
           seen == [data EXCEPT !.phone = IF @ = None THEN FromVault(@) ELSE @]
<1>1. /\ session' = [session EXCEPT !.builder = a] /\ a <= MaxAttempts
      /\ attempts' = IF session.builder # 0 THEN [attempts EXCEPT ![a].editing = 0]
                     ELSE Append(attempts, Fresh(data))
      /\ Show(t, 0, a, seen)
      /\ UNCHANGED <<vault, rows, task, cleared, spoiled>>
  BY DEF OpenNew, Visit
<1>2. /\ attempts \in Seq(Attempt) /\ Len(attempts) \in Nat /\ session \in Session
      /\ session.builder \in Nat /\ session.builder <= Len(attempts)
      /\ Len(attempts) <= MaxAttempts /\ Len(rows) \in Nat
  BY DEF TypeOK, Session
<1>3. a \in Nat /\ a # 0
  BY <1>2
<1>4. session.builder # 0 => a \in DOMAIN attempts
  BY <1>2
<1>5. data \in Contents
  <2>1. StarterData \in Contents
    BY DEF StarterData, Contents, Titles, Texts
  <2>a. \A i \in DOMAIN attempts : attempts[i] \in Attempt
    BY <1>2
  <2>2. \A i \in DOMAIN attempts : attempts[i].data \in Contents
    BY <2>a DEF Attempt
  <2> QED
    BY <1>4, <2>1, <2>2
<1>6. seen \in Contents
  <2>1. FromVault(data.phone) \in Texts
    BY <1>5 DEF FromVault, TypeOK, Session, Contents, Texts
  <2> HIDE DEF data
  <2> QED
    BY <1>5, <2>1 DEF Contents
<1> HIDE DEF a, data, seen
<1>7. /\ attempts' \in Seq(Attempt) /\ Len(attempts) <= Len(attempts')
      /\ Len(attempts') <= MaxAttempts /\ a <= Len(attempts')
      /\ \A i \in DOMAIN attempts' : attempts'[i].editing <= Len(rows)
  <2>0. \A i \in DOMAIN attempts : attempts[i] \in Attempt /\ attempts[i].editing <= Len(rows)
    BY <1>2 DEF TypeOK
  <2>1. CASE session.builder # 0
    <3>1. [attempts[a] EXCEPT !.editing = 0] \in Attempt
      BY <1>4, <2>0, <2>1 DEF Attempt
    <3>2. attempts' = [attempts EXCEPT ![a] = [attempts[a] EXCEPT !.editing = 0]]
      BY <1>1, <2>1
    <3>3. attempts' \in Seq(Attempt) /\ Len(attempts') = Len(attempts)
      BY <1>2, <1>4, <2>1, <3>1, <3>2, ExceptSeq
    <3>4. \A i \in DOMAIN attempts' : attempts'[i].editing <= Len(rows)
      BY <1>2, <1>4, <2>0, <2>1, <3>2, <3>3 DEF Attempt
    <3> QED
      BY <1>2, <1>4, <2>1, <3>3, <3>4
  <2>2. CASE session.builder = 0
    <3> DEFINE new == Fresh(data)
    <3>1. new \in Attempt /\ new.editing = 0
      BY <1>5 DEF Attempt, Fresh
    <3>2. attempts' = Append(attempts, new) /\ a = Len(attempts) + 1
      BY <1>1, <2>2 DEF a
    <3> HIDE DEF new
    <3> QED
      BY <1>1, <1>2, <2>0, <3>1, <3>2
  <2> QED
    BY <2>1, <2>2
<1>8. session' \in Session /\ session'.builder <= Len(attempts')
  BY <1>1, <1>2, <1>3, <1>7, BuilderTyped
<1>9. /\ page' \in [Tabs -> Form]
      /\ \A u \in Tabs : page'[u].cv <= Len(rows) /\ page'[u].attempt <= Len(attempts')
  BY <1>1, <1>2, <1>3, <1>6, <1>7, ShowTyped
<1>10. /\ task' \in [Tabs -> [pc : {"idle", "preview", "save", "row"}, form : Form \cup {None},
                             session : Session \cup {None}, editing : 0 .. Len(rows')]]
       /\ \A u \in Tabs :
           task'[u].pc # "idle" => /\ task'[u].form \in Form /\ task'[u].session \in Session
                                   /\ task'[u].session.builder \in DOMAIN attempts'
  <2>1. rows' \in Seq(Row) /\ Len(rows) <= Len(rows') /\ task' = task
    BY <1>1, <1>2 DEF TypeOK
  <2> QED
    BY <1>7, <2>1, TasksTyped
<1> QED
  BY <1>1, <1>7, <1>8, <1>9, <1>10 DEF TypeOK

LEMMA OpenEditTyped ==
  ASSUME BuilderAssumption, TypeOK, NEW t \in Tabs, NEW r \in DOMAIN rows, OpenEdit(t, r)
  PROVE  TypeOK'
<1> DEFINE a == Len(attempts) + 1
           new == [data |-> Opened(r), editing |-> r, of |-> r, opener |-> session.user]
<1>1. /\ session' = [session EXCEPT !.builder = a] /\ a <= MaxAttempts
      /\ attempts' = Append(attempts, new)
      /\ Show(t, r, a, Opened(r))
      /\ UNCHANGED <<vault, rows, task, cleared, spoiled>>
  BY DEF OpenEdit, Visit
<1>2. /\ attempts \in Seq(Attempt) /\ Len(attempts) \in Nat /\ session \in Session
      /\ session.builder \in Nat /\ Len(rows) \in Nat
      /\ r \in Nat /\ r <= Len(rows) /\ session.user \in Users \cup {None}
  BY DEF TypeOK, Session
<1>3. Opened(r) \in Contents
  BY OpenedTyped
<1>4. new \in Attempt /\ new.editing = r
  BY <1>2, <1>3 DEF Attempt
<1>5. \A i \in DOMAIN attempts : attempts[i].editing <= Len(rows)
  BY DEF TypeOK
<1> HIDE DEF new
<1>7. /\ attempts' \in Seq(Attempt) /\ Len(attempts') = Len(attempts) + 1
      /\ \A i \in DOMAIN attempts' : attempts'[i].editing <= Len(rows)
  BY <1>1, <1>2, <1>4, <1>5
<1>8. session' \in Session /\ session'.builder <= Len(attempts')
  BY <1>1, <1>2, <1>7, BuilderTyped
<1>9. /\ page' \in [Tabs -> Form]
      /\ \A u \in Tabs : page'[u].cv <= Len(rows) /\ page'[u].attempt <= Len(attempts')
  BY <1>1, <1>2, <1>3, <1>7, ShowTyped
<1>10. /\ task' \in [Tabs -> [pc : {"idle", "preview", "save", "row"}, form : Form \cup {None},
                             session : Session \cup {None}, editing : 0 .. Len(rows')]]
       /\ \A u \in Tabs :
           task'[u].pc # "idle" => /\ task'[u].form \in Form /\ task'[u].session \in Session
                                   /\ task'[u].session.builder \in DOMAIN attempts'
  <2>1. rows' \in Seq(Row) /\ Len(rows) <= Len(rows') /\ task' = task
        /\ Len(attempts) <= Len(attempts')
    BY <1>1, <1>2, <1>7 DEF TypeOK
  <2> QED
    BY <1>7, <2>1, TasksTyped
<1> QED
  BY <1>1, <1>7, <1>8, <1>9, <1>10 DEF TypeOK

(* Typing in a page changes neither its CV nor its attempt. *)
LEMMA EditTyped ==
  ASSUME TypeOK, NEW t \in Tabs, NEW f \in Form, f.cv = page[t].cv, f.attempt = page[t].attempt,
         Edit(t), page' = [page EXCEPT ![t] = f]
  PROVE  TypeOK'
<1>1. page' \in [Tabs -> Form]
      /\ \A u \in Tabs : page'[u].cv <= Len(rows) /\ page'[u].attempt <= Len(attempts)
  BY DEF TypeOK
<1>2. UNCHANGED <<session, vault, attempts, rows, task, cleared, spoiled>>
  BY DEF Edit
<1> QED
  BY <1>1, <1>2 DEF TypeOK

(* What the edits make of a page. *)
LEMMA EditsEffect ==
  ASSUME TypeOK, NEW t \in Tabs,
         \/ \E role \in Roles : AddRole(t, role)
         \/ \E i \in DOMAIN page[t].slots : RemoveRole(t, i)
         \/ \E p \in Phones \cup {None} : SetPhone(t, p)
  PROVE  \E f \in Form : /\ f.cv = page[t].cv /\ f.attempt = page[t].attempt
                         /\ f.open = page[t].open /\ f.crossed = page[t].crossed
                         /\ Edit(t) /\ page' = [page EXCEPT ![t] = f]
<1>1. page \in [Tabs -> Form] /\ page[t] \in Form
  BY DEF TypeOK
<1>2. page[t].slots \in Seq(Titles \cup {Blank})
  BY <1>1 DEF Form
<1>3. ASSUME NEW slots \in Seq(Titles \cup {Blank}), Edit(t),
             page' = [page EXCEPT ![t].slots = slots]
      PROVE  \E f \in Form : /\ f.cv = page[t].cv /\ f.attempt = page[t].attempt
                             /\ f.open = page[t].open /\ f.crossed = page[t].crossed
                             /\ Edit(t) /\ page' = [page EXCEPT ![t] = f]
  <2> DEFINE f == [page[t] EXCEPT !.slots = slots]
  <2>1. f \in Form /\ f.cv = page[t].cv /\ f.attempt = page[t].attempt
        /\ f.open = page[t].open /\ f.crossed = page[t].crossed
    BY <1>1 DEF Form
  <2>2. page' = [page EXCEPT ![t] = f]
    BY <1>3
  <2> QED
    BY <1>3, <2>1, <2>2
<1>4. ASSUME NEW role \in Roles, AddRole(t, role)
      PROVE  \E f \in Form : /\ f.cv = page[t].cv /\ f.attempt = page[t].attempt
                             /\ f.open = page[t].open /\ f.crossed = page[t].crossed
                             /\ Edit(t) /\ page' = [page EXCEPT ![t] = f]
  <2>1. Append(page[t].slots, role) \in Seq(Titles \cup {Blank})
    BY <1>2 DEF Titles
  <2>2. page' = [page EXCEPT ![t].slots = Append(page[t].slots, role)] /\ Edit(t)
    BY <1>4 DEF AddRole
  <2> QED
    BY <1>3, <2>1, <2>2
<1>5. ASSUME NEW i \in DOMAIN page[t].slots, RemoveRole(t, i)
      PROVE  \E f \in Form : /\ f.cv = page[t].cv /\ f.attempt = page[t].attempt
                             /\ f.open = page[t].open /\ f.crossed = page[t].crossed
                             /\ Edit(t) /\ page' = [page EXCEPT ![t] = f]
  <2>1. [page[t].slots EXCEPT ![i] = Blank] \in Seq(Titles \cup {Blank})
    BY <1>2, ExceptSeq
  <2>2. page' = [page EXCEPT ![t].slots = [page[t].slots EXCEPT ![i] = Blank]] /\ Edit(t)
    BY <1>5 DEF RemoveRole
  <2> QED
    BY <1>3, <2>1, <2>2
<1>6. ASSUME NEW p \in Phones \cup {None}, SetPhone(t, p)
      PROVE  \E f \in Form : /\ f.cv = page[t].cv /\ f.attempt = page[t].attempt
                             /\ f.open = page[t].open /\ f.crossed = page[t].crossed
                             /\ Edit(t) /\ page' = [page EXCEPT ![t] = f]
  <2> DEFINE f == [page[t] EXCEPT !.phone = p]
  <2>1. f \in Form /\ f.cv = page[t].cv /\ f.attempt = page[t].attempt
        /\ f.open = page[t].open /\ f.crossed = page[t].crossed
    BY <1>1 DEF Form, Texts
  <2>2. page' = [page EXCEPT ![t] = f] /\ Edit(t)
    BY <1>6 DEF SetPhone
  <2> QED
    BY <2>1, <2>2
<1> QED
  BY <1>4, <1>5, <1>6

(* What a started request holds: the page, and what its attempt says. *)
LEMMA StartsTyped ==
  ASSUME BuilderAssumption, TypeOK, NEW t \in Tabs, StartPreview(t) \/ StartSave(t)
  PROVE  TypeOK'
<1>1. PICK kind \in {"preview", "save"} : Request(t, kind)
  BY DEF StartPreview, StartSave
<1> DEFINE next == [pc |-> kind, form |-> page[t], session |-> session,
                    editing |-> attempts[session.builder].editing]
<1>2. /\ task' = [task EXCEPT ![t] = next] /\ session.builder # 0
      /\ UNCHANGED <<session, attempts, vault, rows, page, cleared, spoiled>>
  BY <1>1 DEF Request, StartPreview, StartSave
<1>3. /\ page[t] \in Form /\ Len(rows) \in Nat /\ Len(attempts) \in Nat
      /\ attempts \in Seq(Attempt) /\ session \in Session /\ session.builder \in DOMAIN attempts
  BY <1>2 DEF TypeOK, Session
<1>4. attempts[session.builder].editing \in 0 .. Len(rows)
  <2>1. attempts[session.builder] \in Attempt
    BY <1>3
  <2>2. attempts[session.builder].editing <= Len(rows)
    BY <1>3 DEF TypeOK
  <2> QED
    BY <1>3, <2>1, <2>2 DEF Attempt
<1>5. /\ next \in [pc : {"idle", "preview", "save", "row"}, form : Form \cup {None},
                   session : Session \cup {None}, editing : 0 .. Len(rows')]
      /\ next.form \in Form /\ next.session \in Session
      /\ next.session.builder \in DOMAIN attempts'
  BY <1>2, <1>3, <1>4
<1> HIDE DEF next
<1>6. /\ rows' \in Seq(Row) /\ Len(rows) <= Len(rows')
      /\ attempts' \in Seq(Attempt) /\ Len(attempts) <= Len(attempts')
  BY <1>2, <1>3 DEF TypeOK
<1>7. /\ task' \in [Tabs -> [pc : {"idle", "preview", "save", "row"}, form : Form \cup {None},
                             session : Session \cup {None}, editing : 0 .. Len(rows')]]
      /\ \A u \in Tabs :
           task'[u].pc # "idle" => /\ task'[u].form \in Form /\ task'[u].session \in Session
                                   /\ task'[u].session.builder \in DOMAIN attempts'
  BY <1>2, <1>5, <1>6, OneTaskTyped
<1> QED
  BY <1>2, <1>7 DEF TypeOK

(* A form is written to its attempt: the others stay as they are, and the  *)
(* CV it edits is the one the request or the attempt knows.                *)
LEMMA WriteBackEffect ==
  ASSUME BuilderAssumption, TypeOK, NEW t \in Tabs, task[t].pc # "idle", WriteBack(t)
  PROVE  LET b == task[t].session.builder
         IN /\ b \in DOMAIN attempts
            /\ attempts' \in Seq(Attempt) /\ Len(attempts') = Len(attempts)
            /\ DOMAIN attempts' = DOMAIN attempts
            /\ attempts'[b].editing =
                 IF task[t].editing # 0 THEN task[t].editing ELSE attempts[b].editing
            /\ \A a \in DOMAIN attempts : a # b => attempts'[a] = attempts[a]
            /\ attempts'[b].of = attempts[b].of /\ attempts'[b].opener = attempts[b].opener
            /\ \A a \in DOMAIN attempts' : attempts'[a].editing \in 0 .. Len(rows)
<1> DEFINE b == task[t].session.builder
           e == IF task[t].editing # 0 THEN task[t].editing ELSE attempts[b].editing
           new == [attempts[b] EXCEPT !.data = Parsed(task[t].form), !.editing = e]
<1>1. /\ task[t].form \in Form /\ b \in DOMAIN attempts /\ task[t].editing \in 0 .. Len(rows)
      /\ attempts \in Seq(Attempt) /\ Len(rows) \in Nat
      /\ \A a \in DOMAIN attempts : attempts[a].editing <= Len(rows)
  BY DEF TypeOK
<1>2. \A a \in DOMAIN attempts : attempts[a] \in Attempt /\ attempts[a].editing \in 0 .. Len(rows)
  <2>1. \A a \in DOMAIN attempts : attempts[a] \in Attempt
    BY <1>1
  <2> QED
    BY <1>1, <2>1 DEF Attempt
<1>3. e \in 0 .. Len(rows) /\ e \in Nat
  BY <1>1, <1>2
<1>4. Parsed(task[t].form) \in Contents
  BY <1>1, StoredTyped
<1>5. /\ new \in Attempt /\ new.editing = e
      /\ new.of = attempts[b].of /\ new.opener = attempts[b].opener
  BY <1>1, <1>2, <1>3, <1>4 DEF Attempt
<1>6. attempts' = [attempts EXCEPT ![b] = new]
  BY <1>1, <1>2 DEF WriteBack
<1> HIDE DEF new, e, b
<1>7. attempts' \in Seq(Attempt) /\ Len(attempts') = Len(attempts) /\ DOMAIN attempts' = DOMAIN attempts
  BY <1>1, <1>5, <1>6, ExceptSeq
<1>8. /\ attempts'[b].editing = e
      /\ attempts'[b].of = attempts[b].of /\ attempts'[b].opener = attempts[b].opener
      /\ \A a \in DOMAIN attempts : a # b => attempts'[a] = attempts[a]
  BY <1>1, <1>5, <1>6
<1>9. \A a \in DOMAIN attempts' : attempts'[a].editing \in 0 .. Len(rows)
  BY <1>1, <1>2, <1>3, <1>7, <1>8
<1> QED
  BY <1>1, <1>7, <1>8, <1>9 DEF b, e

LEMMA PreviewTyped ==
  ASSUME BuilderAssumption, TypeOK, NEW t \in Tabs, Preview(t) \/ \E other \in BOOLEAN : SaveForm(t, other)
  PROVE  TypeOK'
<1>1. task[t].pc # "idle" /\ WriteBack(t) /\ UNCHANGED <<session, rows, page, cleared>>
  BY DEF Preview, SaveForm
<1>2. /\ attempts' \in Seq(Attempt) /\ Len(attempts') = Len(attempts)
      /\ DOMAIN attempts' = DOMAIN attempts
      /\ \A a \in DOMAIN attempts' : attempts'[a].editing \in 0 .. Len(rows)
  BY <1>1, WriteBackEffect
<1>3. /\ task[t].form \in Form /\ task[t].session \in Session /\ Len(rows) \in Nat
      /\ task[t].session.builder \in DOMAIN attempts /\ rows' \in Seq(Row)
      /\ Len(rows) <= Len(rows') /\ Len(attempts) \in Nat /\ Len(attempts) <= Len(attempts')
      /\ task \in [Tabs -> [pc : {"idle", "preview", "save", "row"}, form : Form \cup {None},
                            session : Session \cup {None}, editing : 0 .. Len(rows)]]
  BY <1>1, <1>2 DEF TypeOK
<1>4. /\ task' \in [Tabs -> [pc : {"idle", "preview", "save", "row"}, form : Form \cup {None},
                             session : Session \cup {None}, editing : 0 .. Len(rows')]]
      /\ \A u \in Tabs :
           task'[u].pc # "idle" => /\ task'[u].form \in Form /\ task'[u].session \in Session
                                   /\ task'[u].session.builder \in DOMAIN attempts'
  <2>1. CASE Preview(t)
    <3>1. task' = [task EXCEPT ![t] = Idle]
      BY <2>1 DEF Preview
    <3>2. /\ Idle \in [pc : {"idle", "preview", "save", "row"}, form : Form \cup {None},
                       session : Session \cup {None}, editing : 0 .. Len(rows')]
          /\ Idle.pc = "idle"
      BY <1>1, <1>3 DEF Idle
    <3> QED
      BY <1>2, <1>3, <3>1, <3>2, OneTaskTyped
  <2>2. ASSUME NEW other \in BOOLEAN, SaveForm(t, other)
        PROVE  /\ task' \in [Tabs -> [pc : {"idle", "preview", "save", "row"}, form : Form \cup {None},
                                      session : Session \cup {None}, editing : 0 .. Len(rows')]]
               /\ \A u \in Tabs :
                    task'[u].pc # "idle" => /\ task'[u].form \in Form /\ task'[u].session \in Session
                                            /\ task'[u].session.builder \in DOMAIN attempts'
    <3> DEFINE e == attempts'[task[t].session.builder].editing
               next == [task[t] EXCEPT !.pc = "row", !.editing = e]
    <3>1. task' = [task EXCEPT ![t] = next]
      BY <2>2 DEF SaveForm
    <3>2. e \in 0 .. Len(rows')
      BY <1>1, <1>2, <1>3
    <3>a. task[t] \in [pc : {"idle", "preview", "save", "row"}, form : Form \cup {None},
                       session : Session \cup {None}, editing : 0 .. Len(rows)]
      BY <1>3
    <3> HIDE DEF e
    <3>3. /\ next \in [pc : {"idle", "preview", "save", "row"}, form : Form \cup {None},
                       session : Session \cup {None}, editing : 0 .. Len(rows')]
          /\ next.form = task[t].form /\ next.session = task[t].session
      BY <3>a, <3>2
    <3> HIDE DEF next
    <3>4. /\ next.form \in Form /\ next.session \in Session
          /\ next.session.builder \in DOMAIN attempts'
      BY <1>2, <1>3, <3>3
    <3> QED
      BY <1>2, <1>3, <3>1, <3>3, <3>4, OneTaskTyped
  <2> QED
    BY <2>1, <2>2
<1>5. vault' \in [Users -> Texts] /\ spoiled' \subseteq Users
  <2>1. vault \in [Users -> Texts] /\ spoiled \subseteq Users /\ task[t].form.phone \in Texts
        /\ task[t].session.pii \in Texts \cup {Locked} /\ task[t].session.user \in Users \cup {None}
    BY <1>3 DEF TypeOK, Form, Session
  <2>2. CASE Preview(t)
    BY <2>1, <2>2 DEF Preview
  <2>3. ASSUME NEW other \in BOOLEAN, SaveForm(t, other)
        PROVE  vault' \in [Users -> Texts] /\ spoiled' \subseteq Users
    <3> DEFINE s == task[t].session
               copy == IF Backfill(s, task[t].form.phone) THEN task[t].form.phone ELSE s.pii
    <3>1. \/ UNCHANGED <<vault, spoiled>>
          \/ /\ s.user # None /\ s.pii # Locked /\ vault' = [vault EXCEPT ![s.user] = copy]
             /\ spoiled' \in {spoiled, spoiled \cup {s.user}}
      BY <2>3 DEF SaveForm
    <3>2. s.pii # Locked => copy \in Texts
      BY <2>1
    <3> HIDE DEF copy
    <3>3. CASE UNCHANGED <<vault, spoiled>>
      BY <2>1, <3>3
    <3>4. CASE /\ s.user # None /\ s.pii # Locked /\ vault' = [vault EXCEPT ![s.user] = copy]
               /\ spoiled' \in {spoiled, spoiled \cup {s.user}}
      BY <2>1, <3>2, <3>4
    <3> QED
      BY <3>1, <3>3, <3>4
  <2> QED
    BY <2>2, <2>3
<1>6. /\ \A a \in DOMAIN attempts' : attempts'[a].editing <= Len(rows')
      /\ \A u \in Tabs : page'[u].cv <= Len(rows') /\ page'[u].attempt <= Len(attempts')
      /\ session'.builder <= Len(attempts') /\ Len(attempts') <= MaxAttempts
  BY <1>1, <1>2, <1>3, <1>5 DEF TypeOK
<1> QED
  BY <1>1, <1>2, <1>3, <1>4, <1>5, <1>6 DEF TypeOK

(* A save changes the row it edits or adds one. *)
LEMMA SaveRowEffect ==
  ASSUME BuilderAssumption, TypeOK, NEW t \in Tabs, SaveRow(t)
  PROVE  LET c == Parsed(task[t].form)
             r == task[t].editing
             user == task[t].session.user
         IN /\ rows' \in Seq(Row) /\ Len(rows) <= Len(rows')
            /\ \/ /\ r # 0 /\ r \in DOMAIN rows /\ rows[r] \in Row
                  /\ DOMAIN rows' = DOMAIN rows /\ rows'[r] = Updated(rows[r], c, user)
                  /\ \A i \in DOMAIN rows : i # r => rows'[i] = rows[i]
               \/ /\ Len(rows') = Len(rows) + 1 /\ rows'[Len(rows) + 1] = Inserted(c, user)
                  /\ \A i \in DOMAIN rows : rows'[i] = rows[i]
<1> DEFINE c == Parsed(task[t].form)
           r == task[t].editing
           user == task[t].session.user
<1>1. /\ task[t].form \in Form /\ user \in Users \cup {None} /\ r \in 0 .. Len(rows)
      /\ rows \in Seq(Row) /\ Len(rows) \in Nat
  BY DEF TypeOK, Session, SaveRow
<1>2. /\ Inserted(c, user) \in Row
      /\ \A row \in Row : Updated(row, c, user) \in Row
  BY <1>1, StoredTyped
<1>3. \/ r # 0 /\ rows' = [rows EXCEPT ![r] = Updated(rows[r], c, user)]
      \/ r = 0 /\ rows' = Append(rows, Inserted(c, user))
  BY DEF SaveRow
<1>4. CASE r # 0
  <2>0. rows' = [rows EXCEPT ![r] = Updated(rows[r], c, user)]
    BY <1>3, <1>4
  <2>1. r \in DOMAIN rows /\ rows[r] \in Row
    BY <1>1, <1>4
  <2>2. Updated(rows[r], c, user) \in Row
    BY <1>2, <2>1
  <2> HIDE DEF c, r, user
  <2>3. /\ rows' \in Seq(Row) /\ Len(rows') = Len(rows)
        /\ DOMAIN rows' = DOMAIN rows
    BY <1>1, <2>0, <2>1, <2>2, ExceptSeq
  <2>4. rows'[r] = Updated(rows[r], c, user) /\ \A i \in DOMAIN rows : i # r => rows'[i] = rows[i]
    BY <2>0, <2>1
  <2>5. Len(rows) <= Len(rows')
    BY <1>1, <2>3
  <2> QED
    BY <1>4, <2>1, <2>3, <2>4, <2>5 DEF c, r, user
<1>5. CASE ~(r # 0)
  <2>0. rows' = Append(rows, Inserted(c, user))
    BY <1>3, <1>5
  <2> HIDE DEF c, r, user
  <2>1. /\ rows' \in Seq(Row) /\ Len(rows') = Len(rows) + 1
        /\ rows'[Len(rows) + 1] = Inserted(c, user)
        /\ \A i \in DOMAIN rows : rows'[i] = rows[i]
    BY <1>1, <1>2, <2>0
  <2>2. Len(rows) <= Len(rows')
    BY <1>1, <2>1
  <2> QED
    BY <2>1, <2>2 DEF c, r, user
<1> QED
  BY <1>4, <1>5

LEMMA SaveRowTyped ==
  ASSUME BuilderAssumption, TypeOK, NEW t \in Tabs, SaveRow(t)
  PROVE  TypeOK'
<1>1. /\ rows' \in Seq(Row) /\ Len(rows) <= Len(rows')
  BY SaveRowEffect
<1>2. /\ task' = [task EXCEPT ![t] = Idle]
      /\ UNCHANGED <<session, vault, attempts, page, cleared, spoiled>>
  BY DEF SaveRow
<1>3. /\ Len(rows) \in Nat /\ Len(rows') \in Nat /\ Len(attempts) <= Len(attempts')
      /\ attempts' \in Seq(Attempt)
  BY <1>1, <1>2 DEF TypeOK
<1>4. /\ Idle \in [pc : {"idle", "preview", "save", "row"}, form : Form \cup {None},
                   session : Session \cup {None}, editing : 0 .. Len(rows')]
      /\ Idle.pc = "idle"
  BY <1>3 DEF Idle
<1>5. /\ task' \in [Tabs -> [pc : {"idle", "preview", "save", "row"}, form : Form \cup {None},
                             session : Session \cup {None}, editing : 0 .. Len(rows')]]
      /\ \A u \in Tabs :
           task'[u].pc # "idle" => /\ task'[u].form \in Form /\ task'[u].session \in Session
                                   /\ task'[u].session.builder \in DOMAIN attempts'
  BY <1>1, <1>2, <1>3, <1>4, OneTaskTyped
<1>6. \A a \in DOMAIN attempts' : attempts'[a].editing <= Len(rows')
  <2>1. \A a \in DOMAIN attempts : attempts[a].editing \in Nat /\ attempts[a].editing <= Len(rows)
    <3>1. \A a \in DOMAIN attempts : attempts[a] \in Attempt
      BY DEF TypeOK
    <3> QED
      BY <3>1 DEF TypeOK, Attempt
  <2> QED
    BY <1>1, <1>2, <1>3, <2>1
<1>7. \A u \in Tabs : page[u].cv <= Len(rows') /\ page[u].attempt <= Len(attempts')
  <2>1. \A u \in Tabs : page[u].cv \in Nat /\ page[u].cv <= Len(rows) /\ page[u].attempt <= Len(attempts)
    BY DEF TypeOK, Form
  <2> QED
    BY <1>1, <1>2, <1>3, <2>1
<1> QED
  BY <1>1, <1>2, <1>3, <1>5, <1>6, <1>7 DEF TypeOK

LEMMA RestTyped ==
  ASSUME BuilderAssumption, TypeOK,
         \/ Generate \/ LogOut \/ Expire \/ \E u \in Users : LogIn(u)
         \/ \E p \in Phones \cup {None} : EditProfile(p)
  PROVE  TypeOK'
<1>1. /\ attempts \in Seq(Attempt) /\ Len(attempts) \in Nat /\ Len(rows) \in Nat
      /\ rows \in Seq(Row) /\ session \in Session /\ session.builder <= Len(attempts)
      /\ vault \in [Users -> Texts] /\ cleared \subseteq Users /\ spoiled \subseteq Users
      /\ \A a \in DOMAIN attempts : attempts[a].editing <= Len(rows)
  BY DEF TypeOK
<1>2. CASE Generate
  <2> DEFINE new == [cv |-> [roles |-> Tailored,
                             phone |-> IF session.pii \in {None, Locked} THEN None ELSE Token],
                     owner |-> session.user, by |-> session.user, voice |-> TRUE]
  <2>1. new \in Row
    BY <1>1 DEF BuilderAssumption, Row, Contents, Texts, Session
  <2>2. /\ rows' = Append(rows, new)
        /\ UNCHANGED <<session, vault, attempts, page, task, cleared, spoiled>>
    BY <1>2 DEF Generate
  <2> HIDE DEF new
  <2>3. rows' \in Seq(Row) /\ Len(rows) <= Len(rows') /\ Len(rows') \in Nat
    BY <1>1, <2>1, <2>2
  <2>4. \A a \in DOMAIN attempts : attempts[a].editing <= Len(rows')
    <3>1. \A a \in DOMAIN attempts : attempts[a] \in Attempt
      BY <1>1
    <3>2. \A a \in DOMAIN attempts : attempts[a].editing \in Nat
      BY <3>1 DEF Attempt
    <3> QED
      BY <1>1, <2>3, <3>2
  <2> QED
    BY <1>1, <2>2, <2>3, <2>4, TypeRest
<1>3. CASE LogOut \/ Expire
  <2>1. UNCHANGED <<vault, attempts, rows, page, task, cleared, spoiled>>
    BY <1>3 DEF LogOut, Expire
  <2>2. session' \in Session /\ session'.builder = session.builder
    BY <1>1, <1>3 DEF LogOut, Expire, Session
  <2> QED
    BY <1>1, <2>1, <2>2, TypeRest
<1>4. ASSUME NEW u \in Users, LogIn(u) PROVE TypeOK'
  <2>1. UNCHANGED <<vault, attempts, rows, page, task, cleared, spoiled>>
    BY <1>4 DEF LogIn
  <2>2. session' \in Session /\ session'.builder = session.builder
    BY <1>1, <1>4 DEF LogIn, Session
  <2> QED
    BY <1>1, <2>1, <2>2, TypeRest
<1>5. ASSUME NEW p \in Phones \cup {None}, EditProfile(p) PROVE TypeOK'
  <2>1. /\ UNCHANGED <<attempts, rows, page, task, spoiled>> /\ session.user # None
        /\ vault' = [vault EXCEPT ![session.user] = p]
        /\ cleared' \in {cleared, cleared \cup {session.user}}
    BY <1>5 DEF EditProfile
  <2>2. session' \in Session /\ session'.builder = session.builder
    BY <1>1, <1>5 DEF EditProfile, Session, Texts
  <2>3. session.user \in Users /\ p \in Texts
    BY <1>1, <2>1 DEF Session, Texts
  <2>4. vault' \in [Users -> Texts] /\ cleared' \subseteq Users
    BY <1>1, <2>1, <2>3
  <2> QED
    BY <1>1, <2>1, <2>2, <2>4, TypeRest
<1> QED
  BY <1>2, <1>3, <1>4, <1>5

LEMMA TypeStep ==
  ASSUME BuilderAssumption, TypeOK, [Next]_vars
  PROVE  TypeOK'
<1>1. ASSUME NEW t \in Tabs, OpenNew(t) PROVE TypeOK'
  BY <1>1, OpenNewTyped
<1>2. ASSUME NEW t \in Tabs, NEW r \in DOMAIN rows, OpenEdit(t, r) PROVE TypeOK'
  BY <1>2, OpenEditTyped
<1>3. ASSUME NEW t \in Tabs,
             \/ \E role \in Roles : AddRole(t, role)
             \/ \E i \in DOMAIN page[t].slots : RemoveRole(t, i)
             \/ \E p \in Phones \cup {None} : SetPhone(t, p)
      PROVE  TypeOK'
  BY <1>3, EditsEffect, EditTyped
<1>4. ASSUME NEW t \in Tabs, StartPreview(t) \/ StartSave(t) PROVE TypeOK'
  BY <1>4, StartsTyped
<1>5. ASSUME NEW t \in Tabs, Preview(t) \/ \E other \in BOOLEAN : SaveForm(t, other) PROVE TypeOK'
  BY <1>5, PreviewTyped
<1>6. ASSUME NEW t \in Tabs, SaveRow(t) PROVE TypeOK'
  BY <1>6, SaveRowTyped
<1>7. CASE UNCHANGED vars
  BY <1>7 DEF vars, TypeOK
<1> QED
  BY <1>1, <1>2, <1>3, <1>4, <1>5, <1>6, <1>7, RestTyped DEF Next

LEMMA TypeInit == BuilderAssumption /\ Init => TypeOK
<1> SUFFICES ASSUME BuilderAssumption, Init PROVE TypeOK
  OBVIOUS
<1>1. NoPage \in Form /\ NoPage.cv = 0 /\ NoPage.attempt = 0
  BY DEF NoPage, Form, Texts
<1>2. /\ Idle \in [pc : {"idle", "preview", "save", "row"}, form : Form \cup {None},
                   session : Session \cup {None}, editing : 0 .. 0]
      /\ Idle.pc = "idle"
  BY DEF Idle
<1>3. session \in Session /\ session.builder = 0
  BY DEF Init, Session, BuilderAssumption
<1>4. attempts = <<>> /\ rows = <<>> /\ MaxAttempts \in Nat
  BY DEF Init, BuilderAssumption
<1>5. /\ attempts \in Seq(Attempt) /\ Len(attempts) = 0 /\ rows \in Seq(Row)
      /\ Len(rows) = 0 /\ DOMAIN attempts = {} /\ 0 <= MaxAttempts
  BY <1>4
<1>6. /\ page \in [Tabs -> Form]
      /\ \A t \in Tabs : page[t].cv <= Len(rows) /\ page[t].attempt <= Len(attempts)
  BY <1>1, <1>5 DEF Init
<1>7. /\ task \in [Tabs -> [pc : {"idle", "preview", "save", "row"}, form : Form \cup {None},
                            session : Session \cup {None}, editing : 0 .. Len(rows)]]
      /\ \A t \in Tabs : task[t].pc = "idle"
  BY <1>2, <1>5 DEF Init
<1>8. vault \in [Users -> Texts] /\ cleared \subseteq Users /\ spoiled \subseteq Users
  BY DEF Init, Texts
<1>9. session.builder <= Len(attempts) /\ Len(attempts) <= MaxAttempts
  BY <1>3, <1>5
<1> QED
  BY <1>3, <1>5, <1>6, <1>7, <1>8, <1>9 DEF TypeOK

(* The builder's page, the session, the attempts and the rows keep their   *)
(* shape in every request, and what they name is there: a page and an      *)
(* attempt name a row, a request names an attempt (builder.py, cv_repo.py). *)
THEOREM TypeCorrect == Spec => []TypeOK
<1> QED
  BY BuilderAssumption, TypeInit, TypeStep, PTL DEF Spec

(***************************************************************************)
(* Roles                                                                   *)
(***************************************************************************)
RolesKept ==
  \A t \in Tabs :
    task[t].pc = "row" /\ task'[t].pc = "idle" =>
      LET slots == task[t].form.slots
      IN Blank \notin Range(slots) =>
           \E r \in DOMAIN rows' : rows'[r].cv.roles =
             IF Len(slots) <= Limit + 1 THEN slots ELSE SubSeq(slots, 1, Limit + 1)

(* Only a save ends in its last step. *)
LEMMA OnlySaveRowEnds ==
  ASSUME TypeOK, NEW t \in Tabs, task[t].pc = "row", task'[t].pc = "idle", [Next]_vars
  PROVE  SaveRow(t)
<1>1. task \in [Tabs -> [pc : {"idle", "preview", "save", "row"}, form : Form \cup {None},
                         session : Session \cup {None}, editing : 0 .. Len(rows)]]
  BY DEF TypeOK
<1>2. task' # task
  BY <1>1
<1>3. ASSUME NEW u \in Tabs, NEW kind \in {"preview", "save"}, Request(u, kind) PROVE FALSE
  BY <1>1, <1>3 DEF Request
<1>4. ASSUME NEW u \in Tabs, StartPreview(u) \/ StartSave(u) PROVE FALSE
  BY <1>3, <1>4 DEF StartPreview, StartSave
<1>5. ASSUME NEW u \in Tabs, Preview(u) \/ \E other \in BOOLEAN : SaveForm(u, other) PROVE FALSE
  BY <1>1, <1>5 DEF Preview, SaveForm
<1>6. ASSUME NEW u \in Tabs, SaveRow(u) PROVE u = t
  BY <1>1, <1>6 DEF SaveRow
<1>7. \A u \in Tabs : /\ OpenNew(u) => FALSE
                      /\ \A r \in DOMAIN rows : OpenEdit(u, r) => FALSE
                      /\ \A role \in Roles : AddRole(u, role) => FALSE
                      /\ \A i \in DOMAIN page[u].slots : RemoveRole(u, i) => FALSE
                      /\ \A p \in Phones \cup {None} : SetPhone(u, p) => FALSE
  BY <1>2 DEF OpenNew, OpenEdit, Visit, AddRole, RemoveRole, SetPhone, Edit
<1>8. /\ ~Generate /\ ~LogOut /\ ~Expire /\ \A u \in Users : ~LogIn(u)
      /\ \A p \in Phones \cup {None} : ~EditProfile(p)
      /\ ~UNCHANGED vars
  BY <1>2 DEF Generate, LogIn, LogOut, Expire, EditProfile, vars
<1> QED
  BY <1>4, <1>5, <1>6, <1>7, <1>8 DEF Next

LEMMA RolesStep ==
  ASSUME BuilderAssumption, TypeOK, [Next]_vars
  PROVE  RolesKept
<1> SUFFICES ASSUME NEW t \in Tabs, task[t].pc = "row", task'[t].pc = "idle",
                    Blank \notin Range(task[t].form.slots)
             PROVE  \E r \in DOMAIN rows' : rows'[r].cv.roles =
                      IF Len(task[t].form.slots) <= Limit + 1 THEN task[t].form.slots
                      ELSE SubSeq(task[t].form.slots, 1, Limit + 1)
  BY DEF RolesKept
<1> DEFINE c == Parsed(task[t].form)
           user == task[t].session.user
<1>1. SaveRow(t)
  BY OnlySaveRowEnds
<1>2. task[t].form \in Form /\ user \in Users \cup {None}
  BY DEF TypeOK, Session
<1>3. task[t].form.slots \in Seq(Titles \cup {Blank})
  BY <1>2 DEF Form
<1>4. c.roles = IF Len(task[t].form.slots) <= Limit + 1 THEN task[t].form.slots
                ELSE SubSeq(task[t].form.slots, 1, Limit + 1)
  BY <1>3, ParseKeepsRoles DEF Parsed
<1>5. c \in Contents
  BY <1>2, StoredTyped
<1>6. Redacted(c).roles = c.roles
  BY <1>5 DEF Redacted, Contents
<1> HIDE DEF c
<1>7. Inserted(c, user).cv.roles = c.roles
  BY <1>6 DEF Inserted
<1>8. \A row \in Row : Updated(row, c, user).cv.roles = c.roles
  BY <1>6 DEF Updated, Row
<1>9. \E r \in DOMAIN rows' : rows'[r] \in Row /\ rows'[r].cv.roles = c.roles
  <2>1. /\ Inserted(c, user) \in Row
        /\ \A row \in Row : Updated(row, c, user) \in Row
    BY <1>2, StoredTyped DEF c
  <2>2. \/ \E r \in DOMAIN rows : /\ rows[r] \in Row /\ DOMAIN rows' = DOMAIN rows
                                  /\ rows'[r] = Updated(rows[r], c, user)
        \/ /\ Len(rows') = Len(rows) + 1 /\ rows'[Len(rows) + 1] = Inserted(c, user)
           /\ rows' \in Seq(Row)
    BY <1>1, SaveRowEffect DEF c
  <2>3. Len(rows) \in Nat
    BY DEF TypeOK
  <2> QED
    BY <1>7, <1>8, <2>1, <2>2, <2>3
<1> QED
  BY <1>4, <1>9

(* A page with no removed role, saved, keeps all its roles in their order, *)
(* up to the limit, for every limit, every number of tabs and whatever     *)
(* overlapped with the save (parse_form_experience, builder_save).         *)
THEOREM RolesAreAlwaysKept == Spec => RolesAreKept
<1>1. TypeOK /\ [Next]_vars => [RolesKept]_vars
  BY BuilderAssumption, RolesStep
<1> QED
  BY <1>1, TypeCorrect, PTL DEF Spec, RolesAreKept, RolesKept

(***************************************************************************)
(* Phone numbers                                                           *)
(***************************************************************************)
(* The vault v has the number of u, unless u is exempt: the user emptied   *)
(* it or a save took it.  A session that holds a number, a request whose   *)
(* row is about to be written and a row with a token rely on it.           *)
Exempt == cleared \cup spoiled
Told(v, exempt, u) == u \in exempt \/ v[u] \in Phones
Knows(v, exempt, s) ==
  s.user # None => s.pii # Locked /\ (s.pii # None => Told(v, exempt, s.user))
Relies(row) == row.owner # None /\ row.by = row.owner /\ row.cv.phone = Token
Written(v, exempt, k) ==
  k.pc = "row" /\ k.session.user # None /\ k.form.phone # None => Told(v, exempt, k.session.user)
PhoneInv ==
  /\ Knows(vault, Exempt, session)
  /\ \A t \in Tabs : task[t].pc # "idle" => /\ Knows(vault, Exempt, task[t].session)
                                            /\ Written(vault, Exempt, task[t])
  /\ \A r \in DOMAIN rows : Relies(rows[r]) => Told(vault, Exempt, rows[r].owner)
  /\ \A u \in Users : vault[u] = Token => u \in Exempt

(* A step keeps what the vault tells of everybody. *)
Stays ==
  /\ \A u \in Users : Told(vault, Exempt, u) => Told(vault', Exempt', u)
  /\ \A u \in Users : vault'[u] = Token => u \in Exempt'

LEMMA OneVaultStays ==
  ASSUME TypeOK, PhoneInv, NEW u \in Users, NEW p, vault' = [vault EXCEPT ![u] = p],
         Exempt \subseteq Exempt', p \in Phones \cup {vault[u]} \/ u \in Exempt',
         BuilderAssumption
  PROVE  Stays
<1>1. vault'[u] = p /\ \A w \in Users : w # u => vault'[w] = vault[w]
  BY DEF TypeOK
<1>2. Token \notin Phones
  BY DEF BuilderAssumption
<1>3. ASSUME NEW w \in Users, Told(vault, Exempt, w) PROVE Told(vault', Exempt', w)
  BY <1>1, <1>3 DEF Told
<1>4. ASSUME NEW w \in Users, vault'[w] = Token PROVE w \in Exempt'
  <2>1. vault[w] = Token => w \in Exempt
    BY DEF PhoneInv
  <2> QED
    BY <1>1, <1>2, <1>4, <2>1
<1> QED
  BY <1>3, <1>4 DEF Stays

LEMMA SameVaultStays ==
  ASSUME PhoneInv, UNCHANGED <<vault, cleared, spoiled>>
  PROVE  Stays
BY DEF Stays, PhoneInv, Told, Exempt

(* What stays true of the vault carries over to sessions, requests, rows. *)
LEMMA KnowsStays ==
  ASSUME Stays, NEW s, s.user \in Users \cup {None}, Knows(vault, Exempt, s)
  PROVE  Knows(vault', Exempt', s)
BY DEF Stays, Knows

LEMMA RequestStays ==
  ASSUME TypeOK, PhoneInv, Stays, NEW t \in Tabs, task[t].pc # "idle"
  PROVE  Knows(vault', Exempt', task[t].session) /\ Written(vault', Exempt', task[t])
<1>1. task[t].session.user \in Users \cup {None}
  BY DEF TypeOK, Session
<1>2. Knows(vault, Exempt, task[t].session) /\ Written(vault, Exempt, task[t])
  BY DEF PhoneInv
<1>3. Knows(vault', Exempt', task[t].session)
  BY <1>1, <1>2, KnowsStays
<1>4. Written(vault', Exempt', task[t])
  BY <1>1, <1>2 DEF Written, Stays
<1> QED
  BY <1>3, <1>4

LEMMA RowStays ==
  ASSUME TypeOK, PhoneInv, Stays, NEW r \in DOMAIN rows, Relies(rows[r])
  PROVE  Told(vault', Exempt', rows[r].owner)
<1>1. rows[r] \in Row
  BY DEF TypeOK
<1>2. rows[r].owner \in Users
  BY <1>1 DEF Row, Relies
<1> QED
  BY <1>2 DEF PhoneInv, Stays

LEMMA PhoneKept ==
  ASSUME TypeOK, PhoneInv, Stays, Knows(vault', Exempt', session'),
         \A t \in Tabs : task'[t].pc # "idle" =>
           \/ task[t].pc # "idle" /\ task'[t] = task[t]
           \/ Knows(vault', Exempt', task'[t].session) /\ Written(vault', Exempt', task'[t]),
         \A r \in DOMAIN rows' :
           \/ r \in DOMAIN rows /\ rows'[r] = rows[r]
           \/ Relies(rows'[r]) => Told(vault', Exempt', rows'[r].owner)
  PROVE  PhoneInv'
<1>1. \A t \in Tabs : task'[t].pc # "idle" => /\ Knows(vault', Exempt', task'[t].session)
                                              /\ Written(vault', Exempt', task'[t])
  BY RequestStays
<1>2. \A r \in DOMAIN rows' : Relies(rows'[r]) => Told(vault', Exempt', rows'[r].owner)
  BY RowStays
<1>3. \A u \in Users : vault'[u] = Token => u \in Exempt'
  BY DEF Stays
<1> QED
  BY <1>1, <1>2, <1>3 DEF PhoneInv

(* Pages, attempts and typing have no part in it. *)
LEMMA PhoneRest ==
  ASSUME TypeOK, PhoneInv, UNCHANGED <<vault, cleared, spoiled, task, rows>>,
         Knows(vault, Exempt, session')
  PROVE  PhoneInv'
<1>1. Stays /\ Knows(vault', Exempt', session')
  BY SameVaultStays DEF Exempt
<1> QED
  BY <1>1, PhoneKept

LEMMA PhoneStart ==
  ASSUME TypeOK, PhoneInv, NEW t \in Tabs, StartPreview(t) \/ StartSave(t)
  PROVE  PhoneInv'
<1>1. PICK kind \in {"preview", "save"} : Request(t, kind)
  BY DEF StartPreview, StartSave
<1>2. /\ task' = [task EXCEPT ![t] = [pc |-> kind, form |-> page[t], session |-> session,
                                     editing |-> attempts[session.builder].editing]]
      /\ UNCHANGED <<session, vault, rows, cleared, spoiled>>
  BY <1>1 DEF Request, StartPreview, StartSave
<1>3. Stays /\ Knows(vault', Exempt', session)
  BY <1>2, SameVaultStays DEF PhoneInv, Exempt
<1>4. /\ \A u \in Tabs : u # t => task'[u] = task[u]
      /\ task'[t].pc # "row" /\ task'[t].session = session
  BY <1>2 DEF TypeOK
<1>5. Knows(vault', Exempt', task'[t].session) /\ Written(vault', Exempt', task'[t])
  BY <1>3, <1>4 DEF Written
<1> QED
  BY <1>2, <1>3, <1>4, <1>5, PhoneKept

(* The form of a save: what the vault lacks is filled in before the row is *)
(* written, and whoever loses a number is exempt from then on.             *)
LEMMA PhoneForm ==
  ASSUME BuilderAssumption, TypeOK, PhoneInv, NEW t \in Tabs, NEW other \in BOOLEAN,
         SaveForm(t, other)
  PROVE  PhoneInv'
<1> DEFINE s == task[t].session
           phone == task[t].form.phone
           copy == IF Backfill(s, phone) THEN phone ELSE s.pii
           fills == s.user # None /\ s.pii # Locked /\ (Backfill(s, phone) \/ other)
<1>1. /\ task[t].pc = "save" /\ UNCHANGED <<session, rows, cleared>>
      /\ task' = [task EXCEPT ![t].pc = "row", ![t].editing = attempts'[s.builder].editing]
      /\ fills => /\ vault' = [vault EXCEPT ![s.user] = copy]
                  /\ spoiled' = IF copy \in Phones \cup {vault[s.user]} THEN spoiled
                                ELSE spoiled \cup {s.user}
      /\ ~fills => UNCHANGED <<vault, spoiled>>
  BY DEF SaveForm
<1>2. /\ task'[t].pc = "row" /\ task'[t].session = s /\ task'[t].form = task[t].form
      /\ \A u \in Tabs : u # t => task'[u] = task[u]
  BY <1>1 DEF TypeOK
<1>3. s.user \in Users \cup {None} /\ phone \in Texts
  BY <1>1 DEF TypeOK, Session, Form
<1>4. Knows(vault, Exempt, s) /\ Knows(vault, Exempt, session)
  BY <1>1 DEF PhoneInv
<1> HIDE DEF fills
<1>5. Stays
  <2>1. CASE fills
    <3>1. s.user \in Users
      BY <1>3, <2>1 DEF fills
    <3>2. Exempt \subseteq Exempt' /\ (copy \in Phones \cup {vault[s.user]} \/ s.user \in Exempt')
      BY <1>1, <2>1 DEF Exempt
    <3> HIDE DEF copy, s
    <3> QED
      BY <1>1, <2>1, <3>1, <3>2, OneVaultStays
  <2>2. CASE ~fills
    BY <1>1, <2>2, SameVaultStays
  <2> QED
    BY <2>1, <2>2
<1>6. s.user # None /\ phone # None => Told(vault', Exempt', s.user)
  <2> SUFFICES ASSUME s.user # None, phone # None PROVE Told(vault', Exempt', s.user)
    OBVIOUS
  <2>1. CASE s.pii = None
    <3>1. Backfill(s, phone) /\ s.pii # Locked
      BY <1>4, <2>1 DEF Backfill, Knows
    <3>2. fills /\ copy = phone
      BY <3>1 DEF fills
    <3>3. vault'[s.user] = phone
      BY <1>1, <1>3, <3>2 DEF TypeOK
    <3>4. CASE phone \in Phones
      BY <3>3, <3>4 DEF Told
    <3>5. CASE phone = Token
      <4>1. s.user \in Exempt'
        BY <1>3, <3>3, <3>5, <1>5 DEF Stays
      <4> QED
        BY <4>1 DEF Told
    <3> QED
      BY <1>3, <3>4, <3>5 DEF Texts
  <2>2. CASE s.pii # None
    <3>1. Told(vault, Exempt, s.user)
      BY <1>4, <2>2 DEF Knows
    <3> QED
      BY <1>3, <1>5, <3>1 DEF Stays
  <2> QED
    BY <2>1, <2>2
<1>7. Knows(vault', Exempt', s) /\ Knows(vault', Exempt', session)
  <2>1. session.user \in Users \cup {None}
    BY DEF TypeOK, Session
  <2> QED
    BY <1>3, <1>4, <1>5, <2>1, KnowsStays
<1>8. Written(vault', Exempt', task'[t])
  BY <1>2, <1>6 DEF Written
<1> QED
  BY <1>1, <1>2, <1>5, <1>7, <1>8, PhoneKept

LEMMA PhoneRow ==
  ASSUME BuilderAssumption, TypeOK, PhoneInv, NEW t \in Tabs, SaveRow(t)
  PROVE  PhoneInv'
<1> DEFINE c == Parsed(task[t].form)
           r == task[t].editing
           user == task[t].session.user
<1>1. /\ task[t].pc = "row" /\ task' = [task EXCEPT ![t] = Idle]
      /\ UNCHANGED <<session, vault, cleared, spoiled>>
  BY DEF SaveRow
<1>2. \A u \in Tabs : task'[u].pc # "idle" => task[u].pc # "idle" /\ task'[u] = task[u]
  BY <1>1 DEF TypeOK, Idle
<1>3. Stays /\ Knows(vault', Exempt', session') /\ vault' = vault /\ Exempt' = Exempt
  BY <1>1, SameVaultStays DEF PhoneInv, Exempt
<1>4. user # None /\ task[t].form.phone # None => Told(vault, Exempt, user)
  BY <1>1 DEF PhoneInv, Written
<1>5. task[t].form \in Form /\ user \in Users \cup {None}
  BY <1>1 DEF TypeOK, Session
<1>6. c \in Contents /\ c.phone = task[t].form.phone
  BY <1>5, StoredTyped DEF Parsed
<1>7. Redacted(c).phone = Token => c.phone # None
  BY <1>6 DEF Redacted, Contents, BuilderAssumption
<1>8. /\ Inserted(c, user).by = user /\ Inserted(c, user).cv = Redacted(c)
      /\ \A row \in Row : Updated(row, c, user).by = user /\ Updated(row, c, user).cv = Redacted(c)
  BY DEF Inserted, Updated, Row
<1>9. \/ /\ r \in DOMAIN rows /\ rows[r] \in Row /\ DOMAIN rows' = DOMAIN rows
         /\ rows'[r] = Updated(rows[r], c, user)
         /\ \A i \in DOMAIN rows : i # r => rows'[i] = rows[i]
      \/ /\ Len(rows') = Len(rows) + 1 /\ rows'[Len(rows) + 1] = Inserted(c, user)
         /\ rows' \in Seq(Row)
         /\ \A i \in DOMAIN rows : rows'[i] = rows[i]
  BY SaveRowEffect
<1> HIDE DEF c, r, user
<1>10. \A i \in DOMAIN rows' :
         \/ i \in DOMAIN rows /\ rows'[i] = rows[i]
         \/ rows'[i].by = user /\ rows'[i].cv = Redacted(c)
  <2>1. rows \in Seq(Row) /\ Len(rows) \in Nat
    BY DEF TypeOK
  <2> QED
    BY <1>8, <1>9, <2>1
<1>11. \A i \in DOMAIN rows' :
         \/ i \in DOMAIN rows /\ rows'[i] = rows[i]
         \/ Relies(rows'[i]) => Told(vault', Exempt', rows'[i].owner)
  BY <1>3, <1>4, <1>6, <1>7, <1>10 DEF Relies
<1> QED
  BY <1>2, <1>3, <1>11, PhoneKept

LEMMA PhoneElsewhere ==
  ASSUME BuilderAssumption, TypeOK, PhoneInv,
         \/ Generate \/ LogOut \/ Expire \/ \E u \in Users : LogIn(u)
         \/ \E p \in Phones \cup {None} : EditProfile(p)
  PROVE  PhoneInv'
<1>1. session \in Session /\ vault \in [Users -> Texts] /\ Knows(vault, Exempt, session)
  BY DEF TypeOK, PhoneInv
<1>2. CASE LogOut \/ Expire
  <2>1. UNCHANGED <<vault, cleared, spoiled, task, rows>> /\ session'.user = None
    BY <1>1, <1>2 DEF LogOut, Expire, Session
  <2> QED
    BY <2>1, PhoneRest DEF Knows
<1>3. ASSUME NEW u \in Users, LogIn(u) PROVE PhoneInv'
  <2>1. /\ UNCHANGED <<vault, cleared, spoiled, task, rows>>
        /\ session'.user = u /\ session'.pii = vault[u]
    BY <1>1, <1>3 DEF LogIn, Session
  <2>2. vault[u] \in Texts /\ Locked \notin Texts /\ (vault[u] = Token => u \in Exempt)
    BY <1>1 DEF BuilderAssumption, PhoneInv
  <2>3. vault[u] # None => Told(vault, Exempt, u)
    BY <2>2 DEF Texts, Told
  <2>4. Knows(vault, Exempt, session')
    BY <2>1, <2>2, <2>3 DEF Knows
  <2> QED
    BY <2>1, <2>4, PhoneRest
<1>4. CASE Generate
  <2> DEFINE new == [cv |-> [roles |-> Tailored,
                             phone |-> IF session.pii \in {None, Locked} THEN None ELSE Token],
                     owner |-> session.user, by |-> session.user, voice |-> TRUE]
  <2>1. rows' = Append(rows, new) /\ UNCHANGED <<session, vault, cleared, spoiled, task>>
    BY <1>4 DEF Generate
  <2>2. Relies(new) => Told(vault, Exempt, new.owner)
    BY <1>1 DEF BuilderAssumption, Relies, Knows
  <2> HIDE DEF new
  <2>3. rows \in Seq(Row)
    BY DEF TypeOK
  <2>4. \A r \in DOMAIN rows' : rows'[r] = new \/ (r \in DOMAIN rows /\ rows'[r] = rows[r])
    BY <2>1, <2>3
  <2>5. Stays /\ Exempt' = Exempt
    BY <2>1, SameVaultStays DEF Exempt
  <2>6. \A r \in DOMAIN rows' :
          \/ r \in DOMAIN rows /\ rows'[r] = rows[r]
          \/ Relies(rows'[r]) => Told(vault', Exempt', rows'[r].owner)
    BY <2>1, <2>2, <2>4, <2>5
  <2>7. Knows(vault', Exempt', session')
    BY <1>1, <2>1, <2>5
  <2> QED
    BY <2>1, <2>5, <2>6, <2>7, PhoneKept
<1>5. ASSUME NEW p \in Phones \cup {None}, EditProfile(p) PROVE PhoneInv'
  <2> DEFINE u == session.user
  <2>1. /\ vault' = [vault EXCEPT ![u] = p] /\ u \in Users
        /\ session' \in {session, [session EXCEPT !.pii = p]}
        /\ cleared' = (IF p = None THEN cleared \cup {u} ELSE cleared)
        /\ UNCHANGED <<task, rows, spoiled>>
    BY <1>1, <1>5 DEF EditProfile, Session
  <2>2. Exempt \subseteq Exempt' /\ (p = None => u \in Exempt')
    BY <2>1 DEF Exempt
  <2> HIDE DEF u
  <2>3. Stays
    BY <2>1, <2>2, OneVaultStays
  <2>4. Told(vault', Exempt', u)
    <3>1. vault'[u] = p
      BY <1>1, <2>1
    <3> QED
      BY <2>2, <3>1 DEF Told
  <2>5. Knows(vault', Exempt', session')
    <3>1. Locked \notin Texts /\ p \in Texts
      BY DEF BuilderAssumption, Texts
    <3>2. session'.user = u /\ session'.pii \in {session.pii, p}
      BY <1>1, <2>1 DEF Session, u
    <3>3. session.pii # Locked
      BY <1>1, <2>1 DEF Knows, u, BuilderAssumption
    <3> QED
      BY <2>4, <3>1, <3>2, <3>3 DEF Knows
  <2> QED
    BY <2>1, <2>3, <2>5, PhoneKept, Zenon
<1> QED
  BY <1>2, <1>3, <1>4, <1>5

LEMMA PhoneStep ==
  ASSUME BuilderAssumption, TypeOK, PhoneInv, [Next]_vars
  PROVE  PhoneInv'
<1>1. ASSUME NEW t \in Tabs, OpenNew(t) \/ \E r \in DOMAIN rows : OpenEdit(t, r)
      PROVE  PhoneInv'
  <2>1. UNCHANGED <<vault, cleared, spoiled, task, rows>>
    BY <1>1 DEF OpenNew, OpenEdit, Visit
  <2>2. session'.user = session.user /\ session'.pii = session.pii
    BY <1>1 DEF OpenNew, OpenEdit, TypeOK, Session
  <2>3. Knows(vault, Exempt, session')
    BY <2>2 DEF PhoneInv, Knows
  <2> QED
    BY <2>1, <2>3, PhoneRest
<1>2. ASSUME NEW t \in Tabs,
             \/ \E role \in Roles : AddRole(t, role)
             \/ \E i \in DOMAIN page[t].slots : RemoveRole(t, i)
             \/ \E p \in Phones \cup {None} : SetPhone(t, p)
      PROVE  PhoneInv'
  <2>1. Edit(t)
    BY <1>2, EditsEffect
  <2>2. UNCHANGED <<vault, cleared, spoiled, task, rows, session>>
    BY <2>1 DEF Edit
  <2> QED
    BY <2>2, PhoneRest DEF PhoneInv
<1>3. ASSUME NEW t \in Tabs, Preview(t) PROVE PhoneInv'
  <2>1. task' = [task EXCEPT ![t] = Idle] /\ UNCHANGED <<session, vault, rows, cleared, spoiled>>
    BY <1>3 DEF Preview
  <2>2. \A u \in Tabs : task'[u].pc # "idle" => task[u].pc # "idle" /\ task'[u] = task[u]
    BY <2>1 DEF TypeOK, Idle
  <2>3. Stays /\ Knows(vault', Exempt', session')
    BY <2>1, SameVaultStays DEF PhoneInv, Exempt
  <2> QED
    BY <2>1, <2>2, <2>3, PhoneKept
<1>4. CASE UNCHANGED vars
  BY <1>4, PhoneRest DEF vars, PhoneInv
<1> QED
  BY <1>1, <1>2, <1>3, <1>4, PhoneStart, PhoneForm, PhoneRow, PhoneElsewhere DEF Next

(* A phone number that a user's save turned into a token is not lost: for  *)
(* any number of tabs, accounts and overlapping saves, profile edits and   *)
(* log-ins, the vault has a number for it until the user empties it there, *)
(* or a save writes the token or an old copy without a number over it      *)
(* (builder_save, compute_pii_backfill, update_cv, save_cv).               *)
THEOREM TokensAlwaysResolve == Spec => []TokensResolve
<1>1. BuilderAssumption /\ Init => PhoneInv
  <2> SUFFICES ASSUME BuilderAssumption, Init PROVE PhoneInv
    OBVIOUS
  <2>1. \A u \in Users : vault[u] # Token
    BY DEF Init, BuilderAssumption
  <2> QED
    BY <2>1 DEF Init, Idle, PhoneInv, Knows
<1>2. BuilderAssumption /\ PhoneInv => TokensResolve
  BY DEF PhoneInv, Told, TokensResolve, Relies, Exempt, BuilderAssumption
<1> QED
  BY <1>1, <1>2, BuilderAssumption, PhoneStep, TypeCorrect, PTL DEF Spec
-----------------------------------------------------------------------------
(***************************************************************************)
(* The CV a save updates                                                   *)
(***************************************************************************)
(* An attempt edits the CV it was opened for or none, and so do requests   *)
(* that hold it; that CV belongs to the account that opened it.            *)
Opens(a) ==
  /\ attempts[a].editing \in {0, attempts[a].of}
  /\ attempts[a].of # 0 => /\ attempts[a].of \in DOMAIN rows
                           /\ attempts[a].opener \in {None, rows[attempts[a].of].owner}
Edits(t) ==
  task[t].pc # "idle" => task[t].editing \in {0, attempts[task[t].session.builder].of}
OpenedFor ==
  /\ \A a \in DOMAIN attempts : Opens(a)
  /\ \A t \in Tabs : Edits(t)

(* What a step leaves alone for good: what an attempt was opened for, by   *)
(* whom, and whose a row is.                                               *)
Fixed ==
  /\ DOMAIN attempts \subseteq DOMAIN attempts' /\ DOMAIN rows \subseteq DOMAIN rows'
  /\ \A a \in DOMAIN attempts : /\ attempts'[a].of = attempts[a].of
                                /\ attempts'[a].opener = attempts[a].opener
  /\ \A r \in DOMAIN rows : rows'[r].owner = rows[r].owner

(* The attempts a step makes, and what it writes to the others: it forgets *)
(* their CV, keeps it, or takes that of a request; a new request takes the *)
(* attempt's.                                                              *)
Busy(tasks, u, a) == tasks[u].pc \in {"preview", "save"} /\ tasks[u].session.builder = a
Continues(a) ==
  /\ \/ attempts'[a].editing \in {0, attempts[a].editing}
     \/ \E u \in Tabs : Busy(task, u, a) /\ attempts'[a].editing = task[u].editing
  /\ \A u \in Tabs : Busy(task', u, a) =>
       \/ Busy(task, u, a) /\ task'[u].editing = task[u].editing
       \/ task'[u].editing = attempts'[a].editing
Begins == \A a \in DOMAIN attempts' \ DOMAIN attempts : Opens(a)'

(* An attempt is clean when neither it nor a request that will write to it *)
(* names a CV.                                                             *)
Clean(atts, tasks, a) ==
  atts[a].editing = 0 /\ \A u \in Tabs : Busy(tasks, u, a) => tasks[u].editing = 0

LEMMA StaysClean ==
  ASSUME NEW a, Clean(attempts, task, a), Continues(a)
  PROVE  Clean(attempts', task', a)
BY DEF Clean, Continues

(* The form of a page, or of a request that its attempt is still to hear   *)
(* of: it shows the CV its attempt was opened for, and if it shows none    *)
(* and crossed no request, its attempt is clean.                           *)
Shows(atts, form) == form.attempt # 0 /\ form.cv # 0 => atts[form.attempt].of = form.cv
Fits(atts, tasks, form) ==
  form.attempt # 0 /\ form.cv = 0 /\ ~form.crossed => Clean(atts, tasks, form.attempt)
Settles(k) ==
  k.pc = "row" /\ k.form.attempt = k.session.builder /\ k.form.cv = 0 /\ ~k.form.crossed
    => k.editing = 0
FormsFit ==
  /\ \A t \in Tabs : Shows(attempts, page[t]) /\ Fits(attempts, task, page[t])
  /\ \A t \in Tabs : task[t].pc # "idle" =>
       /\ task[t].form.attempt <= Len(attempts)
       /\ Shows(attempts, task[t].form)
       /\ task[t].pc # "row" => Fits(attempts, task, task[t].form)
       /\ Settles(task[t])

-----------------------------------------------------------------------------
(* What each step makes of the attempts. *)
AttemptsStep == Fixed /\ Begins /\ \A a \in DOMAIN attempts : Continues(a)

LEMMA SameAttempts ==
  ASSUME TypeOK, UNCHANGED <<attempts, task>>, DOMAIN rows \subseteq DOMAIN rows',
         \A r \in DOMAIN rows : rows'[r].owner = rows[r].owner
  PROVE  AttemptsStep
BY DEF AttemptsStep, Fixed, Begins, Continues, Busy

LEMMA NewAttempt ==
  ASSUME TypeOK, NEW new, attempts' = Append(attempts, new), UNCHANGED <<rows, task>>,
         new.editing \in {0, new.of},
         new.of # 0 => new.of \in DOMAIN rows /\ new.opener \in {None, rows[new.of].owner}
  PROVE  AttemptsStep
<1>1. /\ attempts \in Seq(Attempt) /\ Len(attempts) \in Nat
      /\ DOMAIN attempts' = DOMAIN attempts \cup {Len(attempts) + 1}
      /\ attempts'[Len(attempts) + 1] = new
      /\ \A a \in DOMAIN attempts : attempts'[a] = attempts[a]
  BY DEF TypeOK
<1>2. Fixed
  BY <1>1 DEF Fixed
<1>3. Begins
  BY <1>1 DEF Begins, Opens
<1>4. \A a \in DOMAIN attempts : Continues(a)
  BY <1>1 DEF Continues, Busy
<1> QED
  BY <1>2, <1>3, <1>4 DEF AttemptsStep

LEMMA OpenNewAttempts ==
  ASSUME TypeOK, NEW t \in Tabs, OpenNew(t)
  PROVE  AttemptsStep
<1>1. UNCHANGED <<rows, task>> /\ attempts \in Seq(Attempt)
  BY DEF OpenNew, Visit, TypeOK
<1>2. CASE session.builder = 0
  <2>1. attempts' = Append(attempts, Fresh(StarterData))
    BY <1>2 DEF OpenNew
  <2>2. Fresh(StarterData).of = 0 /\ Fresh(StarterData).editing = 0
    BY DEF Fresh
  <2> QED
    BY <1>1, <2>1, <2>2, NewAttempt
<1>3. CASE session.builder # 0
  <2> DEFINE b == session.builder
  <2>1. b \in DOMAIN attempts /\ attempts' = [attempts EXCEPT ![b].editing = 0]
    BY <1>1, <1>3 DEF OpenNew, TypeOK, Session
  <2>2. /\ DOMAIN attempts' = DOMAIN attempts
        /\ \A a \in DOMAIN attempts : a # b => attempts'[a] = attempts[a]
        /\ attempts'[b] = [attempts[b] EXCEPT !.editing = 0]
    BY <1>1, <2>1
  <2>3. attempts[b] \in Attempt
    BY <1>1, <2>1
  <2>4. attempts'[b].editing = 0 /\ attempts'[b].of = attempts[b].of
        /\ attempts'[b].opener = attempts[b].opener
    BY <2>2, <2>3 DEF Attempt
  <2> HIDE DEF b
  <2>5. Fixed /\ Begins
    BY <1>1, <2>2, <2>4 DEF Fixed, Begins
  <2>6. \A a \in DOMAIN attempts : Continues(a)
    BY <1>1, <2>2, <2>4 DEF Continues, Busy
  <2> QED
    BY <2>5, <2>6 DEF AttemptsStep
<1> QED
  BY <1>2, <1>3

LEMMA OpenEditAttempts ==
  ASSUME TypeOK, NEW t \in Tabs, NEW r \in DOMAIN rows, OpenEdit(t, r)
  PROVE  AttemptsStep
<1> DEFINE new == [data |-> Opened(r), editing |-> r, of |-> r, opener |-> session.user]
<1>1. /\ UNCHANGED <<rows, task>> /\ attempts' = Append(attempts, new)
      /\ session.user \in {None, rows[r].owner}
  BY DEF OpenEdit, Visit
<1>2. new.editing = r /\ new.of = r /\ new.opener = session.user
  OBVIOUS
<1> HIDE DEF new
<1> QED
  BY <1>1, <1>2, NewAttempt

LEMMA StartAttempts ==
  ASSUME TypeOK, NEW t \in Tabs, StartPreview(t) \/ StartSave(t)
  PROVE  AttemptsStep
<1>1. \E kind \in {"preview", "save"} : Request(t, kind)
  BY DEF StartPreview, StartSave
<1>2. UNCHANGED <<attempts, session, rows>>
  BY <1>1 DEF StartPreview, StartSave, Request
<1>3. /\ \A u \in Tabs : u # t => task'[u] = task[u]
      /\ task'[t].session = session /\ task'[t].editing = attempts[session.builder].editing
  BY <1>1 DEF Request, TypeOK
<1>4. \A a \in DOMAIN attempts : Continues(a)
  BY <1>2, <1>3 DEF Continues, Busy
<1> QED
  BY <1>2, <1>4 DEF AttemptsStep, Fixed, Begins

LEMMA FormAttempts ==
  ASSUME BuilderAssumption, TypeOK, NEW t \in Tabs,
         Preview(t) \/ \E other \in BOOLEAN : SaveForm(t, other)
  PROVE  AttemptsStep
<1> DEFINE b == task[t].session.builder
<1>1. Busy(task, t, b) /\ task[t].pc # "idle" /\ WriteBack(t) /\ rows' = rows
  BY DEF Preview, SaveForm, Busy
<1>2. /\ DOMAIN attempts' = DOMAIN attempts
      /\ attempts'[b].editing = IF task[t].editing # 0 THEN task[t].editing ELSE attempts[b].editing
      /\ attempts'[b].of = attempts[b].of /\ attempts'[b].opener = attempts[b].opener
      /\ \A a \in DOMAIN attempts : a # b => attempts'[a] = attempts[a]
  BY <1>1, WriteBackEffect
<1>3. /\ \A u \in Tabs : u # t => task'[u] = task[u]
      /\ task'[t].pc \in {"idle", "row"}
  BY DEF Preview, SaveForm, TypeOK, Idle
<1> HIDE DEF b
<1>4. \A a \in DOMAIN attempts : Continues(a)
  BY <1>1, <1>2, <1>3 DEF Continues, Busy
<1>5. Fixed /\ Begins
  BY <1>1, <1>2 DEF Fixed, Begins
<1> QED
  BY <1>4, <1>5 DEF AttemptsStep

LEMMA RowAttempts ==
  ASSUME BuilderAssumption, TypeOK, NEW t \in Tabs, SaveRow(t)
  PROVE  AttemptsStep
<1>1. /\ \A u \in Tabs : u # t => task'[u] = task[u]
      /\ task'[t].pc = "idle" /\ attempts' = attempts
  BY DEF SaveRow, TypeOK, Idle
<1>2. DOMAIN rows \subseteq DOMAIN rows' /\ \A r \in DOMAIN rows : rows'[r].owner = rows[r].owner
  <2> DEFINE c == Parsed(task[t].form)
             user == task[t].session.user
  <2>1. \A row \in Row : Updated(row, c, user).owner = row.owner
    BY DEF Updated, Row
  <2>2. \/ /\ task[t].editing \in DOMAIN rows /\ rows[task[t].editing] \in Row
           /\ DOMAIN rows' = DOMAIN rows
           /\ rows'[task[t].editing] = Updated(rows[task[t].editing], c, user)
           /\ \A i \in DOMAIN rows : i # task[t].editing => rows'[i] = rows[i]
        \/ /\ Len(rows') = Len(rows) + 1 /\ rows' \in Seq(Row)
           /\ \A i \in DOMAIN rows : rows'[i] = rows[i]
    BY SaveRowEffect
  <2>3. rows \in Seq(Row) /\ Len(rows) \in Nat
    BY DEF TypeOK
  <2> HIDE DEF c, user
  <2> QED
    BY <2>1, <2>2, <2>3
<1>3. \A a \in DOMAIN attempts : Continues(a)
  BY <1>1 DEF Continues, Busy
<1> QED
  BY <1>1, <1>2, <1>3 DEF AttemptsStep, Fixed, Begins

LEMMA AttemptsContinue ==
  ASSUME BuilderAssumption, TypeOK, [Next]_vars
  PROVE  AttemptsStep
<1>1. ASSUME NEW t \in Tabs,
             \/ \E role \in Roles : AddRole(t, role)
             \/ \E i \in DOMAIN page[t].slots : RemoveRole(t, i)
             \/ \E p \in Phones \cup {None} : SetPhone(t, p)
      PROVE  AttemptsStep
  <2>1. UNCHANGED <<attempts, task, rows>>
    BY <1>1 DEF AddRole, RemoveRole, SetPhone, Edit
  <2> QED
    BY <2>1, SameAttempts
<1>2. ASSUME \/ LogOut \/ Expire \/ \E u \in Users : LogIn(u)
             \/ \E p \in Phones \cup {None} : EditProfile(p)
             \/ UNCHANGED vars
      PROVE  AttemptsStep
  <2>1. UNCHANGED <<attempts, task, rows>>
    BY <1>2 DEF LogIn, LogOut, Expire, EditProfile, vars
  <2> QED
    BY <2>1, SameAttempts
<1>3. CASE Generate
  <2>1. UNCHANGED <<attempts, task>> /\ rows \in Seq(Row) /\ \E new : rows' = Append(rows, new)
    BY <1>3 DEF Generate, TypeOK
  <2>2. DOMAIN rows \subseteq DOMAIN rows' /\ \A r \in DOMAIN rows : rows'[r] = rows[r]
    BY <2>1
  <2> QED
    BY <2>1, <2>2, SameAttempts
<1> QED
  BY <1>1, <1>2, <1>3, OpenNewAttempts, OpenEditAttempts, StartAttempts, FormAttempts,
     RowAttempts DEF Next

-----------------------------------------------------------------------------
(* Attempts and requests keep to the CV the attempt was opened for. *)
LEMMA OpenedForStep ==
  ASSUME BuilderAssumption, TypeOK, OpenedFor, [Next]_vars
  PROVE  OpenedFor'
<1>1. Fixed /\ Begins /\ \A a \in DOMAIN attempts : Continues(a)
  BY AttemptsContinue DEF AttemptsStep
<1>2. ASSUME NEW a \in DOMAIN attempts PROVE Opens(a)'
  <2>1. Opens(a)
    BY DEF OpenedFor
  <2>2. attempts'[a].editing \in {0, attempts[a].of}
    <3>1. CASE attempts'[a].editing \in {0, attempts[a].editing}
      BY <2>1, <3>1 DEF Opens
    <3>2. ASSUME NEW u \in Tabs, Busy(task, u, a), attempts'[a].editing = task[u].editing
          PROVE  attempts'[a].editing \in {0, attempts[a].of}
      BY <3>2 DEF OpenedFor, Edits, Busy
    <3> QED
      BY <1>1, <3>1, <3>2 DEF Continues
  <2> QED
    BY <1>1, <2>1, <2>2 DEF Fixed, Opens
<1>3. \A a \in DOMAIN attempts' : Opens(a)'
  BY <1>1, <1>2 DEF Begins
<1>4. ASSUME NEW t \in Tabs, task'[t].pc # "idle"
      PROVE  task'[t].editing \in {0, attempts'[task'[t].session.builder].of}
  <2>1. ASSUME task[t].pc # "idle", task'[t].session = task[t].session,
               task'[t].editing = task[t].editing
        PROVE  task'[t].editing \in {0, attempts'[task'[t].session.builder].of}
    <3>1. task[t].session.builder \in DOMAIN attempts
      BY <2>1 DEF TypeOK
    <3> QED
      BY <1>1, <2>1, <3>1 DEF OpenedFor, Edits, Fixed
  <2>2. ASSUME task'[t].editing = attempts'[task'[t].session.builder].editing,
               task'[t].session.builder \in DOMAIN attempts'
        PROVE  task'[t].editing \in {0, attempts'[task'[t].session.builder].of}
    BY <1>3, <2>2 DEF Opens
  <2>3. ASSUME task' = task PROVE task'[t].editing \in {0, attempts'[task'[t].session.builder].of}
    BY <1>4, <2>1, <2>3
  <2>4. ASSUME NEW u \in Tabs, StartPreview(u) \/ StartSave(u)
        PROVE  task'[t].editing \in {0, attempts'[task'[t].session.builder].of}
    <3>1. /\ \E kind \in {"preview", "save"} : Request(u, kind)
          /\ UNCHANGED <<attempts, session>> /\ session.builder # 0
      BY <2>4 DEF StartPreview, StartSave
    <3>2. /\ \A v \in Tabs : v # u => task'[v] = task[v]
          /\ task'[u].session = session /\ task'[u].editing = attempts[session.builder].editing
      BY <3>1 DEF Request, TypeOK
    <3>3. session.builder \in DOMAIN attempts'
      BY <3>1 DEF TypeOK, Session
    <3> QED
      BY <1>4, <2>1, <2>2, <3>1, <3>2, <3>3
  <2>5. ASSUME NEW u \in Tabs, Preview(u) \/ SaveRow(u)
        PROVE  task'[t].editing \in {0, attempts'[task'[t].session.builder].of}
    <3>1. task'[u].pc = "idle" /\ \A v \in Tabs : v # u => task'[v] = task[v]
      BY <2>5 DEF Preview, SaveRow, TypeOK, Idle
    <3> QED
      BY <1>4, <2>1, <3>1
  <2>6. ASSUME NEW u \in Tabs, NEW other \in BOOLEAN, SaveForm(u, other)
        PROVE  task'[t].editing \in {0, attempts'[task'[t].session.builder].of}
    <3>1. /\ task[u].pc = "save"
          /\ \A v \in Tabs : v # u => task'[v] = task[v]
          /\ task'[u].session = task[u].session
          /\ task'[u].editing = attempts'[task[u].session.builder].editing
      BY <2>6 DEF SaveForm, TypeOK
    <3>2. task[u].session.builder \in DOMAIN attempts'
      BY <1>1, <3>1 DEF TypeOK, Fixed
    <3> QED
      BY <1>4, <2>1, <2>2, <3>1, <3>2
  <2>7. ASSUME NEW u \in Tabs,
               \/ OpenNew(u) \/ \E r \in DOMAIN rows : OpenEdit(u, r)
               \/ \E role \in Roles : AddRole(u, role)
               \/ \E i \in DOMAIN page[u].slots : RemoveRole(u, i)
               \/ \E p \in Phones \cup {None} : SetPhone(u, p)
        PROVE  task' = task
    BY <2>7 DEF OpenNew, OpenEdit, Visit, AddRole, RemoveRole, SetPhone, Edit
  <2>8. ASSUME \/ Generate \/ LogOut \/ Expire \/ \E u \in Users : LogIn(u)
               \/ \E p \in Phones \cup {None} : EditProfile(p)
               \/ UNCHANGED vars
        PROVE  task' = task
    BY <2>8 DEF Generate, LogIn, LogOut, Expire, EditProfile, vars
  <2> QED
    BY <2>3, <2>4, <2>5, <2>6, <2>7, <2>8 DEF Next
<1> QED
  BY <1>3, <1>4 DEF OpenedFor, Edits

-----------------------------------------------------------------------------
(* Pages and requests fit their attempts. *)
LEMMA FormStays ==
  ASSUME TypeOK, AttemptsStep, NEW f, f.attempt \in 0 .. Len(attempts)
  PROVE  /\ Shows(attempts, f) => Shows(attempts', f)
         /\ Fits(attempts, task, f) => Fits(attempts', task', f)
<1>1. f.attempt # 0 => f.attempt \in DOMAIN attempts
  BY DEF TypeOK
<1>2. Shows(attempts, f) => Shows(attempts', f)
  BY <1>1 DEF Shows, AttemptsStep, Fixed
<1>3. Fits(attempts, task, f) => Fits(attempts', task', f)
  BY <1>1, StaysClean DEF Fits, AttemptsStep
<1> QED
  BY <1>2, <1>3

LEMMA PageStays ==
  ASSUME TypeOK, AttemptsStep, FormsFit, NEW t \in Tabs, NEW f,
         f.cv = page[t].cv, f.attempt = page[t].attempt, f.crossed = page[t].crossed
  PROVE  Shows(attempts', f) /\ Fits(attempts', task', f)
<1>1. page[t].attempt \in 0 .. Len(attempts)
  BY DEF TypeOK, Form
<1>2. Shows(attempts, f) /\ Fits(attempts, task, f)
  BY DEF FormsFit, Shows, Fits
<1> QED
  BY <1>1, <1>2, FormStays

(* A page that opens fits. *)
LEMMA OpenFits ==
  ASSUME BuilderAssumption, TypeOK, FormsFit, NEW t \in Tabs,
         OpenNew(t) \/ \E r \in DOMAIN rows : OpenEdit(t, r)
  PROVE  \A u \in Tabs : Shows(attempts', page'[u]) /\ Fits(attempts', task', page'[u])
<1>1. AttemptsStep
  BY OpenNewAttempts, OpenEditAttempts
<1>2. /\ attempts \in Seq(Attempt) /\ Len(attempts) \in Nat /\ session \in Session
      /\ session.builder \in Nat /\ session.builder <= Len(attempts)
      /\ task' = task
  <2>1. task' = task
    BY DEF OpenNew, OpenEdit, Visit
  <2>2. session \in Session /\ MaxAttempts \in Nat
    BY DEF TypeOK, BuilderAssumption
  <2>3. session.builder \in Nat
    BY <2>2 DEF Session
  <2> QED
    BY <2>1, <2>2, <2>3 DEF TypeOK
<1>3. ASSUME NEW cv, NEW a, NEW c, Show(t, cv, a, c)
      PROVE  /\ page'[t].cv = cv /\ page'[t].attempt = a
             /\ page'[t].crossed <=> \E u \in Tabs : Carries(u, a)
             /\ \A u \in Tabs : u # t => page'[u] = page[u]
  BY <1>3 DEF Show, TypeOK
<1>4. ASSUME OpenNew(t)
      PROVE  /\ Shows(attempts', page'[t]) /\ Fits(attempts', task', page'[t])
             /\ \A u \in Tabs : u # t => page'[u] = page[u]
  <2> DEFINE a == IF session.builder # 0 THEN session.builder ELSE Len(attempts) + 1
             data == IF session.builder # 0 THEN attempts[a].data ELSE StarterData
  <2>1. /\ \E c : Show(t, 0, a, c)
        /\ attempts' = IF session.builder # 0 THEN [attempts EXCEPT ![a].editing = 0]
                       ELSE Append(attempts, Fresh(data))
    BY <1>4 DEF OpenNew
  <2>2. attempts'[a].editing = 0
    <3>1. CASE session.builder # 0
      <4>1. a \in DOMAIN attempts /\ attempts[a] \in Attempt
        BY <1>2, <3>1
      <4> QED
        BY <1>2, <2>1, <3>1, <4>1 DEF Attempt
    <3>2. CASE session.builder = 0
      BY <1>2, <2>1, <3>2 DEF Fresh
    <3> QED
      BY <3>1, <3>2
  <2> HIDE DEF a, data
  <2>3. /\ page'[t].cv = 0 /\ page'[t].attempt = a
        /\ page'[t].crossed <=> \E u \in Tabs : Carries(u, a)
        /\ \A u \in Tabs : u # t => page'[u] = page[u]
    BY <1>3, <2>1
  <2>4. ~page'[t].crossed => Clean(attempts', task', a)
    BY <1>2, <2>2, <2>3 DEF Clean, Carries, Busy
  <2> QED
    BY <2>3, <2>4 DEF Shows, Fits
<1>5. ASSUME NEW r \in DOMAIN rows, OpenEdit(t, r)
      PROVE  /\ Shows(attempts', page'[t]) /\ Fits(attempts', task', page'[t])
             /\ \A u \in Tabs : u # t => page'[u] = page[u]
  <2> DEFINE new == [data |-> Opened(r), editing |-> r, of |-> r, opener |-> session.user]
  <2>1. Show(t, r, Len(attempts) + 1, Opened(r)) /\ attempts' = Append(attempts, new)
    BY <1>5 DEF OpenEdit
  <2>2. new.of = r /\ r # 0
    BY DEF TypeOK
  <2> HIDE DEF new
  <2>3. attempts'[Len(attempts) + 1].of = r
    BY <1>2, <2>1, <2>2
  <2>4. /\ page'[t].cv = r /\ page'[t].attempt = Len(attempts) + 1
        /\ \A u \in Tabs : u # t => page'[u] = page[u]
    BY <1>3, <2>1
  <2> QED
    BY <2>2, <2>3, <2>4 DEF Shows, Fits
<1>6. \A u \in Tabs : page'[u] = page[u] => Shows(attempts', page'[u]) /\ Fits(attempts', task', page'[u])
  BY <1>1, PageStays
<1> QED
  BY <1>4, <1>5, <1>6

LEMMA PagesStep ==
  ASSUME BuilderAssumption, TypeOK, FormsFit, [Next]_vars
  PROVE  \A u \in Tabs : Shows(attempts', page'[u]) /\ Fits(attempts', task', page'[u])
<1>1. AttemptsStep
  BY AttemptsContinue
<1>2. page' = page => \A u \in Tabs : Shows(attempts', page'[u]) /\ Fits(attempts', task', page'[u])
  BY <1>1, PageStays
<1>3. ASSUME NEW t \in Tabs,
             \/ \E role \in Roles : AddRole(t, role)
             \/ \E i \in DOMAIN page[t].slots : RemoveRole(t, i)
             \/ \E p \in Phones \cup {None} : SetPhone(t, p)
      PROVE  \A u \in Tabs : Shows(attempts', page'[u]) /\ Fits(attempts', task', page'[u])
  <2>1. PICK f \in Form : /\ f.cv = page[t].cv /\ f.attempt = page[t].attempt
                          /\ f.crossed = page[t].crossed
                          /\ Edit(t) /\ page' = [page EXCEPT ![t] = f]
    BY <1>3, EditsEffect
  <2>2. \A u \in Tabs : /\ page'[u].cv = page[u].cv /\ page'[u].attempt = page[u].attempt
                        /\ page'[u].crossed = page[u].crossed
    BY <2>1 DEF TypeOK
  <2> QED
    BY <1>1, <2>2, PageStays
<1>4. ASSUME NEW t \in Tabs, \/ StartPreview(t) \/ StartSave(t) \/ Preview(t) \/ SaveRow(t)
                             \/ \E other \in BOOLEAN : SaveForm(t, other)
      PROVE  page' = page
  BY <1>4 DEF StartPreview, StartSave, Request, Preview, SaveForm, SaveRow
<1>5. ASSUME \/ Generate \/ LogOut \/ Expire \/ \E u \in Users : LogIn(u)
             \/ \E p \in Phones \cup {None} : EditProfile(p)
             \/ UNCHANGED vars
      PROVE  page' = page
  BY <1>5 DEF Generate, LogIn, LogOut, Expire, EditProfile, vars
<1> QED
  BY <1>2, <1>3, <1>4, <1>5, OpenFits DEF Next

TaskFits(k) ==
  k.pc # "idle" =>
    /\ k.form.attempt <= Len(attempts')
    /\ Shows(attempts', k.form)
    /\ k.pc # "row" => Fits(attempts', task', k.form)
    /\ Settles(k)

LEMMA LongerAttempts ==
  ASSUME TypeOK, TypeOK', AttemptsStep
  PROVE  Len(attempts) <= Len(attempts')
<1>1. /\ Len(attempts) \in Nat /\ DOMAIN attempts = 1 .. Len(attempts)
      /\ Len(attempts') \in Nat /\ DOMAIN attempts' = 1 .. Len(attempts')
  BY DEF TypeOK
<1>2. DOMAIN attempts \subseteq DOMAIN attempts'
  BY DEF AttemptsStep, Fixed
<1> QED
  BY <1>1, <1>2

LEMMA SameTaskFits ==
  ASSUME TypeOK, TypeOK', AttemptsStep, FormsFit, NEW t \in Tabs
  PROVE  TaskFits(task[t])
<1> SUFFICES ASSUME task[t].pc # "idle" PROVE TaskFits(task[t])
  BY DEF TaskFits
<1>1. /\ task[t].form.attempt <= Len(attempts)
      /\ Shows(attempts, task[t].form) /\ Settles(task[t])
      /\ task[t].pc # "row" => Fits(attempts, task, task[t].form)
  BY DEF FormsFit
<1>2. task[t].form.attempt \in Nat /\ Len(attempts) \in Nat /\ Len(attempts') \in Nat
  BY DEF TypeOK, Form
<1>3. task[t].form.attempt \in 0 .. Len(attempts) /\ task[t].form.attempt <= Len(attempts')
  BY <1>1, <1>2, LongerAttempts
<1> QED
  BY <1>1, <1>3, FormStays DEF TaskFits

(* A request that starts has the form of its page. *)
LEMMA StartTaskFits ==
  ASSUME TypeOK, TypeOK', FormsFit, NEW t \in Tabs, StartPreview(t) \/ StartSave(t)
  PROVE  TaskFits(task'[t])
<1>1. \E kind \in {"preview", "save"} : Request(t, kind)
  BY DEF StartPreview, StartSave
<1>2. task'[t].form = page[t] /\ task'[t].pc \in {"preview", "save"} /\ attempts' = attempts
  BY <1>1 DEF Request, TypeOK, StartPreview, StartSave
<1>3. Shows(attempts', page[t]) /\ Fits(attempts', task', page[t])
  BY StartAttempts, PageStays
<1>4. page[t].attempt <= Len(attempts')
  BY <1>2 DEF TypeOK
<1> QED
  BY <1>2, <1>3, <1>4 DEF TaskFits, Settles

(* After the form has arrived, a save edits what its attempt does. *)
LEMMA FormTaskFits ==
  ASSUME BuilderAssumption, TypeOK, TypeOK', FormsFit, NEW t \in Tabs, NEW other \in BOOLEAN,
         SaveForm(t, other)
  PROVE  TaskFits(task'[t])
<1> DEFINE b == task[t].session.builder
           f == task[t].form
<1>1. /\ task[t].pc = "save" /\ task'[t].pc = "row"
      /\ task'[t].form = f /\ task'[t].session = task[t].session
      /\ task'[t].editing = attempts'[b].editing
  BY DEF SaveForm, TypeOK
<1>2. AttemptsStep
  BY FormAttempts
<1>3. TaskFits(task[t])
  BY <1>2, SameTaskFits
<1>4. f.attempt <= Len(attempts') /\ Shows(attempts', f) /\ Fits(attempts', task', f)
  BY <1>1, <1>3 DEF TaskFits
<1>5. b # 0
  BY <1>1 DEF TypeOK
<1> HIDE DEF b, f
<1>6. f.attempt = b /\ f.cv = 0 /\ ~f.crossed => attempts'[b].editing = 0
  BY <1>4, <1>5 DEF Fits, Clean
<1>7. Settles(task'[t])
  BY <1>1, <1>6 DEF Settles, b
<1> QED
  BY <1>1, <1>4, <1>7 DEF TaskFits

LEMMA TasksStep ==
  ASSUME BuilderAssumption, TypeOK, TypeOK', FormsFit, [Next]_vars, NEW u \in Tabs
  PROVE  TaskFits(task'[u])
<1>1. AttemptsStep
  BY AttemptsContinue
<1>2. task'[u] = task[u] => TaskFits(task'[u])
  BY <1>1, SameTaskFits
<1>3. ASSUME NEW t \in Tabs, StartPreview(t) \/ StartSave(t)
      PROVE  TaskFits(task'[u])
  <2>1. u # t => task'[u] = task[u]
    BY <1>3 DEF StartPreview, StartSave, Request, TypeOK
  <2> QED
    BY <1>2, <1>3, <2>1, StartTaskFits
<1>4. ASSUME NEW t \in Tabs, Preview(t) \/ SaveRow(t)
      PROVE  TaskFits(task'[u])
  <2>1. task'[t].pc = "idle" /\ (u # t => task'[u] = task[u])
    BY <1>4 DEF Preview, SaveRow, TypeOK, Idle
  <2> QED
    BY <1>2, <2>1 DEF TaskFits
<1>5. ASSUME NEW t \in Tabs, NEW other \in BOOLEAN, SaveForm(t, other)
      PROVE  TaskFits(task'[u])
  <2>1. u # t => task'[u] = task[u]
    BY <1>5 DEF SaveForm, TypeOK
  <2> QED
    BY <1>2, <1>5, <2>1, FormTaskFits
<1>6. ASSUME NEW t \in Tabs,
             \/ OpenNew(t) \/ \E r \in DOMAIN rows : OpenEdit(t, r)
             \/ \E role \in Roles : AddRole(t, role)
             \/ \E i \in DOMAIN page[t].slots : RemoveRole(t, i)
             \/ \E p \in Phones \cup {None} : SetPhone(t, p)
      PROVE  task' = task
  BY <1>6 DEF OpenNew, OpenEdit, Visit, AddRole, RemoveRole, SetPhone, Edit
<1>7. ASSUME \/ Generate \/ LogOut \/ Expire \/ \E v \in Users : LogIn(v)
             \/ \E p \in Phones \cup {None} : EditProfile(p)
             \/ UNCHANGED vars
      PROVE  task' = task
  BY <1>7 DEF Generate, LogIn, LogOut, Expire, EditProfile, vars
<1> QED
  BY <1>2, <1>3, <1>4, <1>5, <1>6, <1>7 DEF Next

LEMMA FormsFitStep ==
  ASSUME BuilderAssumption, TypeOK, TypeOK', FormsFit, [Next]_vars
  PROVE  FormsFit'
BY PagesStep, TasksStep DEF FormsFit, TaskFits

-----------------------------------------------------------------------------
(* Only SaveRow changes a row, and what it changes is settled by then. *)
OverwritesNothing ==
  \A r \in DOMAIN rows :
    rows'[r] # rows[r] =>
      \E t \in Tabs :
        /\ task[t].pc = "row" /\ task'[t].pc = "idle"
        /\ LET b == task[t].session.builder
               form == task[t].form
           IN /\ attempts[b].of = r
              /\ attempts[b].opener \in {None, rows[r].owner}
              /\ form.cv = r \/ form.attempt # b \/ form.crossed

LEMMA SaveRowOverwrites ==
  ASSUME BuilderAssumption, TypeOK, OpenedFor, FormsFit, NEW t \in Tabs, SaveRow(t)
  PROVE  OverwritesNothing
<1> DEFINE b == task[t].session.builder
           form == task[t].form
           e == task[t].editing
<1> SUFFICES ASSUME NEW r \in DOMAIN rows, rows'[r] # rows[r]
             PROVE  /\ attempts[b].of = r
                    /\ attempts[b].opener \in {None, rows[r].owner}
                    /\ form.cv = r \/ form.attempt # b \/ form.crossed
                    /\ task'[t].pc = "idle" /\ task[t].pc = "row"
  BY Zenon DEF OverwritesNothing
<1>1. task[t].pc = "row" /\ task'[t].pc = "idle"
  BY DEF SaveRow, TypeOK, Idle
<1>2. e = r /\ r # 0
  <2>1. r # 0
    BY DEF TypeOK
  <2> QED
    BY <2>1, SaveRowEffect
<1>3. b \in DOMAIN attempts
  BY <1>1 DEF TypeOK
<1>4. Opens(b) /\ e \in {0, attempts[b].of}
  BY <1>1, <1>3 DEF OpenedFor, Edits
<1>5. attempts[b].of = r /\ attempts[b].opener \in {None, rows[r].owner}
  BY <1>2, <1>4 DEF Opens
<1>6. Shows(attempts, form) /\ Settles(task[t])
  BY <1>1 DEF FormsFit
<1>7. form.attempt = b /\ ~form.crossed => form.cv = r
  <2>1. ASSUME form.attempt = b, ~form.crossed PROVE form.cv # 0
    BY <1>1, <1>2, <1>6, <2>1 DEF Settles
  <2>2. b # 0
    BY <1>3 DEF TypeOK
  <2> HIDE DEF b, form
  <2> QED
    BY <1>5, <1>6, <2>1, <2>2 DEF Shows
<1> QED
  BY <1>1, <1>5, <1>7

LEMMA OverwriteStep ==
  ASSUME BuilderAssumption, TypeOK, OpenedFor, FormsFit, [Next]_vars
  PROVE  OverwritesNothing
<1>1. ASSUME NEW t \in Tabs,
             \/ OpenNew(t) \/ \E r \in DOMAIN rows : OpenEdit(t, r)
             \/ \E role \in Roles : AddRole(t, role)
             \/ \E i \in DOMAIN page[t].slots : RemoveRole(t, i)
             \/ \E p \in Phones \cup {None} : SetPhone(t, p)
             \/ StartPreview(t) \/ StartSave(t) \/ Preview(t)
             \/ \E other \in BOOLEAN : SaveForm(t, other)
      PROVE  rows' = rows
  BY <1>1 DEF OpenNew, OpenEdit, Visit, AddRole, RemoveRole, SetPhone, Edit,
              StartPreview, StartSave, Request, Preview, SaveForm
<1>2. ASSUME \/ LogOut \/ Expire \/ \E u \in Users : LogIn(u)
             \/ \E p \in Phones \cup {None} : EditProfile(p)
             \/ UNCHANGED vars
      PROVE  rows' = rows
  BY <1>2 DEF LogIn, LogOut, Expire, EditProfile, vars
<1>3. CASE Generate
  <2>1. rows \in Seq(Row) /\ \E new : rows' = Append(rows, new)
    BY <1>3 DEF Generate, TypeOK
  <2>2. \A r \in DOMAIN rows : rows'[r] = rows[r]
    BY <2>1
  <2> QED
    BY <2>2 DEF OverwritesNothing
<1>4. rows' = rows => OverwritesNothing
  BY DEF OverwritesNothing
<1> QED
  BY <1>1, <1>2, <1>3, <1>4, SaveRowOverwrites DEF Next

LEMMA NothingOpenAtFirst ==
  ASSUME Init
  PROVE  OpenedFor /\ FormsFit
BY DEF Init, OpenedFor, Opens, Edits, FormsFit, Shows, Fits, Settles, Idle, NoPage

(* Every save leaves alone the CVs that its attempt was not opened for:    *)
(* which row builder_save updates is read from the session's attempt, and  *)
(* no sequence of pages, previews, saves, log-ins and log-outs makes that  *)
(* attempt name a CV that another account's page, or none, has opened.     *)
THEOREM NoOtherCvIsOverwritten == Spec => NothingIsOverwritten
<1>1. Init => OpenedFor /\ FormsFit
  BY NothingOpenAtFirst
<1>2. TypeOK /\ TypeOK' /\ OpenedFor /\ FormsFit /\ [Next]_vars => OpenedFor' /\ FormsFit'
  BY BuilderAssumption, OpenedForStep, FormsFitStep
<1>3. TypeOK /\ OpenedFor /\ FormsFit /\ [Next]_vars => OverwritesNothing
  BY BuilderAssumption, OverwriteStep
<1>4. OverwritesNothing => [\A r \in DOMAIN rows :
       rows'[r] # rows[r] =>
         \E t \in Tabs :
           /\ task[t].pc = "row" /\ task'[t].pc = "idle"
           /\ LET b == task[t].session.builder
                  form == task[t].form
              IN /\ attempts[b].of = r
                 /\ attempts[b].opener \in {None, rows[r].owner}
                 /\ form.cv = r \/ form.attempt # b \/ form.crossed]_vars
  BY DEF OverwritesNothing
<1> QED
  BY <1>1, <1>2, <1>3, <1>4, TypeCorrect, PTL DEF Spec, NothingIsOverwritten
=============================================================================
