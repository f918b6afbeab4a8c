------------------------- MODULE AttemptStoreProofs -------------------------
(***************************************************************************)
(* Proofs about AttemptStore.  As long as nobody was disturbed, at most    *)
(* one worker is at work, and what it is about to write is one change of   *)
(* what is stored; so the store keeps its promise, a file that cannot be   *)
(* read is being written, and what is recorded is on disk.                 *)
(***************************************************************************)
EXTENDS AttemptStore, TLAPS

Value == IF file = Torn THEN prior ELSE file
BaseOf(v) == IF v = Absent THEN Empty ELSE v
Made(v, next) == next \in Changed(v) \/ (v = Absent /\ next = Fresh)
Kept(docs, k) == docs[k] # None => disk[Name(k, docs[k])] = docs[k]

(* A worker in the middle of an upload knows what it uploads. *)
Working == {t \in Tasks : t.pc \in {"bytes", "stored", "listed"} => t.key \in Keys /\ t.doc \in Docs}
TypeInv == TypeOK /\ task \in [Workers -> Working]

(* A worker at work that nobody disturbed. *)
Orderly(w) ==
  LET t == task[w]
  IN /\ t.pc # "idle" => t.linked
     /\ t.pc \in {"bytes", "stored", "listed"} =>
          /\ file # Torn
          /\ \A k \in Keys \ {t.key} : Kept(BaseOf(Value).docs, k)
     /\ t.pc = "bytes" => disk[Name(t.key, t.doc)] = Torn
     /\ t.pc \in {"stored", "listed"} => disk[Name(t.key, t.doc)] = t.doc
     /\ t.pc = "listed" => t.next.docs = [BaseOf(Value).docs EXCEPT ![t.key] = t.doc]
     /\ t.pc \in {"loaded", "truncated"} =>
          Made(Value, t.next) /\ \A k \in Keys : Kept(t.next.docs, k)
     /\ t.pc = "loaded" =>
          file # Torn /\ (t.doc = None => \A k \in Keys : Kept(BaseOf(Value).docs, k))
     /\ t.pc = "truncated" => file = Torn

Alone == \A v, w \in Workers : task[v].pc # "idle" /\ task[w].pc # "idle" => v = w
Rest == (\A w \in Workers : task[w].pc = "idle") =>
          file # Torn /\ \A k \in Keys : Kept(BaseOf(Value).docs, k)

IInv ==
  /\ TypeInv
  /\ ~disturbed => Alone /\ Rest /\ \A w \in Workers : Orderly(w)

(***************************************************************************)
(* Contents and their changes                                              *)
(***************************************************************************)
LEMMA ContentTypes ==
  /\ Empty \in Contents /\ Fresh \in Contents /\ Idle \in Working
  /\ Absent \notin Contents /\ Torn \notin Contents
  /\ \A k \in Keys, d \in Docs : Name(k, d) \in Names
<1>1. Empty \in Contents
  BY DEF Empty, Contents
<1>2. Fresh \in Contents
  BY StoreAssumption DEF Fresh, Empty, Contents
<1> QED
  BY <1>1, <1>2, StoreAssumption DEF Idle, Working, Tasks, Name, Names, Exts

LEMMA BaseTypes ==
  ASSUME NEW v \in Contents \cup {Absent}
  PROVE  BaseOf(v) \in Contents
BY ContentTypes DEF BaseOf

LEMMA Changing ==
  ASSUME NEW v \in Contents \cup {Absent}
  PROVE  /\ \A f \in Fields, x \in Values : [BaseOf(v) EXCEPT !.fields[f] = x] \in Changed(v)
         /\ \A f \in Fields, x \in Values : [BaseOf(v) EXCEPT !.fields[f] = x] \in Contents
         /\ \A k \in Keys, d \in Docs : [BaseOf(v) EXCEPT !.docs[k] = d] \in Changed(v)
         /\ \A k \in Keys, d \in Docs : [BaseOf(v) EXCEPT !.docs[k] = d] \in Contents
<1> DEFINE b == BaseOf(v)
<1>1. b \in Contents
  BY BaseTypes
<1>2. Changed(v) = {[b EXCEPT !.fields[f] = x] : f \in Fields, x \in Values}
                     \cup {[b EXCEPT !.docs[k] = d] : k \in Keys, d \in Docs}
  BY DEF Changed, BaseOf
<1> HIDE DEF b
<1>3. \A f \in Fields, x \in Values : [b EXCEPT !.fields[f] = x] \in Contents
  BY <1>1 DEF Contents
<1>4. \A k \in Keys, d \in Docs : [b EXCEPT !.docs[k] = d] \in Contents
  BY <1>1 DEF Contents
<1> QED
  BY <1>2, <1>3, <1>4 DEF b

LEMMA ValueTypes ==
  ASSUME TypeOK
  PROVE  /\ Value \in Contents \cup {Absent}
         /\ file # Torn => Value = file /\ Base = BaseOf(Value)
BY ContentTypes DEF TypeOK, Value, Base, Get, BaseOf

(* One worker goes on to x, and it is the only one at work. *)
LEMMA OneWorker ==
  ASSUME TypeInv, NEW w \in Workers, NEW x, task' = [task EXCEPT ![w] = x],
         \A v \in Workers \ {w} : task[v].pc = "idle"
  PROVE  /\ task'[w] = x
         /\ Alone' /\ \A v \in Workers \ {w} : Orderly(v)'
<1>1. task'[w] = x /\ \A v \in Workers \ {w} : task'[v] = task[v]
  BY DEF TypeInv
<1>2. Alone'
  BY <1>1 DEF Alone
<1>3. \A v \in Workers \ {w} : Orderly(v)'
  BY <1>1 DEF Orderly
<1> QED
  BY <1>1, <1>2, <1>3

(***************************************************************************)
(* Types                                                                   *)
(***************************************************************************)
LEMMA TaskTypes ==
  ASSUME TypeInv, NEW w \in Workers, NEW x \in Working, task' = [task EXCEPT ![w] = x]
  PROVE  task' \in [Workers -> Working] /\ task' \in [Workers -> Tasks]
<1>1. task' \in [Workers -> Working]
  BY DEF TypeInv
<1> QED
  BY <1>1 DEF Working

LEMMA TypeBegin ==
  ASSUME TypeInv, NEW w \in Workers,
         \/ Create(w)
         \/ \E f \in Fields, v \in Values : Update(w, f, v)
         \/ \E k \in Keys, d \in Docs : Upload(w, k, d)
  PROVE  TypeInv'
<1>1. ASSUME Begin(w) PROVE /\ calls' \in 0 .. MaxCalls /\ disturbed' \in BOOLEAN
                            /\ prior' = prior /\ crashes' = crashes
  BY <1>1, StoreAssumption DEF Begin, TypeInv, TypeOK
<1>2. CASE Create(w)
  <2>1. [Idle EXCEPT !.pc = "loaded", !.next = Fresh] \in Working
    BY ContentTypes DEF Working, Tasks
  <2>2. /\ Begin(w) /\ task' = [task EXCEPT ![w] = [Idle EXCEPT !.pc = "loaded", !.next = Fresh]]
        /\ UNCHANGED <<file, disk, aged>>
    BY <1>2 DEF Create
  <2>3. task' \in [Workers -> Working] /\ task' \in [Workers -> Tasks]
    BY <2>1, <2>2, TaskTypes
  <2> QED
    BY <1>1, <2>2, <2>3 DEF TypeInv, TypeOK
<1>3. ASSUME NEW f \in Fields, NEW v \in Values, Update(w, f, v) PROVE TypeInv'
  <2> DEFINE next == [Base EXCEPT !.fields[f] = v]
  <2>1. next \in Contents
    <3>1. Base \in Contents
      BY ContentTypes DEF Base, Get, TypeInv, TypeOK
    <3> QED
      BY <3>1 DEF Contents
  <2>2. /\ Begin(w) /\ task' = [task EXCEPT ![w] = [Idle EXCEPT !.pc = "loaded", !.next = next]]
        /\ UNCHANGED <<file, disk, aged>>
    BY <1>3 DEF Update
  <2> HIDE DEF next
  <2>3. [Idle EXCEPT !.pc = "loaded", !.next = next] \in Working
    BY <2>1, ContentTypes DEF Working, Tasks
  <2>4. task' \in [Workers -> Working] /\ task' \in [Workers -> Tasks]
    BY <2>2, <2>3, TaskTypes
  <2> QED
    BY <1>1, <2>2, <2>4 DEF TypeInv, TypeOK
<1>4. ASSUME NEW k \in Keys, NEW d \in Docs, Upload(w, k, d) PROVE TypeInv'
  <2>1. [Idle EXCEPT !.pc = "bytes", !.key = k, !.doc = d] \in Working
    BY ContentTypes DEF Working, Tasks
  <2>2. /\ Begin(w) /\ file' = file
        /\ task' = [task EXCEPT ![w] = [Idle EXCEPT !.pc = "bytes", !.key = k, !.doc = d]]
        /\ disk' = [disk EXCEPT ![Name(k, d)] = Torn]
        /\ aged' = (aged /\ \E n \in Names : disk[n] # Absent)
    BY <1>4 DEF Upload
  <2>3. disk' \in [Names -> Docs \cup {Absent, Torn}] /\ aged' \in BOOLEAN
    BY <2>2 DEF TypeInv, TypeOK
  <2>4. task' \in [Workers -> Working] /\ task' \in [Workers -> Tasks]
    BY <2>1, <2>2, TaskTypes
  <2> QED
    BY <1>1, <2>2, <2>3, <2>4 DEF TypeInv, TypeOK
<1> QED
  BY <1>2, <1>3, <1>4

LEMMA TypeWork ==
  ASSUME TypeInv, NEW w \in Workers, Step(w) \/ Crash(w)
  PROVE  TypeInv'
<1>1. task[w] \in Working /\ task[w] \in Tasks /\ Base \in Contents
  BY ContentTypes DEF TypeInv, TypeOK, Base, Get
<1>2. CASE StoreBytes(w)
  <2> DEFINE n == Name(task[w].key, task[w].doc)
             x == [task[w] EXCEPT !.pc = "stored"]
  <2>1. task[w].doc \in Docs /\ task[w].key \in Keys
    BY <1>1, <1>2 DEF StoreBytes, Working
  <2>2. \/ disk' = disk
        \/ \E c \in {task[w].doc, Torn} : disk' = [disk EXCEPT ![n] = c]
    BY <1>2 DEF StoreBytes
  <2>3. disk' \in [Names -> Docs \cup {Absent, Torn}]
    <3> HIDE DEF n
    <3> QED
      BY <2>1, <2>2 DEF TypeInv, TypeOK
  <2>4. x \in Working
    BY <1>1, <2>1 DEF Working, Tasks
  <2>5. task' = [task EXCEPT ![w] = x] /\ UNCHANGED <<file, prior, aged, disturbed, calls, crashes>>
    BY <1>2 DEF StoreBytes
  <2> HIDE DEF x
  <2>6. task' \in [Workers -> Working] /\ task' \in [Workers -> Tasks]
    BY <2>4, <2>5, TaskTypes
  <2> QED
    BY <2>3, <2>5, <2>6 DEF TypeInv, TypeOK
<1>3. CASE ListDocuments(w) \/ RecordDocuments(w)
  <2> DEFINE listed == [Empty EXCEPT !.docs = [Base.docs EXCEPT ![task[w].key] = task[w].doc]]
             loaded == [Base EXCEPT !.docs = task[w].next.docs]
  <2>1. task[w].doc \in Docs /\ task[w].key \in Keys
    BY <1>1, <1>3 DEF ListDocuments, RecordDocuments, Working
  <2>2. listed \in Contents /\ loaded \in Contents
    BY <1>1, <2>1, ContentTypes DEF Contents, Tasks
  <2>3. PICK pc \in {"listed", "loaded"}, next \in {listed, loaded} :
          task' = [task EXCEPT ![w] = [task[w] EXCEPT !.pc = pc, !.next = next]]
    <3> HIDE DEF listed, loaded
    <3>1. CASE ListDocuments(w)
      <4>1. task' = [task EXCEPT ![w] = [task[w] EXCEPT !.pc = "listed", !.next = listed]]
        BY <3>1 DEF ListDocuments, TypeInv, listed
      <4> QED
        BY <4>1
    <3>2. CASE RecordDocuments(w)
      <4>1. task' = [task EXCEPT ![w] = [task[w] EXCEPT !.pc = "loaded", !.next = loaded]]
        BY <3>2 DEF RecordDocuments, TypeInv, loaded
      <4> QED
        BY <4>1
    <3> QED
      BY <1>3, <3>1, <3>2
  <2> HIDE DEF listed, loaded
  <2>4. [task[w] EXCEPT !.pc = pc, !.next = next] \in Working
    BY <1>1, <2>1, <2>2 DEF Working, Tasks
  <2>5. task' \in [Workers -> Working] /\ task' \in [Workers -> Tasks]
    BY <2>3, <2>4, TaskTypes
  <2>6. UNCHANGED <<file, disk, prior, aged, disturbed, calls, crashes>>
    BY <1>3 DEF ListDocuments, RecordDocuments
  <2> QED
    BY <2>5, <2>6 DEF TypeInv, TypeOK
<1>4. CASE Open(w)
  <2>1. [task[w] EXCEPT !.pc = "truncated", !.linked = TRUE] \in Working
    BY <1>1 DEF Working, Tasks
  <2>2. task' = [task EXCEPT ![w] = [task[w] EXCEPT !.pc = "truncated", !.linked = TRUE]]
    BY <1>4 DEF Open, TypeInv
  <2>3. task' \in [Workers -> Working] /\ task' \in [Workers -> Tasks]
    BY <2>1, <2>2, TaskTypes
  <2> QED
    BY <1>4, <2>3 DEF Open, TypeInv, TypeOK
<1>5. CASE Write(w)
  <2>1. task' \in [Workers -> Working] /\ task' \in [Workers -> Tasks]
    BY <1>5, ContentTypes, TaskTypes DEF Write
  <2>2. file' \in {file, task[w].next, Torn}
    BY <1>5 DEF Write
  <2> QED
    BY <1>1, <1>5, <2>1, <2>2 DEF Write, TypeInv, TypeOK, Tasks
<1>6. CASE Crash(w)
  <2>1. task' \in [Workers -> Working] /\ task' \in [Workers -> Tasks]
    BY <1>6, ContentTypes, TaskTypes DEF Crash
  <2>2. crashes' \in 0 .. MaxCrashes
    BY <1>6, StoreAssumption DEF Crash, TypeInv, TypeOK
  <2> QED
    BY <1>6, <2>1, <2>2 DEF Crash, TypeInv, TypeOK
<1> QED
  BY <1>2, <1>3, <1>4, <1>5, <1>6 DEF Step

LEMMA TypeStep == TypeInv /\ [Next]_vars => TypeInv'
<1> SUFFICES ASSUME TypeInv, [Next]_vars PROVE TypeInv'
  OBVIOUS
<1>1. CASE Age \/ UNCHANGED vars
  BY <1>1 DEF Age, vars, TypeInv, TypeOK
<1>2. CASE Cleanup
  <2>1. \A w \in Workers : [task[w] EXCEPT !.linked = (task[w].pc = "idle")] \in Working
    BY DEF TypeInv, Working, Tasks
  <2>2. task' \in [Workers -> Working]
    BY <1>2, <2>1 DEF Cleanup
  <2>3. task' \in [Workers -> Tasks]
    BY <2>2 DEF Working
  <2> QED
    BY <1>2, <2>2, <2>3 DEF Cleanup, TypeInv, TypeOK
<1> QED
  BY <1>1, <1>2, TypeBegin, TypeWork DEF Next

(***************************************************************************)
(* The undisturbed store                                                   *)
(***************************************************************************)
Quiet == Alone /\ Rest /\ \A w \in Workers : Orderly(w)

(* Before a call that nobody disturbs everything is at rest. *)
LEMMA Starting ==
  ASSUME IInv, NEW w \in Workers, Begin(w), ~disturbed'
  PROVE  /\ \A v \in Workers : task[v].pc = "idle"
         /\ file # Torn /\ \A k \in Keys : Kept(BaseOf(Value).docs, k)
         /\ Value \in Contents \cup {Absent} /\ Base = BaseOf(Value)
         /\ prior' = prior
<1>1. ~disturbed /\ ~Busy(w) /\ task[w].pc = "idle" /\ prior' = prior
  BY DEF Begin, IInv, TypeInv, TypeOK
<1>2. \A v \in Workers : task[v].pc = "idle"
  BY <1>1 DEF Busy
<1>3. file # Torn /\ \A k \in Keys : Kept(BaseOf(Value).docs, k)
  BY <1>1, <1>2 DEF IInv, Rest
<1> QED
  BY <1>1, <1>2, <1>3, ValueTypes DEF IInv, TypeInv

(* The others are idle while one worker is at work. *)
LEMMA AtWork ==
  ASSUME IInv, ~disturbed, NEW w \in Workers, task[w].pc # "idle"
  PROVE  /\ \A v \in Workers \ {w} : task[v].pc = "idle"
         /\ Orderly(w) /\ task[w] \in Working /\ task[w] \in Tasks
         /\ Value \in Contents \cup {Absent}
         /\ file # Torn => Base = BaseOf(Value)
<1>1. \A v \in Workers \ {w} : task[v].pc = "idle"
  BY DEF IInv, Alone
<1> QED
  BY <1>1, ValueTypes DEF IInv, TypeInv, TypeOK

LEMMA StillAtWork ==
  ASSUME TypeInv, NEW w \in Workers, NEW x, task' = [task EXCEPT ![w] = x], x.pc # "idle",
         \A v \in Workers \ {w} : task[v].pc = "idle", Orderly(w)'
  PROVE  Quiet'
<1>1. task'[w] = x /\ Alone' /\ \A v \in Workers \ {w} : Orderly(v)'
  BY OneWorker
<1>2. Rest'
  BY <1>1 DEF Rest
<1> QED
  BY <1>1, <1>2 DEF Quiet

(* A document's file is not touched by what is done to another key's. *)
LEMMA OtherFile ==
  ASSUME TypeInv, NEW docs \in [Keys -> Docs \cup {None}], NEW k \in Keys, NEW d \in Docs,
         \A n \in Names \ {Name(k, d)} : disk'[n] = disk[n],
         NEW j \in Keys \ {k}, Kept(docs, j)
  PROVE  docs[j] # None => disk'[Name(j, docs[j])] = docs[j]
<1> SUFFICES ASSUME docs[j] # None PROVE disk'[Name(j, docs[j])] = docs[j]
  OBVIOUS
<1>1. docs[j] \in Docs
  OBVIOUS
<1>2. Name(j, docs[j]) \in Names
  BY <1>1, ContentTypes
<1>3. Name(j, docs[j]) # Name(k, d)
  BY DEF Name
<1> QED
  BY <1>2, <1>3 DEF Kept, TypeInv, TypeOK

LEMMA QuietCreate ==
  ASSUME IInv, NEW w \in Workers, Create(w), ~disturbed'
  PROVE  Quiet'
<1> DEFINE x == [Idle EXCEPT !.pc = "loaded", !.next = Fresh]
<1>1. Begin(w) /\ file = Absent /\ task' = [task EXCEPT ![w] = x] /\ file' = file /\ disk' = disk
  BY DEF Create
<1>2. x.pc = "loaded" /\ x.next = Fresh /\ x.doc = None /\ x.linked
  BY DEF Idle
<1> HIDE DEF x
<1>3. /\ \A v \in Workers : task[v].pc = "idle"
      /\ file # Torn /\ (\A k \in Keys : Kept(BaseOf(Value).docs, k)) /\ prior' = prior
  BY <1>1, Starting
<1>4. Value' = Value /\ Value = Absent
  BY <1>1, <1>3 DEF Value
<1>5. task'[w] = x
  BY <1>1 DEF IInv, TypeInv
<1>6. Made(Value, Fresh) /\ \A k \in Keys : Fresh.docs[k] = None
  BY <1>4 DEF Made, Fresh, Empty
<1>7. Orderly(w)'
  BY <1>1, <1>2, <1>3, <1>4, <1>5, <1>6 DEF Orderly, Kept, Made, Changed, BaseOf
<1> QED
  BY <1>1, <1>2, <1>3, <1>7, StillAtWork DEF IInv

LEMMA QuietUpdate ==
  ASSUME IInv, NEW w \in Workers, NEW f \in Fields, NEW v \in Values, Update(w, f, v), ~disturbed'
  PROVE  Quiet'
<1> DEFINE next == [BaseOf(Value) EXCEPT !.fields[f] = v]
           x == [Idle EXCEPT !.pc = "loaded", !.next = next]
<1>1. Begin(w) /\ file' = file /\ disk' = disk
  BY DEF Update
<1>2. /\ \A u \in Workers : task[u].pc = "idle"
      /\ file # Torn /\ (\A k \in Keys : Kept(BaseOf(Value).docs, k)) /\ prior' = prior
      /\ Value \in Contents \cup {Absent} /\ Base = BaseOf(Value)
  BY <1>1, Starting
<1>3. task' = [task EXCEPT ![w] = x]
  BY <1>2 DEF Update
<1>4. Value' = Value
  BY <1>1, <1>2 DEF Value
<1>5. Made(Value, next)
  <2>1. next \in Changed(Value)
    BY <1>2, Changing
  <2> HIDE DEF next
  <2> QED
    BY <2>1 DEF Made
<1>6. next.docs = BaseOf(Value).docs
  BY <1>2, BaseTypes DEF Contents
<1> HIDE DEF next
<1>7. x.pc = "loaded" /\ x.next = next /\ x.doc = None /\ x.linked
  BY DEF Idle
<1> HIDE DEF x
<1>8. task'[w] = x
  BY <1>3 DEF IInv, TypeInv
<1>9. Orderly(w)'
  BY <1>1, <1>2, <1>4, <1>5, <1>6, <1>7, <1>8 DEF Orderly, Kept, Made, Changed, BaseOf
<1> QED
  BY <1>2, <1>3, <1>7, <1>9, StillAtWork DEF IInv

LEMMA QuietUpload ==
  ASSUME IInv, NEW w \in Workers, NEW k \in Keys, NEW d \in Docs, Upload(w, k, d), ~disturbed'
  PROVE  Quiet'
<1> DEFINE x == [Idle EXCEPT !.pc = "bytes", !.key = k, !.doc = d]
<1>1. /\ Begin(w) /\ file' = file /\ task' = [task EXCEPT ![w] = x]
      /\ disk' = [disk EXCEPT ![Name(k, d)] = Torn]
  BY DEF Upload
<1>2. x.pc = "bytes" /\ x.key = k /\ x.doc = d /\ x.linked
  BY DEF Idle
<1> HIDE DEF x
<1>3. /\ \A u \in Workers : task[u].pc = "idle"
      /\ file # Torn /\ (\A j \in Keys : Kept(BaseOf(Value).docs, j)) /\ prior' = prior
      /\ Value \in Contents \cup {Absent}
  BY <1>1, Starting
<1>4. Value' = Value /\ BaseOf(Value)' = BaseOf(Value)
  BY <1>1, <1>3 DEF Value, BaseOf
<1>5. task'[w] = x
  BY <1>1 DEF IInv, TypeInv
<1>6. disk'[Name(k, d)] = Torn
  BY <1>1, ContentTypes DEF IInv, TypeInv, TypeOK
<1>7. ASSUME NEW j \in Keys \ {k} PROVE Kept(BaseOf(Value).docs, j)'
  <2> DEFINE docs == BaseOf(Value).docs
  <2>1. docs \in [Keys -> Docs \cup {None}]
    BY <1>3, BaseTypes DEF Contents
  <2>2. Kept(docs, j) /\ docs' = docs /\ TypeInv
    BY <1>3, <1>4 DEF IInv
  <2> HIDE DEF docs
  <2>3. \A n \in Names \ {Name(k, d)} : disk'[n] = disk[n]
    BY <1>1 DEF IInv, TypeInv, TypeOK
  <2>4. docs[j] # None => disk'[Name(j, docs[j])] = docs[j]
    BY <2>1, <2>2, <2>3, OtherFile
  <2>5. docs'[j] # None => disk'[Name(j, docs'[j])] = docs'[j]
    BY <2>2, <2>4
  <2> QED
    BY <2>5 DEF Kept, docs
<1>8. Orderly(w)'
  BY <1>1, <1>2, <1>3, <1>5, <1>6, <1>7 DEF Orderly
<1> QED
  BY <1>1, <1>2, <1>3, <1>8, StillAtWork DEF IInv


LEMMA QuietStoreBytes ==
  ASSUME IInv, NEW w \in Workers, StoreBytes(w), ~disturbed'
  PROVE  Quiet'
<1> DEFINE t == task[w]
           x == [t EXCEPT !.pc = "stored"]
<1>1. /\ t.pc = "bytes" /\ ~disturbed /\ file' = file /\ prior' = prior
      /\ task' = [task EXCEPT ![w] = x]
  BY DEF StoreBytes, IInv, TypeInv
<1>2. /\ \A v \in Workers \ {w} : task[v].pc = "idle"
      /\ Orderly(w) /\ t \in Working /\ t \in Tasks
      /\ Value \in Contents \cup {Absent}
  BY <1>1, AtWork
<1>3. /\ t.linked /\ file # Torn /\ disk[Name(t.key, t.doc)] = Torn
      /\ \A k \in Keys \ {t.key} : Kept(BaseOf(Value).docs, k)
      /\ t.key \in Keys /\ t.doc \in Docs
  BY <1>1, <1>2 DEF Orderly, Working
<1>4. disk' = [disk EXCEPT ![Name(t.key, t.doc)] = t.doc]
  BY <1>3 DEF StoreBytes
<1>5. x.pc = "stored" /\ x.key = t.key /\ x.doc = t.doc /\ x.linked
  BY <1>2, <1>3 DEF Tasks
<1> HIDE DEF x
<1>6. task'[w] = x
  BY <1>1 DEF IInv, TypeInv
<1>7. disk'[Name(t.key, t.doc)] = t.doc
  BY <1>3, <1>4, ContentTypes DEF IInv, TypeInv, TypeOK
<1>8. Value' = Value /\ BaseOf(Value)' = BaseOf(Value)
  BY <1>1 DEF Value, BaseOf
<1>9. ASSUME NEW j \in Keys \ {t.key} PROVE Kept(BaseOf(Value).docs, j)'
  <2> DEFINE docs == BaseOf(Value).docs
  <2>1. docs \in [Keys -> Docs \cup {None}]
    BY <1>2, BaseTypes DEF Contents
  <2>2. Kept(docs, j) /\ docs' = docs /\ TypeInv
    BY <1>3, <1>8 DEF IInv
  <2> HIDE DEF docs, t
  <2>3. docs[j] # None => disk'[Name(j, docs[j])] = docs[j]
    <3>1. PICK k \in Keys, d \in Docs : k = t.key /\ d = t.doc
      BY <1>3
    <3>2. disk' = [disk EXCEPT ![Name(k, d)] = d] /\ j \in Keys \ {k}
      BY <1>4, <3>1
    <3>3. \A n \in Names \ {Name(k, d)} : disk'[n] = disk[n]
      BY <3>2 DEF IInv, TypeInv, TypeOK
    <3> QED
      BY <2>1, <2>2, <3>2, <3>3, OtherFile
  <2>4. docs'[j] # None => disk'[Name(j, docs'[j])] = docs'[j]
    BY <2>2, <2>3
  <2> QED
    BY <2>4 DEF Kept, docs
<1>10. Orderly(w)'
  <2> HIDE DEF t
  <2> QED
    BY <1>1, <1>3, <1>5, <1>6, <1>7, <1>9 DEF Orderly
<1> QED
  BY <1>1, <1>2, <1>5, <1>10, StillAtWork DEF IInv

LEMMA QuietListDocuments ==
  ASSUME IInv, NEW w \in Workers, ListDocuments(w), ~disturbed'
  PROVE  Quiet'
<1> DEFINE t == task[w]
           docs == [BaseOf(Value).docs EXCEPT ![t.key] = t.doc]
           x == [t EXCEPT !.pc = "listed", !.next = [Empty EXCEPT !.docs = docs]]
<1>1. /\ t.pc = "stored" /\ ~disturbed /\ file' = file /\ prior' = prior /\ disk' = disk
  BY DEF ListDocuments, IInv, TypeInv
<1>2. /\ \A v \in Workers \ {w} : task[v].pc = "idle"
      /\ Orderly(w) /\ t \in Working /\ t \in Tasks
      /\ file # Torn => Base = BaseOf(Value)
  BY <1>1, AtWork
<1>3. /\ t.linked /\ file # Torn /\ disk[Name(t.key, t.doc)] = t.doc
      /\ \A k \in Keys \ {t.key} : Kept(BaseOf(Value).docs, k)
  BY <1>1, <1>2 DEF Orderly
<1>4. task' = [task EXCEPT ![w] = x]
  BY <1>2, <1>3 DEF ListDocuments, IInv, TypeInv
<1>5. Value' = Value /\ BaseOf(Value)' = BaseOf(Value)
  BY <1>1 DEF Value, BaseOf
<1> HIDE DEF docs
<1>6. /\ x.pc = "listed" /\ x.key = t.key /\ x.doc = t.doc /\ x.linked
      /\ x.next.docs = docs
  BY <1>2, <1>3 DEF Tasks, Empty
<1> HIDE DEF x
<1>7. task'[w] = x
  BY <1>4 DEF IInv, TypeInv
<1>8. Orderly(w)'
  <2> HIDE DEF t
  <2> QED
    BY <1>1, <1>3, <1>5, <1>6, <1>7 DEF Orderly, Kept, docs
<1> QED
  BY <1>2, <1>4, <1>6, <1>8, StillAtWork DEF IInv

LEMMA QuietRecordDocuments ==
  ASSUME IInv, NEW w \in Workers, RecordDocuments(w), ~disturbed'
  PROVE  Quiet'
<1> DEFINE t == task[w]
           next == [BaseOf(Value) EXCEPT !.docs = t.next.docs]
           x == [t EXCEPT !.pc = "loaded", !.next = next]
<1>1. /\ t.pc = "listed" /\ ~disturbed /\ file' = file /\ prior' = prior /\ disk' = disk
  BY DEF RecordDocuments, IInv, TypeInv
<1>2. /\ \A v \in Workers \ {w} : task[v].pc = "idle"
      /\ Orderly(w) /\ t \in Working /\ t \in Tasks
      /\ Value \in Contents \cup {Absent}
      /\ file # Torn => Base = BaseOf(Value)
  BY <1>1, AtWork
<1>3. /\ t.linked /\ file # Torn /\ disk[Name(t.key, t.doc)] = t.doc
      /\ \A k \in Keys \ {t.key} : Kept(BaseOf(Value).docs, k)
      /\ t.next.docs = [BaseOf(Value).docs EXCEPT ![t.key] = t.doc]
      /\ t.key \in Keys /\ t.doc \in Docs
  BY <1>1, <1>2 DEF Orderly, Working
<1>4. task' = [task EXCEPT ![w] = x]
  BY <1>2, <1>3 DEF RecordDocuments, IInv, TypeInv
<1>5. Value' = Value
  BY <1>1 DEF Value
<1>6. BaseOf(Value) \in Contents
  BY <1>2, BaseTypes
<1>7. Made(Value, next)
  <2>1. next = [BaseOf(Value) EXCEPT !.docs[t.key] = t.doc]
    BY <1>3
  <2>2. next \in Changed(Value)
    BY <1>2, <1>3, <2>1, Changing
  <2> HIDE DEF next
  <2> QED
    BY <2>2 DEF Made
<1>8. next.docs = t.next.docs
  BY <1>6 DEF Contents
<1>9. \A k \in Keys : Kept(next.docs, k)
  <2> HIDE DEF next
  <2>1. Kept(next.docs, t.key)
    BY <1>3, <1>6, <1>8 DEF Kept, Contents
  <2>2. ASSUME NEW k \in Keys \ {t.key} PROVE Kept(next.docs, k)
    BY <1>3, <1>6, <1>8 DEF Kept, Contents
  <2> QED
    BY <2>1, <2>2
<1> HIDE DEF next
<1>10. x.pc = "loaded" /\ x.doc = t.doc /\ x.linked /\ x.next = next
  BY <1>2, <1>3 DEF Tasks
<1> HIDE DEF x
<1>11. task'[w] = x
  BY <1>4 DEF IInv, TypeInv
<1>12. t.doc # None
  BY <1>3, StoreAssumption
<1>13. Orderly(w)'
  <2> HIDE DEF t
  <2> QED
    BY <1>1, <1>3, <1>5, <1>7, <1>9, <1>10, <1>11, <1>12 DEF Orderly, Kept, Made, Changed
<1> QED
  BY <1>2, <1>4, <1>10, <1>13, StillAtWork DEF IInv

LEMMA QuietOpen ==
  ASSUME IInv, NEW w \in Workers, Open(w), ~disturbed'
  PROVE  Quiet' /\ Value' = Value
<1> DEFINE t == task[w]
           x == [t EXCEPT !.pc = "truncated", !.linked = TRUE]
<1>1. /\ t.pc = "loaded" /\ ~disturbed /\ file' = Torn /\ disk' = disk
      /\ task' = [task EXCEPT ![w] = x]
      /\ prior' = IF file = Torn THEN prior ELSE file
  BY DEF Open, IInv, TypeInv
<1>2. /\ \A v \in Workers \ {w} : task[v].pc = "idle"
      /\ Orderly(w) /\ t \in Tasks
  BY <1>1, AtWork
<1>3. file # Torn /\ Made(Value, t.next) /\ \A k \in Keys : Kept(t.next.docs, k)
  BY <1>1, <1>2 DEF Orderly
<1>4. Value' = Value
  BY <1>1, <1>3 DEF Value
<1>5. x.pc = "truncated" /\ x.linked /\ x.next = t.next
  BY <1>2 DEF Tasks
<1> HIDE DEF x
<1>6. task'[w] = x
  BY <1>1 DEF IInv, TypeInv
<1>7. Orderly(w)'
  <2> HIDE DEF t
  <2> QED
    BY <1>1, <1>3, <1>4, <1>5, <1>6 DEF Orderly, Kept, Made, Changed
<1> QED
  BY <1>1, <1>2, <1>4, <1>5, <1>7, StillAtWork DEF IInv

LEMMA QuietWrite ==
  ASSUME IInv, NEW w \in Workers, Write(w), ~disturbed'
  PROVE  Quiet' /\ Made(Value, Value')
<1> DEFINE t == task[w]
<1>1. t.pc = "truncated" /\ ~disturbed /\ disk' = disk /\ task' = [task EXCEPT ![w] = Idle]
  BY DEF Write, IInv, TypeInv
<1>2. /\ \A v \in Workers \ {w} : task[v].pc = "idle"
      /\ Orderly(w) /\ t \in Tasks
  BY <1>1, AtWork
<1>3. /\ t.linked /\ file = Torn /\ Made(Value, t.next)
      /\ \A k \in Keys : Kept(t.next.docs, k)
      /\ t.next \in Contents
  BY <1>1, <1>2 DEF Orderly, Tasks
<1>4. file' = t.next
  BY <1>3 DEF Write
<1>5. file' # Torn /\ Value' = t.next /\ BaseOf(Value)' = t.next
  BY <1>3, <1>4, ContentTypes DEF Value, BaseOf
<1>6. task'[w] = Idle /\ Alone' /\ \A v \in Workers \ {w} : Orderly(v)'
  BY <1>1, <1>2, OneWorker DEF IInv
<1>7. Orderly(w)'
  BY <1>6 DEF Orderly, Idle
<1>8. Rest'
  <2> HIDE DEF t
  <2> QED
    BY <1>1, <1>3, <1>5 DEF Rest, Kept
<1> QED
  BY <1>3, <1>5, <1>6, <1>7, <1>8 DEF Quiet

LEMMA QuietCrash ==
  ASSUME IInv, NEW w \in Workers, Crash(w), ~disturbed'
  PROVE  Quiet'
<1>1. /\ task[w].pc = "loaded" /\ task[w].doc = None /\ ~disturbed
      /\ file' = file /\ prior' = prior /\ disk' = disk
      /\ task' = [task EXCEPT ![w] = Idle]
  BY DEF Crash, IInv, TypeInv, TypeOK
<1>2. (\A v \in Workers \ {w} : task[v].pc = "idle") /\ Orderly(w)
  BY <1>1, AtWork
<1>3. file # Torn /\ \A k \in Keys : Kept(BaseOf(Value).docs, k)
  BY <1>1, <1>2 DEF Orderly
<1>4. task'[w] = Idle /\ Alone' /\ \A v \in Workers \ {w} : Orderly(v)'
  BY <1>1, <1>2, OneWorker DEF IInv
<1>5. Orderly(w)'
  BY <1>4 DEF Orderly, Idle
<1>6. Rest'
  BY <1>1, <1>3 DEF Rest, Kept, BaseOf, Value
<1> QED
  BY <1>4, <1>5, <1>6 DEF Quiet

LEMMA QuietAge ==
  ASSUME IInv, Age, ~disturbed'
  PROVE  Quiet'
<1>1. /\ ~disturbed /\ file' = file /\ prior' = prior /\ disk' = disk /\ task' = task
  BY DEF Age
<1>2. Quiet
  BY <1>1 DEF IInv, Quiet
<1>3. Value' = Value /\ BaseOf(Value)' = BaseOf(Value)
  BY <1>1 DEF Value, BaseOf
<1>4. Alone' /\ Rest'
  BY <1>1, <1>2, <1>3 DEF Quiet, Alone, Rest, Kept
<1>5. ASSUME NEW w \in Workers PROVE Orderly(w)'
  BY <1>1, <1>2, <1>3 DEF Quiet, Orderly, Kept, Made, Changed
<1> QED
  BY <1>4, <1>5 DEF Quiet

LEMMA QuietCleanup ==
  ASSUME IInv, Cleanup, ~disturbed'
  PROVE  Quiet' /\ Value' = Absent
<1>1. ~disturbed /\ \A w \in Workers : task[w].pc = "idle"
  BY DEF Cleanup, IInv, TypeInv, TypeOK
<1>2. \A w \in Workers : task'[w].pc = "idle"
  BY <1>1 DEF Cleanup, IInv, TypeInv, Working, Tasks
<1>3. Alone' /\ \A w \in Workers : Orderly(w)'
  BY <1>2 DEF Alone, Orderly
<1>4. file' = Absent /\ Value' = Absent /\ file' # Torn
  BY StoreAssumption DEF Cleanup, Value
<1>5. Rest'
  BY <1>4 DEF Rest, Kept, BaseOf, Empty
<1> QED
  BY <1>3, <1>4, <1>5 DEF Quiet


LEMMA QuietStep ==
  ASSUME IInv, [Next]_vars, ~disturbed'
  PROVE  Quiet'
<1>1. CASE UNCHANGED vars
  <2>1. /\ ~disturbed /\ file' = file /\ prior' = prior /\ disk' = disk /\ task' = task
    BY <1>1 DEF vars
  <2>2. Quiet
    BY <2>1 DEF IInv, Quiet
  <2>3. Value' = Value /\ BaseOf(Value)' = BaseOf(Value)
    BY <2>1 DEF Value, BaseOf
  <2>4. Alone' /\ Rest'
    BY <2>1, <2>2, <2>3 DEF Quiet, Alone, Rest, Kept
  <2>5. ASSUME NEW w \in Workers PROVE Orderly(w)'
    BY <2>1, <2>2, <2>3 DEF Quiet, Orderly, Kept, Made, Changed
  <2> QED
    BY <2>4, <2>5 DEF Quiet
<1>2. ASSUME NEW w \in Workers, Step(w) PROVE Quiet'
  BY <1>2, QuietStoreBytes, QuietListDocuments, QuietRecordDocuments, QuietOpen, QuietWrite DEF Step
<1> QED
  BY <1>1, <1>2, QuietCreate, QuietUpdate, QuietUpload, QuietCrash, QuietAge, QuietCleanup DEF Next

LEMMA IInvInit == Init => IInv
<1> SUFFICES ASSUME Init PROVE IInv
  OBVIOUS
<1>1. TypeInv
  <2>1. task \in [Workers -> Working]
    BY ContentTypes DEF Init
  <2>2. task \in [Workers -> Tasks]
    BY <2>1 DEF Working
  <2>3. calls \in 0 .. MaxCalls /\ crashes \in 0 .. MaxCrashes
    BY StoreAssumption DEF Init
  <2> QED
    BY <2>1, <2>2, <2>3 DEF Init, TypeInv, TypeOK
<1>2. Alone /\ \A w \in Workers : Orderly(w)
  BY DEF Init, Alone, Orderly, Idle
<1>3. Rest
  BY StoreAssumption DEF Init, Rest, Kept, BaseOf, Value, Empty
<1> QED
  BY <1>1, <1>2, <1>3 DEF IInv

LEMMA IInvStep == IInv /\ [Next]_vars => IInv'
<1> SUFFICES ASSUME IInv, [Next]_vars PROVE IInv'
  OBVIOUS
<1>1. TypeInv'
  BY TypeStep DEF IInv
<1>2. ~disturbed' => Quiet'
  BY QuietStep
<1> QED
  BY <1>1, <1>2 DEF IInv, Quiet

(* Workers overlap on one attempt only after the store was disturbed, and  *)
(* until then whoever is at work holds one change of what is stored        *)
(* (update_attempt, save_document and _save of attempt_store.py).          *)
THEOREM InvariantHolds == Spec => []IInv
  BY IInvInit, IInvStep, PTL DEF Spec

(* The variables of the store keep their types. *)
THEOREM TypeCorrect == Spec => []TypeOK
<1>1. IInv => TypeOK
  BY DEF IInv, TypeInv
<1> QED
  BY InvariantHolds, <1>1, PTL

(* For every number of workers and documents: an attempt.json that cannot  *)
(* be read is being written by somebody, unless workers overlapped or one  *)
(* died, so get_attempt does not lose an attempt at rest.                  *)
THEOREM TornOnlyInBetween == Spec => []TornIsBeingWritten
<1>1. IInv => TornIsBeingWritten
  <2> SUFFICES ASSUME IInv, file = Torn, ~disturbed
               PROVE  \E w \in Workers : task[w].pc = "truncated"
    BY DEF TornIsBeingWritten
  <2>1. PICK w \in Workers : task[w].pc # "idle"
    BY DEF IInv, Rest
  <2>2. Orderly(w) /\ task[w] \in Tasks
    BY <2>1, AtWork
  <2>3. task[w].pc \in {"idle", "bytes", "stored", "listed", "loaded", "truncated"}
    BY <2>2 DEF Tasks
  <2>4. task[w].pc = "truncated"
    BY <2>1, <2>2, <2>3 DEF Orderly
  <2> QED
    BY <2>4
<1> QED
  BY InvariantHolds, <1>1, PTL

(* For every set of keys and documents: between two calls that nobody      *)
(* disturbed, each document the attempt records can be read back and is    *)
(* the one that was uploaded (save_document, get_document_bytes).          *)
THEOREM RecordedOnDisk == Spec => []RecordedIsStored
<1>1. IInv => RecordedIsStored
  <2> SUFFICES ASSUME IInv, ~disturbed, \A w \in Workers : task[w].pc = "idle", NEW k \in Keys
               PROVE  GetDocumentBytes(k) = Base.docs[k]
    BY DEF RecordedIsStored
  <2>1. file # Torn /\ Kept(BaseOf(Value).docs, k)
    BY DEF IInv, Rest
  <2>2. Base = BaseOf(Value) /\ Base \in Contents
    BY <2>1, ValueTypes, BaseTypes DEF IInv, TypeInv
  <2> DEFINE d == Base.docs[k]
  <2>3. d \in Docs \cup {None}
    BY <2>2 DEF Contents
  <2>4. d # None => disk[Name(k, d)] = d
    BY <2>1, <2>2 DEF Kept
  <2>5. d # None => d \notin {Absent, Torn}
    BY <2>3, StoreAssumption
  <2> QED
    BY <2>4, <2>5 DEF GetDocumentBytes
<1> QED
  BY InvariantHolds, <1>1, PTL

(***************************************************************************)
(* The store implements the promise                                        *)
(***************************************************************************)
LEMMA PromiseInit == Init => Promise!Init
BY StoreAssumption DEF Init, Promise!Init

(* Every step of the store is a step of the promise, or one it does not    *)
(* see.                                                                    *)
LEMMA PromiseStep ==
  ASSUME IInv, [Next]_vars
  PROVE  \/ UNCHANGED <<Value, disturbed>>
         \/ Value = Absent /\ Value' = Fresh /\ UNCHANGED disturbed
         \/ Value' \in Changed(Value) /\ UNCHANGED disturbed
         \/ Value' = Absent /\ UNCHANGED disturbed
         \/ disturbed' = TRUE /\ Value' \in {Value, Absent}
         \/ disturbed /\ Value' \in Contents \cup {Absent} /\ UNCHANGED disturbed
<1>1. disturbed \in BOOLEAN /\ disturbed' \in BOOLEAN /\ Value' \in Contents \cup {Absent}
  <2>1. TypeInv /\ TypeInv'
    BY TypeStep DEF IInv
  <2> QED
    BY <2>1 DEF TypeInv, TypeOK, Value
<1>2. ASSUME UNCHANGED vars \/ Age PROVE Value' = Value /\ disturbed' = disturbed
  BY <1>2 DEF vars, Age, Value
<1>3. ASSUME NEW w \in Workers, \/ Create(w)
                                \/ \E f \in Fields, v \in Values : Update(w, f, v)
                                \/ \E k \in Keys, d \in Docs : Upload(w, k, d)
      PROVE  Value' = Value /\ (disturbed' = disturbed \/ disturbed' = TRUE)
  BY <1>1, <1>3 DEF Create, Update, Upload, Begin, Value
<1>4. ASSUME NEW w \in Workers, StoreBytes(w) \/ ListDocuments(w) \/ RecordDocuments(w)
      PROVE  Value' = Value /\ disturbed' = disturbed
  BY <1>4 DEF StoreBytes, ListDocuments, RecordDocuments, Value
<1>5. ASSUME NEW w \in Workers, Open(w) PROVE Value' = Value /\ disturbed' = disturbed
  BY <1>5 DEF Open, Value
<1>6. ASSUME NEW w \in Workers, Write(w)
      PROVE  disturbed' = disturbed /\ (~disturbed => Made(Value, Value'))
  BY <1>6, QuietWrite DEF Write
<1>7. ASSUME NEW w \in Workers, Crash(w)
      PROVE  Value' = Value /\ (disturbed' = disturbed \/ disturbed' = TRUE)
  BY <1>1, <1>7 DEF Crash, Value
<1>8. CASE Cleanup
  BY <1>1, <1>8, StoreAssumption DEF Cleanup, Value
<1>9. ASSUME NEW w \in Workers, Step(w)
      PROVE  \/ Value' = Value /\ disturbed' = disturbed
             \/ disturbed' = disturbed /\ (~disturbed => Made(Value, Value'))
  BY <1>4, <1>5, <1>6, <1>9 DEF Step
<1>10. \/ Value' = Value /\ (disturbed' = disturbed \/ disturbed' = TRUE)
       \/ disturbed' = disturbed /\ (~disturbed => Made(Value, Value'))
       \/ Cleanup
  <2>1. CASE Next
    <3>1. Age => Value' = Value /\ disturbed' = disturbed
      BY <1>2
    <3>2. ASSUME NEW w \in Workers, \/ Create(w)
                                    \/ \E f \in Fields, v \in Values : Update(w, f, v)
                                    \/ \E k \in Keys, d \in Docs : Upload(w, k, d)
                                    \/ Crash(w)
          PROVE  Value' = Value /\ (disturbed' = disturbed \/ disturbed' = TRUE)
      BY <1>3, <1>7, <3>2
    <3> DEFINE made == Made(Value, Value')
    <3>3. ASSUME NEW w \in Workers, Step(w)
          PROVE  \/ Value' = Value /\ disturbed' = disturbed
                 \/ disturbed' = disturbed /\ (~disturbed => made)
      BY <1>9, <3>3
    <3> HIDE DEF made
    <3>4. \/ Value' = Value /\ (disturbed' = disturbed \/ disturbed' = TRUE)
          \/ disturbed' = disturbed /\ (~disturbed => made)
          \/ Cleanup
      <4>1. CASE Age \/ Cleanup
        BY <3>1, <4>1
      <4>2. CASE ~(Age \/ Cleanup)
        <5>1. PICK w \in Workers :
                \/ Create(w)
                \/ \E f \in Fields, v \in Values : Update(w, f, v)
                \/ \E k \in Keys, d \in Docs : Upload(w, k, d)
                \/ Step(w)
                \/ Crash(w)
          BY <2>1, <4>2 DEF Next
        <5>2. CASE Step(w)
          BY <3>3, <5>2
        <5> QED
          BY <3>2, <5>1, <5>2
      <4> QED
        BY <4>1, <4>2
    <3> QED
      BY <3>4 DEF made
  <2>2. CASE UNCHANGED vars
    BY <1>2, <2>2
  <2> QED
    BY <2>1, <2>2
<1>11. CASE Value' = Value /\ (disturbed' = disturbed \/ disturbed' = TRUE)
  BY <1>11
<1>12. CASE disturbed' = disturbed /\ (~disturbed => Made(Value, Value'))
  BY <1>1, <1>12 DEF Made
<1> QED
  BY <1>8, <1>10, <1>11, <1>12

(* For every number of workers, fields and documents, what the rest of the *)
(* application sees of the store is a record that is created, changed one  *)
(* field or document at a time and expires, each in one step, until two    *)
(* workers overlap or one dies in the middle of a call.                    *)
THEOREM StoreKeepsPromise == Spec => ImplementsPromise
<1>1. IInv /\ [Next]_vars => [Promise!Next]_(Promise!vars)
  <2> SUFFICES ASSUME IInv, [Next]_vars PROVE [Promise!Next]_(Promise!vars)
    OBVIOUS
  <2>1. Value = IF file = Torn THEN prior ELSE file
    BY DEF Value
  <2> QED
    BY PromiseStep
       DEF Promise!Next, Promise!vars, Promise!Create, Promise!Set, Promise!Expire,
           Promise!Disturb, Promise!Recover, Value
<1> QED
  BY InvariantHolds, PromiseInit, <1>1, PTL DEF Spec, ImplementsPromise, Promise!Spec
=============================================================================
