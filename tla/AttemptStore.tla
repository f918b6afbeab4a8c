---------------------------- MODULE AttemptStore ----------------------------
(***************************************************************************)
(* One attempt of infrastructure/persistence/attempt_store.py: a directory *)
(* with an encrypted attempt.json and the uploaded documents.  Every       *)
(* function is synchronous, so a worker finishes one before it starts the  *)
(* next; but gunicorn runs several workers over the same directory, and    *)
(* nothing is locked.  write_text truncates the file and then writes it,   *)
(* in place, so a call is several steps.                                   *)
(***************************************************************************)
EXTENDS Naturals

CONSTANTS
  Workers,             \* gunicorn's worker processes
  Fields, Values,      \* the fields update_attempt sets, and what to
  Keys, Docs,          \* doc_key, and the documents a user may upload
  Ext(_),              \* the suffix of a document's file name
  Absent, Torn, None,
  MaxCalls,            \* bound: calls that write
  MaxCrashes           \* bound: workers that die in the middle of a call

VARIABLES
  file,       \* attempt.json: Absent, Torn (not readable) or its content
  disk,       \* the document files, by stored_as: Absent, Torn or a document
  task,       \* what each worker is doing
  prior,      \* the last content that could be read
  aged,       \* the directory's mtime is older than the TTL
  disturbed,  \* two workers overlapped, or one died in the middle of a call
  calls, crashes

vars == <<file, disk, task, prior, aged, disturbed, calls, crashes>>

Exts == {Ext(d) : d \in Docs}
Names == Keys \X Exts
NameOfSuffix(k, d) == <<CHOOSE x \in Keys : TRUE, Ext(d)>>
Name(k, d) == <<k, Ext(d)>>                                   \* safe_name

Contents == [fields : [Fields -> Values \cup {None}], docs : [Keys -> Docs \cup {None}]]
ASSUME StoreAssumption ==
  /\ 1 \in Values
  /\ None \notin Docs /\ {Absent, Torn} \cap (Docs \cup Contents \cup {None}) = {}
  /\ Absent # Torn
  /\ MaxCalls \in Nat /\ MaxCrashes \in Nat

Empty == [fields |-> [f \in Fields |-> None], docs |-> [k \in Keys |-> None]]
Fresh == [Empty EXCEPT !.fields = [f \in Fields |-> IF f = "step" THEN 1 ELSE None]]

Idle == [pc |-> "idle", next |-> Empty, key |-> None, doc |-> None, linked |-> TRUE]
Tasks == [pc : {"idle", "bytes", "stored", "listed", "loaded", "truncated"},
          next : Contents, key : Keys \cup {None}, doc : Docs \cup {None}, linked : BOOLEAN]

TypeOK ==
  /\ file \in Contents \cup {Absent, Torn}
  /\ disk \in [Names -> Docs \cup {Absent, Torn}]
  /\ task \in [Workers -> Tasks]
  /\ prior \in Contents \cup {Absent}
  /\ aged \in BOOLEAN /\ disturbed \in BOOLEAN
  /\ calls \in 0 .. MaxCalls /\ crashes \in 0 .. MaxCrashes

Init ==
  /\ file = Absent
  /\ disk = [n \in Names |-> Absent]
  /\ task = [w \in Workers |-> Idle]
  /\ prior = Absent
  /\ aged = FALSE /\ disturbed = FALSE
  /\ calls = 0 /\ crashes = 0

-----------------------------------------------------------------------------
(* get_attempt: a file that is missing, empty or half-written is no        *)
(* attempt.  What update_attempt starts from is then an empty one.         *)
Get == IF file = Torn THEN Absent ELSE file
Base == IF Get = Absent THEN Empty ELSE Get

Busy(w) == \E v \in Workers \ {w} : task[v].pc # "idle"
Begin(w) ==
  /\ task[w].pc = "idle"
  /\ calls < MaxCalls
  /\ calls' = calls + 1
  /\ disturbed' = (disturbed \/ Busy(w))
  /\ UNCHANGED <<prior, crashes>>

(* create_attempt writes without reading; its id is new. *)
Create(w) ==
  /\ Begin(w)
  /\ file = Absent /\ \A v \in Workers : task[v].pc = "idle"
  /\ task' = [task EXCEPT ![w] = [Idle EXCEPT !.pc = "loaded", !.next = Fresh]]
  /\ UNCHANGED <<file, disk, aged>>

(* update_attempt reads the whole attempt and sets its fields in it. *)
Update(w, f, v) ==
  /\ Begin(w)
  /\ task' = [task EXCEPT ![w] = [Idle EXCEPT !.pc = "loaded",
                                              !.next = [Base EXCEPT !.fields[f] = v]]]
  /\ UNCHANGED <<file, disk, aged>>

(* save_document: the bytes first, then the record of all documents as it  *)
(* was read, then update_attempt, which reads the attempt once more.       *)
Upload(w, k, d) ==
  /\ Begin(w)
  /\ disk' = [disk EXCEPT ![Name(k, d)] = Torn]
  /\ aged' = (aged /\ \E n \in Names : disk[n] # Absent)      \* docs/ is created
  /\ task' = [task EXCEPT ![w] = [Idle EXCEPT !.pc = "bytes", !.key = k, !.doc = d]]
  /\ UNCHANGED file
StoreBytes(w) ==
  LET t == task[w]
      n == Name(t.key, t.doc)
  IN /\ t.pc = "bytes"
     /\ task' = [task EXCEPT ![w].pc = "stored"]
     /\ disk' \in IF ~t.linked THEN {disk}
                  ELSE {[disk EXCEPT ![n] = c] :
                          c \in IF disk[n] = Torn THEN {t.doc} ELSE {t.doc, Torn}}
     /\ UNCHANGED <<file, prior, aged, disturbed, calls, crashes>>
ListOnlyThis(w) ==
  LET t == task[w]
  IN /\ t.pc = "stored"
     /\ task' = [task EXCEPT ![w].pc = "listed",
                             ![w].next = [Empty EXCEPT !.docs[t.key] = t.doc]]
     /\ UNCHANGED <<file, disk, prior, aged, disturbed, calls, crashes>>
ListDocuments(w) ==
  LET t == task[w]
  IN /\ t.pc = "stored"
     /\ task' = [task EXCEPT ![w].pc = "listed",
                             ![w].next = [Empty EXCEPT !.docs = [Base.docs EXCEPT ![t.key] = t.doc]]]
     /\ UNCHANGED <<file, disk, prior, aged, disturbed, calls, crashes>>
RecordDocuments(w) ==
  /\ task[w].pc = "listed"
  /\ task' = [task EXCEPT ![w].pc = "loaded",
                          ![w].next = [Base EXCEPT !.docs = task[w].next.docs]]
  /\ UNCHANGED <<file, disk, prior, aged, disturbed, calls, crashes>>

(* _save: the directory is made if it is not there, the file is opened and *)
(* truncated, and then written from its beginning.  A shorter text leaves  *)
(* the tail of one that another worker wrote in between; a text written to *)
(* a file that was removed is gone.                                        *)
Open(w) ==
  /\ task[w].pc = "loaded"
  /\ task' = [task EXCEPT ![w].pc = "truncated", ![w].linked = TRUE]
  /\ file' = Torn
  /\ prior' = IF file = Torn THEN prior ELSE file
  /\ aged' = (aged /\ file # Absent)
  /\ UNCHANGED <<disk, disturbed, calls, crashes>>
WriteMayFail(w) ==
  /\ task[w].pc = "truncated"
  /\ task' = [task EXCEPT ![w] = Idle]
  /\ file' \in {task[w].next, Torn}
  /\ prior' = IF file \in {Torn, Absent} THEN prior ELSE file
  /\ UNCHANGED <<disk, aged, disturbed, calls, crashes>>
Write(w) ==
  /\ task[w].pc = "truncated"
  /\ task' = [task EXCEPT ![w] = Idle]
  /\ file' \in CASE ~task[w].linked -> {file}
                 [] task[w].linked /\ file = Torn -> {task[w].next}
                 [] OTHER -> {task[w].next, Torn}
  /\ prior' = IF file \in {Torn, Absent} THEN prior ELSE file
  /\ UNCHANGED <<disk, aged, disturbed, calls, crashes>>

-----------------------------------------------------------------------------
(* A worker dies: killed by gunicorn, out of memory, a deploy.  A plain    *)
(* update that has not opened the file yet leaves no trace.                *)
Crash(w) ==
  /\ task[w].pc # "idle"
  /\ crashes < MaxCrashes
  /\ crashes' = crashes + 1
  /\ task' = [task EXCEPT ![w] = Idle]
  /\ disturbed' = (disturbed \/ task[w].pc # "loaded" \/ task[w].doc # None)
  /\ UNCHANGED <<file, disk, prior, aged, calls>>

(* A week goes by.  The directory's mtime changes when an entry is made in *)
(* it, not when attempt.json is written again.                             *)
Age ==
  /\ file # Absent /\ ~aged
  /\ \A w \in Workers : task[w].pc = "idle"
  /\ aged' = TRUE
  /\ UNCHANGED <<file, disk, task, prior, disturbed, calls, crashes>>
(* cleanup_old_attempts, which says it is safe to call at any time. *)
Cleanup ==
  /\ aged
  /\ file' = Absent
  /\ prior' = Absent
  /\ disk' = [n \in Names |-> Absent]
  /\ aged' = FALSE
  /\ task' = [w \in Workers |-> [task[w] EXCEPT !.linked = (task[w].pc = "idle")]]
  /\ disturbed' = (disturbed \/ \E w \in Workers : task[w].pc # "idle")
  /\ UNCHANGED <<calls, crashes>>

Step(w) == StoreBytes(w) \/ ListDocuments(w) \/ RecordDocuments(w) \/ Open(w) \/ Write(w)

Next ==
  \/ \E w \in Workers :
       \/ Create(w)
       \/ \E f \in Fields, v \in Values : Update(w, f, v)
       \/ \E k \in Keys, d \in Docs : Upload(w, k, d)
       \/ Step(w)
       \/ Crash(w)
  \/ Age
  \/ Cleanup

Spec == Init /\ [][Next]_vars

-----------------------------------------------------------------------------
(* get_document_bytes: the document the record names, if its file can be   *)
(* read.                                                                   *)
GetDocumentBytes(k) ==
  LET d == Base.docs[k]
  IN IF d = None \/ disk[Name(k, d)] \in {Absent, Torn} THEN None ELSE disk[Name(k, d)]

(* Undisturbed and between two calls, every document the attempt records   *)
(* is on disk, whole, and is the one that was uploaded under that name:    *)
(* save_document stores the bytes before it records them, and keeps the    *)
(* record of the other documents.                                          *)
RecordedIsStored ==
  ~disturbed /\ (\A w \in Workers : task[w].pc = "idle")
    => \A k \in Keys : GetDocumentBytes(k) = Base.docs[k]

(* A file that cannot be read is being written, or was disturbed: get      *)
(* never answers None for an attempt that exists and nobody touches.       *)
TornIsBeingWritten ==
  file = Torn => disturbed \/ \E w \in Workers : task[w].pc = "truncated"

(* The store keeps the promise the application relies on. *)
Changed(v) ==
  LET base == IF v = Absent THEN Empty ELSE v
  IN {[base EXCEPT !.fields[f] = x] : f \in Fields, x \in Values}
       \cup {[base EXCEPT !.docs[k] = d] : k \in Keys, d \in Docs}
Promise == INSTANCE AttemptPromise
             WITH value <- IF file = Torn THEN prior ELSE file, Changes <- Changed
ImplementsPromise == Promise!Spec
=============================================================================
