------------------------------ MODULE Redaction ------------------------------
(***************************************************************************)
(* What happens to personal data on its way through the system: a CV text  *)
(* is made anonymous and sent to the model, the answer gets its values     *)
(* back, the CV is made anonymous again for its row in saved_cvs, and the  *)
(* row is given the values of the vault when it is shown.                  *)
(* pii/use_cases/redact_pii.py and check_placeholders.py, with their       *)
(* callers in the pipeline, the refiner, cv_repo, My CVs and the builder.  *)
(*                                                                         *)
(* A text is a sequence of words.  A word is a pair: a value, as           *)
(* <<"email", p>> with the person p it belongs to, or a token, as          *)
(* <<"EMAIL", n>> with its number.  The regular expressions recognise a    *)
(* word by its kind; a literal replacement by the word itself.  A name has *)
(* one canonical spelling, "name", and others that the redactor knows, all *)
(* "variant" (of a reference: other capitals); in an address on the web it *)
(* is "slug" as restore writes it and "handle" in any other form that      *)
(* redact recognises.  A "range" is a pair of years around a dash: no      *)
(* pattern knows it, but its escaped form in JSON reads as a telephone     *)
(* number.                                                                 *)
(***************************************************************************)
EXTENDS Naturals, SequencesExt

CONSTANTS
  Uploads,      \* the texts a user may upload
  Vaults,       \* what the session's personal data may be
  Attempts,     \* what the wizard may have recorded: whether it has the name, the
                \* references, and the texts that go to the model as they are
  Notes         \* what a user may ask of a flagged item of the review

VARIABLES
  stage,        \* "uploaded", "drafted", "generated", "saved" or "shown"
  attempt,      \* the fields of the attempt that the pipeline reads
  vault,        \* request.session["pii"]; held is FALSE when it is empty
  upload,       \* the text of the uploaded CV
  sent,         \* every word that was sent to the model
  noted,        \* every word of the user's notes so far
  cv,           \* cv_data as the application holds it
  row,          \* the row of saved_cvs: [json, refs]
  letter,       \* the cover letter, then that of the row's Job; <<>>: none
  shown,        \* the CV of the last page that showed the row
  file          \* what the last download with this vault holds

-----------------------------------------------------------------------------
(* Types.  A value is one word of its kind, or nothing; a CV holds texts   *)
(* and a list of references.                                               *)

ValueKinds == {"plain", "name", "variant", "slug", "handle", "email", "phone", "linkedin",
               "date", "range", "city", "bracket"}
TokenKinds == {"NAME", "SLUG", "EMAIL", "PHONE", "LINKEDIN", "LOCATION", "DOB",
               "REF_NAME", "REF_EMAIL", "REF_PHONE"}
Word == (ValueKinds \cup TokenKinds) \X Nat
Text == Seq(Word)
Values(kind) == {text \in Seq({kind} \X Nat) : Len(text) <= 1}
RefValues == [name : Values("name"), email : Values("email"), phone : Values("phone")]
RefTexts == [name : Text, email : Text, phone : Text]
Doc == [name : Text, email : Text, phone : Text, location : Text, linkedin : Text,
        dob : Text, summary : Text, refs : Seq(RefTexts)]
Vault == [held : BOOLEAN, name : Values("name"), email : Values("email"),
          phone : Values("phone"), dob : Values("date"), linkedin : Values("linkedin"),
          location : Values("city"), refs : Seq(RefValues)]

ASSUME RedactionAssumption ==
  /\ Uploads \subseteq Text
  /\ Vaults \subseteq Vault
  /\ \A v \in Vaults : ~v.held => \A f \in DOMAIN v \ {"held"} : v[f] = <<>>
  /\ Attempts \subseteq [named : BOOLEAN, refs : Seq(RefValues), told : Text,
                          rights : Text, featured : Text]
  /\ Notes \subseteq Text

-----------------------------------------------------------------------------
vars == <<stage, attempt, vault, upload, sent, noted, cv, row, letter, shown, file>>

Me == 0                                    \* the candidate, before any renaming
Own(kind) == <<kind, Me>>
Bracket == <<"bracket", Me>>               \* "[Your Name]"
RefFields == {"name", "email", "phone"}
NoCv == [name |-> <<>>, email |-> <<>>, phone |-> <<>>, location |-> <<>>,
         linkedin |-> <<>>, dob |-> <<>>, summary |-> <<>>, refs |-> <<>>]
Scalars == DOMAIN NoCv \ {"refs"}
NoFile == [cv |-> NoCv, letter |-> <<>>]

-----------------------------------------------------------------------------
(* Words, texts and CVs. *)

(* The first word of one of these kinds, as a text. *)
FirstOf(kinds, text) ==
  LET found == {i \in DOMAIN text : text[i][1] \in kinds}
  IN IF found = {} THEN <<>> ELSE <<text[Min(found)]>>
(* The words of a kind in the order they appear, each once, after those    *)
(* that are listed already (_replace_email, _replace_phone).               *)
Listing(kind, known, text) ==
  LET list[i \in 0 .. Len(text)] ==
        IF i = 0 THEN known
        ELSE IF text[i][1] = kind /\ ~Contains(list[i - 1], text[i])
        THEN Append(list[i - 1], text[i]) ELSE list[i - 1]
  IN list[Len(text)]
Place(list, w) == CHOOSE i \in DOMAIN list : list[i] = w
Each(Op(_), text) == FlattenSeq([i \in DOMAIN text |-> Op(text[i])])
(* _walk_restore and _walk_text_redact: every string of the structure. *)
Walk(T(_), d) ==
  [f \in DOMAIN d |->
     IF f = "refs" THEN [i \in DOMAIN d.refs |-> [g \in RefFields |-> T(d.refs[i][g])]]
     ELSE T(d[f])]
RefText(refs) == FlattenSeq([i \in DOMAIN refs |->
                               refs[i].name \o refs[i].email \o refs[i].phone])
(* json.dumps: the strings in the order of the keys. *)
Dumped(d) == d.name \o d.email \o d.phone \o d.location \o d.linkedin
               \o d.summary \o RefText(d.refs) \o d.dob
WordsOf(d) == ToSet(Dumped(d))
IsToken(w) == w[1] \in TokenKinds

-----------------------------------------------------------------------------
(* The redactor. *)

Redactor(name, dob, linkedin, refs, location) ==
  [name |-> name, dob |-> dob, linkedin |-> linkedin, refs |-> refs,
   location |-> location, emails |-> <<>>, phones |-> <<>>]
FromCv(d) == Redactor(d.name, d.dob, d.linkedin, d.refs, d.location)
FromVault(v) == IF v.held THEN Redactor(v.name, v.dob, v.linkedin, v.refs, <<>>)
                ELSE Redactor(<<>>, <<>>, <<>>, <<>>, <<>>)

RefNamed(r, w) == {i \in DOMAIN r.refs : r.refs[i].name = <<w>>}
RefMailed(r) == \E i \in DOMAIN r.refs : r.refs[i].email # <<>>

FirstNamed(r, w) == CHOOSE i \in RefNamed(r, w) : \A j \in RefNamed(r, w) : i <= j

(* Steps 1 and 5 of redact: the addresses and numbers found in the text,   *)
(* in order of appearance.                                                 *)
Numbered(r, text) == [r EXCEPT !.emails = Listing("email", <<>>, text),
                               !.phones = Listing("phone", <<>>, text)]
NameKinds == {"name", "variant", "slug", "handle"}
(* The spelling in which a name or its slug comes back. *)
Canonical(w) == CASE w[1] = "variant" -> <<"name", w[2]>>
                  [] w[1] = "handle"  -> <<"slug", w[2]>>
                  [] OTHER -> w
(* Whether a word names the candidate or a reference, in any spelling.     *)
Names(d, w) ==
  \/ /\ w[1] \in NameKinds
     /\ d.name = <<<<"name", w[2]>>>>
  \/ /\ w[1] \in {"name", "variant"}
     /\ RefNamed(d, <<"name", w[2]>>) # {}
(* The form in which it comes back from a redactor of d.                   *)
Respelled(d, w) == IF Names(d, w) /\ d.name # <<w>> THEN Canonical(w) ELSE w

(* redact, for one word.  Step 7 renames the token of every address as     *)
(* soon as one reference has an address.                                   *)
MailToken(r, n) == <<IF RefMailed(r) THEN "REF_EMAIL" ELSE "EMAIL", n>>
Patterns == {"email", "EMAIL", "phone", "linkedin"}   \* recognised before any name
RedactWord(r, w) ==
  CASE w[1] = "email"    -> MailToken(r, Place(r.emails, w))
    [] w[1] = "EMAIL"    -> MailToken(r, w[2])
    [] w[1] = "phone"    -> <<"PHONE", Place(r.phones, w)>>
    [] w[1] = "linkedin" -> <<"LINKEDIN", 0>>
    [] w[1] \in {"slug", "handle"} /\ r.name = <<<<"name", w[2]>>>> -> <<"SLUG", 0>>
    [] w[1] \notin Patterns /\ r.name = <<w>> -> <<"NAME", 0>>
    [] w[1] = "variant" /\ r.name = <<<<"name", w[2]>>>> -> <<"NAME", 0>>
    [] /\ w[1] \in {"name", "variant"} /\ r.name \notin {<<w>>, <<Canonical(w)>>}
       /\ RefNamed(r, Canonical(w)) # {} -> <<"REF_NAME", FirstNamed(r, Canonical(w))>>
    [] w[1] = "date" /\ r.name # <<w>> /\ r.dob \in {<<>>, <<w>>} -> <<"DOB", 0>>
    [] OTHER -> w
Redacted(q, text) == [i \in DOMAIN text |-> RedactWord(q, text[i])]
RedactText(r, text) ==
  LET q == Numbered(r, text) IN [text |-> Redacted(q, text), redactor |-> q]
(* _redact_cv_data: the JSON of the whole CV is redacted as one text.  If   *)
(* that leaves no JSON, because a token took the digits of an escape, the  *)
(* CV itself is returned.                                                  *)
Breaks(d) == \E w \in WordsOf(d) : w[1] = "range"
RedactJsonNotRefs(r, d) ==
  LET q == Numbered(r, Dumped(d))
  IN IF Breaks(d) THEN d
     ELSE [Walk(LAMBDA text : Redacted(q, text), d) EXCEPT !.refs = d.refs]
RedactJson(r, d) ==
  LET q == Numbered(r, Dumped(d))
  IN IF Breaks(d) THEN d ELSE Walk(LAMBDA text : Redacted(q, text), d)

(* redact_cv_dict: identity fields and references by position, free text   *)
(* word by word, with the numbers shared across the CV.                    *)
ScanWord(q, w) ==
  CASE w[1] = "email" -> <<"EMAIL", Place(q.emails, w)>>
    [] w[1] # "email" /\ (w[1] \in {"phone", "linkedin"} \cup NameKinds \/ q.name = <<w>>) ->
         RedactWord(q, w)
    [] OTHER -> IF q.location = <<w>> THEN <<"LOCATION", 0>>
                ELSE IF q.dob = <<w>> THEN <<"DOB", 0>> ELSE w
RedactDict(r, d) ==
  LET q == [r EXCEPT !.emails = Listing("email", d.email, d.summary),
                     !.phones = Listing("phone", d.phone, d.summary)]
      token(text, t) == IF text = <<>> THEN <<>> ELSE <<t>>
  IN [doc |-> [name |-> token(d.name, <<"NAME", 0>>),
               email |-> token(d.email, <<"EMAIL", 1>>),
               phone |-> token(d.phone, <<"PHONE", 1>>),
               location |-> token(d.location, <<"LOCATION", 0>>),
               linkedin |-> token(d.linkedin, <<"LINKEDIN", 0>>),
               dob |-> token(d.dob, <<"DOB", 0>>),
               summary |-> [i \in DOMAIN d.summary |-> ScanWord(q, d.summary[i])],
               refs |-> [i \in DOMAIN d.refs |->
                           [name |-> token(d.refs[i].name, <<"REF_NAME", i>>),
                            email |-> token(d.refs[i].email, <<"REF_EMAIL", i>>),
                            phone |-> token(d.refs[i].phone, <<"REF_PHONE", i>>)]]],
      redactor |-> q]

(* _build_replacement_map: what stands for a token.  The name and its slug *)
(* are always in the map, also when they are empty.                        *)
ListedOffByOne(list, w) == IF w[2] + 1 \in DOMAIN list THEN <<list[w[2] + 1]>> ELSE <<w>>
Listed(list, w) == IF w[2] \in DOMAIN list THEN <<list[w[2]]>> ELSE <<w>>
Known(text, w) == IF text = <<>> THEN <<w>> ELSE text
OfRef(r, f, w) == IF w[2] \in DOMAIN r.refs THEN Known(r.refs[w[2]][f], w) ELSE <<w>>
Slug(name) == IF name = <<>> THEN <<>> ELSE <<<<"slug", name[1][2]>>>>
RestoreWord(r, w) ==
  CASE w[1] = "NAME"      -> r.name
    [] w[1] = "SLUG"      -> Slug(r.name)
    [] w[1] = "EMAIL"     -> Listed(r.emails, w)
    [] w[1] = "PHONE"     -> Listed(r.phones, w)
    [] w[1] = "LINKEDIN"  -> Known(r.linkedin, w)
    [] w[1] = "LOCATION"  -> Known(r.location, w)
    [] w[1] = "DOB"       -> Known(r.dob, w)
    [] w[1] = "REF_NAME"  -> OfRef(r, "name", w)
    [] w[1] = "REF_EMAIL" -> OfRef(r, "email", w)
    [] w[1] = "REF_PHONE" -> OfRef(r, "phone", w)
    [] OTHER -> <<w>>
RestoreText(r, text) == Each(LAMBDA w : RestoreWord(r, w), text)
Restore(r, d) == Walk(LAMBDA text : RestoreText(r, text), d)

-----------------------------------------------------------------------------
(* check_placeholders: the fields of a CV that are empty or hold a token   *)
(* the checker knows (it does not know the token of the location) or, for  *)
(* an identity field, bracket text.                                        *)
Required == {"name", "email", "phone"}
CheckedTokens == {"NAME", "EMAIL", "PHONE", "LINKEDIN", "DOB", "SLUG",
                  "REF_NAME", "REF_EMAIL", "REF_PHONE"}
CheckPlaceholders(d) ==
     {f \in Required : d[f] = <<>>}
  \cup {f \in {"name", "email", "phone", "location", "summary", "linkedin"} :
          Contains(d[f], Bracket)}
  \cup {f \in Scalars : \E w \in ToSet(d[f]) : w[1] \in CheckedTokens}
  \cup {f \in {"refs"} : \E w \in ToSet(RefText(d.refs)) : w[1] \in CheckedTokens}

-----------------------------------------------------------------------------
(* A run of the pipeline.  The model answers with the tokens it was given  *)
(* ("echo"), leaves identity and references out ("omit") or writes bracket *)
(* text in their place ("bracket").                                        *)

FullName == IF attempt.named THEN <<Own("name")>> ELSE <<>>
(* generate_cv.py: no name, no redaction at all. *)
PipelineText ==
  IF attempt.named
  THEN RedactText([FromVault(vault) EXCEPT !.name = FullName], upload)
  ELSE [text |-> upload, redactor |-> FromVault(vault)]
PersonalContextRaw == attempt.refs
(* _build_personal_context: the references as tokens; what the candidate   *)
(* tells of herself, like the job description, goes as it is.              *)
PersonalContext ==
  [i \in DOMAIN attempt.refs |->
     [f \in RefFields |->
        IF attempt.refs[i][f] = <<>> THEN <<>>
        ELSE <<<<CASE f = "name" -> "REF_NAME" [] f = "email" -> "REF_EMAIL"
                   [] OTHER -> "REF_PHONE", i>>>>]]
Answer(mode, text) ==
  LET field(kinds) == CASE mode = "echo" -> FirstOf(kinds, text)
                        [] mode = "omit" -> <<>>
                        [] mode = "bracket" -> <<Bracket>>
  IN [NoCv EXCEPT !.name = IF mode = "echo" /\ ~Contains(text, <<"NAME", 0>>)
                             THEN IF Contains(text, Own("name")) THEN <<Own("name")>> ELSE <<>>
                             ELSE field({"NAME"}),
                  !.email = field({"EMAIL", "REF_EMAIL", "email"}),
                  !.phone = field({"PHONE", "phone"}),
                  !.linkedin = field({"LINKEDIN", "linkedin"}),
                  !.summary = text,
                  !.refs = IF mode = "echo" THEN PersonalContext ELSE <<>>]
(* generate_tailored_cv: a redactor of its own, without a name, gives the  *)
(* references back.                                                        *)
RefRedactor == Redactor(<<>>, <<>>, <<>>, attempt.refs, <<>>)
Tailored(mode, text) ==
  IF attempt.refs = <<>> THEN Answer(mode, text)
  ELSE Restore(RefRedactor, Answer(mode, text))
SourceOfName(f) == IF f = "name" /\ attempt.named THEN FullName ELSE <<>>
(* The identity fields the platform knows fill what the answer left open.  *)
Source(f) == CASE f = "name" /\ attempt.named -> FullName
               [] vault.held /\ ~(f = "name" /\ attempt.named) -> vault[f]
               [] OTHER -> <<>>
IsOpen(text) == text \in {<<>>, <<Bracket>>, <<<<"NAME", 0>>>>, <<<<"EMAIL", 1>>>>,
                          <<<<"PHONE", 1>>>>, <<<<"LINKEDIN", 0>>>>, <<<<"LOCATION", 0>>>>}
Prefilled(d) ==
  [f \in DOMAIN d |->
     IF /\ f \in {"name", "email", "phone", "linkedin", "location"}
        /\ Source(f) # <<>> /\ IsOpen(d[f])
     THEN Source(f) ELSE d[f]]

(* Answered, restored, prefilled and given the wizard's references.        *)
Drafted(mode) ==
  LET red == PipelineText
      tailored == Tailored(mode, red.text)
      restored == IF attempt.named THEN Restore(red.redactor, tailored) ELSE tailored
      filled == Prefilled(restored)
  IN IF attempt.refs = <<>> THEN filled ELSE [filled EXCEPT !.refs = attempt.refs]
Generate(mode) ==
  /\ stage = "uploaded"
  /\ stage' = "drafted"
  /\ sent' = sent \cup ToSet(PipelineText.text) \cup ToSet(RefText(PersonalContext))
                  \cup ToSet(attempt.told) \cup ToSet(attempt.rights)
  /\ cv' = Drafted(mode)
  /\ UNCHANGED <<attempt, vault, upload, noted, row, letter, shown, file>>

(* _build_cv_context: the name and free text, but not how to reach the     *)
(* candidate.                                                              *)
LetterContext(d) == d.name \o d.summary
(* generate_cover_letter redacts the CV anew and restores the answer; then *)
(* the pipeline's redactor restores it again.                              *)
Letter(d) ==
  LET red == RedactDict(FromCv(d), d)
      prompt == LetterContext(red.doc)
      text == RestoreText(red.redactor, prompt)
  IN [prompt |-> prompt,
      text |-> IF attempt.named THEN RestoreText(PipelineText.redactor, text) ELSE text]
(* The parallel block: a letter if the flag is on and the model answers.   *)
Finish(answered) ==
  /\ stage = "drafted"
  /\ stage' = "generated"
  /\ sent' = sent \cup ToSet(Letter(cv).prompt) \cup ToSet(attempt.told)
                  \cup ToSet(attempt.featured)
  /\ letter' = IF answered THEN Letter(cv).text ELSE <<>>
  /\ UNCHANGED <<attempt, vault, upload, noted, cv, row, shown, file>>

(* apply_review_fixes and, for its prompt, review_cv_quality: the model    *)
(* keeps the summary or drops it.  The flagged items are redacted with the *)
(* CV they come from, the user's note is not.                              *)
Refined(d, keep) ==
  LET red == RedactDict(FromCv(d), d)
  IN Restore(red.redactor, IF keep THEN red.doc ELSE [red.doc EXCEPT !.summary = <<>>])
Refine(keep, note) ==
  /\ stage = "generated"
  /\ sent' = sent \cup WordsOf(RedactDict(FromCv(cv), cv).doc) \cup ToSet(note)
  /\ noted' = noted \cup ToSet(note)
  /\ cv' = Refined(cv, keep)
  /\ UNCHANGED <<stage, attempt, vault, upload, row, letter, shown, file>>

-----------------------------------------------------------------------------
(* The saved CV. *)

(* Only an account has a Job for the letter, and only an account a vault.  *)
Save ==
  /\ stage = "generated"
  /\ stage' = "saved"
  /\ row' = [json |-> RedactJson(FromCv([cv EXCEPT !.location = <<>>]), cv),
             refs |-> IF cv.refs # <<>> THEN cv.refs ELSE attempt.refs]
  /\ letter' = IF vault.held THEN letter ELSE <<>>
  /\ UNCHANGED <<attempt, vault, upload, sent, noted, cv, shown, file>>

(* The user edits the profile, or comes back with another session. *)
ChangeVault ==
  /\ stage = "saved"
  /\ vault' \in Vaults \ {vault}
  /\ file' = NoFile
  /\ UNCHANGED <<stage, attempt, upload, sent, noted, cv, row, letter, shown>>

RestoreRowNoColumn ==
  LET r == [FromVault(vault) EXCEPT !.emails = vault.email, !.phones = vault.phone]
  IN IF vault.held THEN Restore(r, row.json) ELSE row.json
(* restore_cv_pii: one address and one number, those of the vault; the     *)
(* column of references wins.                                              *)
RestoreRow ==
  LET r == [FromVault(vault) EXCEPT !.emails = vault.email, !.phones = vault.phone]
      d == Restore(r, row.json)
  IN IF ~vault.held THEN row.json
     ELSE IF row.refs = <<>> THEN d ELSE [d EXCEPT !.refs = row.refs]
(* What both pages then replace by the vault's values, as far as it has    *)
(* them; the builder knows the location too.                               *)
FillWord(w) ==
  CASE w[1] = "NAME" -> Known(vault.name, w)
    [] w = <<"EMAIL", 1>> -> Known(vault.email, w)
    [] w = <<"PHONE", 1>> -> Known(vault.phone, w)
    [] w[1] = "DOB" -> Known(vault.dob, w)
    [] w[1] = "LINKEDIN" -> Known(vault.linkedin, w)
    [] w[1] = "LOCATION" -> Known(vault.location, w)
    [] w[1] = "SLUG" -> Known(Slug(vault.name), w)
    [] OTHER -> <<w>>
Filled(kinds, text) == Each(LAMBDA w : IF w[1] \in kinds THEN FillWord(w) ELSE <<w>>, text)
Stripped(text) == Each(LAMBDA w : IF w[1] \in {"LINKEDIN", "SLUG"} THEN <<>> ELSE <<w>>, text)
VaultTokens == {"NAME", "EMAIL", "PHONE", "DOB", "LINKEDIN", "SLUG"}
(* _resolve_cv_with_pii and _strip_optional_tokens *)
Resolved(d) ==
  LET filled == IF vault.held THEN Walk(LAMBDA text : Filled(VaultTokens, text), d) ELSE d
  IN Walk(Stripped, filled)
(* restore_pii_tokens, and the profile fields builder_edit fills *)
Reopened(d) ==
  LET filled == Walk(LAMBDA text : Filled(VaultTokens \cup {"LOCATION"}, text), d)
  IN IF ~vault.held THEN d
     ELSE [f \in DOMAIN d |->
             IF /\ f \in {"name", "email", "phone", "location", "linkedin"}
                /\ filled[f] = <<>>
             THEN vault[f] ELSE filled[f]]

Show ==
  /\ stage \in {"saved", "shown"}
  /\ stage' = "shown"
  /\ shown' \in {Resolved(RestoreRow), Reopened(RestoreRow)}
  /\ UNCHANGED <<attempt, vault, upload, sent, noted, cv, row, letter, file>>

(* The downloads of My CVs: the CV as the preview has it, and the letter   *)
(* of the row's Job as it was written.                                     *)
Give(d, text) ==
  /\ stage \in {"saved", "shown"}
  /\ file' = [cv |-> d, letter |-> text]
  /\ UNCHANGED <<stage, attempt, vault, upload, sent, noted, cv, row, letter, shown>>
HasLetter == letter # <<>>
DownloadSaved == Give(Resolved(RestoreRow), <<>>)
DownloadLetter == HasLetter /\ Give(NoCv, letter)
DownloadAll == HasLetter /\ Give(Resolved(RestoreRow), letter)

-----------------------------------------------------------------------------
Init ==
  /\ stage = "uploaded"
  /\ attempt \in Attempts
  /\ vault \in Vaults
  /\ upload \in Uploads
  /\ sent = {}
  /\ noted = {}
  /\ cv = NoCv
  /\ row = [json |-> NoCv, refs |-> <<>>]
  /\ letter = <<>>
  /\ shown = NoCv
  /\ file = NoFile

Next ==
  \/ \E mode \in {"echo", "omit", "bracket"} : Generate(mode)
  \/ \E answered \in BOOLEAN : Finish(answered)
  \/ \E keep \in BOOLEAN, note \in Notes : Refine(keep, note)
  \/ Save
  \/ ChangeVault
  \/ Show
  \/ DownloadSaved
  \/ DownloadLetter
  \/ DownloadAll

Spec == Init /\ [][Next]_vars
-----------------------------------------------------------------------------
(* Properties. *)

TypeOK ==
  /\ stage \in {"uploaded", "drafted", "generated", "saved", "shown"}
  /\ attempt \in Attempts
  /\ vault \in Vaults
  /\ upload \in Uploads
  /\ sent \subseteq Word /\ noted \subseteq Word
  /\ cv \in Doc
  /\ row \in [json : Doc, refs : Seq(RefTexts)]
  /\ letter \in Text
  /\ shown \in Doc
  /\ file \in [cv : Doc, letter : Text]

Personal == {"email", "phone", "linkedin"}
Complete == \A f \in {"name", "email", "phone", "dob", "linkedin"} : vault[f] # <<>>

(* What the model is sent as it was typed: the posting, the candidate's    *)
(* own words, and the notes on flagged items.                              *)
Typed == ToSet(attempt.told) \cup ToSet(attempt.rights) \cup ToSet(attempt.featured)
           \cup noted
Candidate == [name |-> FullName,
              refs |-> IF vault.refs = attempt.refs THEN attempt.refs ELSE <<>>]

(* Whatever the pipeline, the refiner, the reviewer and the writer of the  *)
(* letter send to the model for a candidate whose name is known holds no   *)
(* address, number or profile of anybody, and neither the candidate's name *)
(* or slug nor a name of a reference the wizard recorded, in any spelling  *)
(* the redactor knows - but for what was typed into a field that no        *)
(* redactor sees (redact, redact_cv_dict, _build_personal_context).        *)
PromptIsAnonymous ==
  attempt.named /\ stage = "generated" =>
    \A w \in sent \ Typed : w[1] \notin Personal /\ ~Names(Candidate, w)

(* Beside tokens the row keeps no address, number or profile, and neither  *)
(* the name the CV was made for nor the names of its references, unless    *)
(* its redacted text was no JSON any more (save_cv, _redact_cv_data).      *)
RowIsAnonymous ==
  stage \in {"saved", "shown"} /\ ~Breaks(cv) =>
    \A w \in WordsOf(row.json) : ~IsToken(w) => /\ w[1] \notin Personal
                                                /\ <<w>> # cv.name
                                                /\ ~Names(cv, w)

(* Sending a CV through the refiner, or its text through the writer of the *)
(* letter, changes nothing the model leaves as it was, but that every name *)
(* of the candidate or a reference in the text comes back in its canonical *)
(* spelling: the numbers given to addresses and phones in one place of the *)
(* CV mean the same in every other, and the second restore of a letter     *)
(* finds nothing to change (redact_cv_dict, restore, _safe_cover_letter).  *)
(* A text may mention one profile only, its own: there is one token for    *)
(* all.                                                                    *)
Spelled(d) == [d EXCEPT !.summary = [i \in DOMAIN @ |-> Respelled(d, @[i])]]
RoundTripIsLossless ==
  /\ stage \in {"drafted", "generated"}
  /\ \A w \in WordsOf(cv) : ~IsToken(w) /\ (w[1] = "linkedin" => <<w>> = cv.linkedin)
  => Refined(cv, TRUE) = Spelled(cv) /\ Letter(cv).text = LetterContext(Spelled(cv))

AsGiven ==
  /\ CheckPlaceholders(cv) = {}
  /\ cv.summary \in {<<>>, Each(LAMBDA w : IF w[1] = "linkedin" THEN vault.linkedin
                                           ELSE <<Respelled(Candidate, w)>>, upload)}
  /\ cv.name = FullName
  /\ cv.email \in {FirstOf({"email"}, upload), vault.email}
Answered == stage = "generated" /\ attempt.named /\ vault.held /\ Complete

(* With a complete vault and no references, the CV generated from a text   *)
(* without placeholders holds none, and no value the candidate did not     *)
(* give: every token the model was given comes back as the value it stood  *)
(* for, and what the model left out is filled in (the order of restore and *)
(* prefill), a name in its canonical spelling.                             *)
GeneratedCvIsComplete ==
  /\ Answered /\ attempt.refs = <<>> /\ vault.refs = <<>>
  /\ \A w \in ToSet(upload) : ~IsToken(w) /\ w # Bracket
  => AsGiven

(* A saved CV is shown as it was saved while the vault still agrees with   *)
(* it, provided its text mentions one address, one number and no date and  *)
(* spells names the canonical way, and its references have no address      *)
(* (redact, then restore_cv_pii with the tokens numbered anew, then the    *)
(* page's own replacements).  What is downloaded is the same CV, and the   *)
(* letter beside it names the same candidate.                              *)
Agrees ==
  /\ vault.held
  /\ \A f \in {"name", "email", "phone", "linkedin", "location"} :
       vault[f] = cv[f]
  /\ vault.name = FullName
  /\ ~RefMailed(cv)
  /\ \A w \in WordsOf([cv EXCEPT !.refs = <<>>]) :
       /\ ~IsToken(w) /\ w = Canonical(w)
       /\ w[1] \in Personal => <<w>> = vault[w[1]]
       /\ w[1] # "date"
       /\ RefNamed(cv, w) # {} => vault.refs = cv.refs
ShownAsSaved ==
  Agrees =>
    /\ stage = "shown" => shown = cv
    /\ file.cv \in {NoCv, cv}
    /\ file.letter # <<>> => IsPrefix(cv.name, file.letter)
=============================================================================
