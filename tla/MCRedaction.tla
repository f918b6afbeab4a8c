----------------------------- MODULE MCRedaction -----------------------------
(***************************************************************************)
(* Instances of Redaction for TLC: every text of one word or of two        *)
(* different ones that a redactor changes, three that mention everything,  *)
(* three from a file that still holds placeholders, and some with a name   *)
(* in another spelling or a range of years.  One attempt tells the model   *)
(* personal words of its own, and every note on a flagged item holds one.  *)
(***************************************************************************)
EXTENDS Redaction, TLC

SomeWords == {<<"plain", 0>>, <<"name", 0>>, <<"email", 0>>, <<"phone", 0>>,
              <<"linkedin", 0>>, <<"slug", 0>>, <<"date", 9>>,
              <<"email", 9>>, <<"name", 1>>, <<"email", 1>>, <<"phone", 1>>}
Telling == SomeWords \ {<<"plain", 0>>, <<"slug", 0>>, <<"email", 9>>}
Everything == <<<<"name", 0>>, <<"email", 0>>, <<"phone", 0>>, <<"linkedin", 0>>,
                <<"plain", 0>>, <<"name", 0>>>>
References == <<<<"name", 1>>, <<"phone", 1>>, <<"email", 1>>>>
ShortTexts == {<<>>} \cup {<<w>> : w \in SomeWords}
                \cup {<<p[1], p[2]>> : p \in {q \in Telling \X Telling : q[1] # q[2]}}
Spellings == {<<<<"variant", 0>>>>, <<<<"handle", 0>>, <<"variant", 1>>>>,
               <<<<"name", 0>>, <<"variant", 0>>, <<"email", 0>>>>,
               <<<<"range", 0>>>>, <<<<"range", 0>>, <<"email", 0>>>>}
Texts == ShortTexts \cup Spellings \cup {Everything, Everything \o References,
                          <<<<"phone", 9>>>> \o Everything,
                          <<Bracket>>, <<<<"NAME", 0>>>>, <<<<"EMAIL", 1>>, <<"email", 0>>>>}

Reference(hasMail) ==
  [name |-> <<<<"name", 1>>>>, phone |-> <<<<"phone", 1>>>>,
   email |-> IF hasMail THEN <<<<"email", 1>>>> ELSE <<>>]
RefLists == {<<>>, <<Reference(TRUE)>>, <<Reference(FALSE)>>}

Of(p, refs) ==
  [held |-> TRUE, name |-> <<<<"name", p>>>>, email |-> <<<<"email", p>>>>,
   phone |-> <<<<"phone", p>>>>, dob |-> <<<<"date", p>>>>,
   linkedin |-> <<<<"linkedin", p>>>>, location |-> <<<<"city", p>>>>, refs |-> refs]
NoVault == [held |-> FALSE, name |-> <<>>, email |-> <<>>, phone |-> <<>>, dob |-> <<>>,
            linkedin |-> <<>>, location |-> <<>>, refs |-> <<>>]
NameAndCity == [NoVault EXCEPT !.held = TRUE, !.name = <<<<"name", 0>>>>,
                               !.location = <<<<"city", 0>>>>]

MCUploads == Texts
MCVaults == {NoVault, NameAndCity, Of(8, <<>>)} \cup {Of(0, refs) : refs \in RefLists}
(* With an address in it the posting, with her own name and a number the   *)
(* candidate's words.                                                      *)
Told(named, refs) ==
  [named |-> named, refs |-> refs, told |-> <<<<"email", 7>>, <<"plain", 7>>>>,
   rights |-> <<<<"name", 0>>>>, featured |-> <<<<"phone", 7>>>>]
Silent(named, refs) ==
  [Told(named, refs) EXCEPT !.told = <<>>, !.rights = <<>>, !.featured = <<>>]
MCAttempts == {Silent(TRUE, <<>>), Silent(FALSE, <<>>), Silent(TRUE, <<Reference(TRUE)>>),
               Told(TRUE, <<Reference(FALSE)>>)}
MCNotes == {<<<<"linkedin", 7>>>>}
=============================================================================
