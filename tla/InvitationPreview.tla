-------------------------- MODULE InvitationPreview --------------------------
(***************************************************************************)
(* The preview of a context invitation from the text a user typed to the   *)
(* text the recipient is shown (rust/src/api/account_envelope/             *)
(* invitation.rs): what sealing canonicalizes, what fits its padding       *)
(* class, and what opening accepts.                                        *)
(*                                                                         *)
(* A text is a sequence of characters of an alphabet with the properties   *)
(* the code asks about: white space, full case folding, and canonical      *)
(* composition (NFC) with its quick check, whose answer for a combining    *)
(* mark is Maybe whether or not the mark can be composed away.             *)
(***************************************************************************)
EXTENDS Naturals, Sequences, SequencesExt, FiniteSets

CONSTANTS
  MaxTitle,    \* INVITATION_TITLE_MAX_BYTES
  MaxTag,      \* INVITATION_TAG_MAX_BYTES
  MaxTags,     \* INVITATION_TAG_MAX_COUNT
  Padding      \* plaintext bytes of a padding class

ASSUME PreviewAssumption == {MaxTitle, MaxTag, MaxTags, Padding} \subseteq Nat

Char == {"space", "e", "acute", "e_acute", "x", "s", "S", "sharp_s"}

\* UTF-8 bytes of a character.
Width(char) == IF char \in {"acute", "e_acute", "sharp_s"} THEN 2 ELSE 1

Bytes(text) == FoldLeft(LAMBDA n, char : n + Width(char), 0, text)

WhiteSpace == {"space"}

(* unicode-normalization: an acute accent composes with the e before it,   *)
(* and with nothing else here.                                             *)
Compose(text, char) ==
  IF char = "acute" /\ text # << >> /\ Last(text) = "e"
    THEN Append(Front(text), "e_acute")
    ELSE Append(text, char)

Nfc(text) ==
  LET read[n \in 0 .. Len(text)] ==
        IF n = 0 THEN << >> ELSE Compose(read[n - 1], text[n])
  IN  read[Len(text)]

QuickCheckYes(text) == \A i \in DOMAIN text : text[i] # "acute"

\* default_case_fold: full folding may lengthen a text.
FoldChar(char) ==
  CASE char = "S" -> <<"s">>
    [] char = "sharp_s" -> <<"s", "s">>
    [] OTHER -> <<char>>

CaseFold(text) ==
  FoldLeft(LAMBDA folded, char : folded \o FoldChar(char), << >>, text)

FoldedDuplicates(tags) ==
  \E i, j \in DOMAIN tags : i # j /\ CaseFold(tags[i]) = CaseFold(tags[j])

-----------------------------------------------------------------------------
(* Sealing *)

Trimmed(text) ==
  LET kept == {i \in DOMAIN text : text[i] \notin WhiteSpace}
  IN  IF kept = {} THEN << >>
      ELSE SubSeq(text, CHOOSE i \in kept : \A j \in kept : i <= j,
                        CHOOSE i \in kept : \A j \in kept : i >= j)

\* Mutant: white space around the text is kept.
NormalizedUntrimmed(text) == Nfc(text)

Normalized(text) == Nfc(Trimmed(text))

Bounded(text, maxBytes) ==
  Trimmed(text) # << >> /\ Bytes(Normalized(text)) <= maxBytes

\* A title is a sequence of at most one text.
Canonical(preview) ==
  [title |-> [i \in DOMAIN preview.title |-> Normalized(preview.title[i])],
   tags  |-> [i \in DOMAIN preview.tags |-> Normalized(preview.tags[i])]]

Size(preview) ==
  FoldLeft(LAMBDA n, text : n + 2 + Bytes(text), 2,
           preview.title \o preview.tags)

Fits(inner) == Size(inner) <= Padding - 2

MaySeal(preview) ==
  LET canonical == Canonical(preview)
  IN  /\ Len(preview.tags) <= MaxTags
      /\ \A i \in DOMAIN preview.title : Bounded(preview.title[i], MaxTitle)
      /\ \A i \in DOMAIN preview.tags : Bounded(preview.tags[i], MaxTag)
      /\ ~FoldedDuplicates(canonical.tags)
      /\ Fits(canonical)

-----------------------------------------------------------------------------
(* Opening *)

CanonicalText(text) ==
  /\ text # << >>
  /\ {text[1], Last(text)} \cap WhiteSpace = {}
  /\ QuickCheckYes(text)

MayShow(inner) ==
  /\ \A i \in DOMAIN inner.title :
       Bytes(inner.title[i]) <= MaxTitle /\ CanonicalText(inner.title[i])
  /\ Len(inner.tags) <= MaxTags
  /\ \A i \in DOMAIN inner.tags :
       Bytes(inner.tags[i]) <= MaxTag /\ CanonicalText(inner.tags[i])
  /\ ~FoldedDuplicates(inner.tags)

-----------------------------------------------------------------------------

Texts(preview) == {preview.title[i] : i \in DOMAIN preview.title}
                    \cup {preview.tags[i] : i \in DOMAIN preview.tags}

(* The sealed text holds no combining mark.  Sealing composes the marks    *)
(* that can be composed and leaves the others.                             *)
Composed(inner) == \A text \in Texts(inner) : QuickCheckYes(text)
=============================================================================
