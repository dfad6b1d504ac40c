----------------------------- MODULE Translator -----------------------------
(***************************************************************************)
(* i18n::Translator: the text of a key in the language that is set, or in  *)
(* the first of its fallbacks that has one.  The tables are generated; a   *)
(* text is a string, and "" one that is not translated yet.                *)
(***************************************************************************)
EXTENDS Naturals, Sequences, FiniteSetsExt

CONSTANTS
  Keys,            \* the translation keys
  Texts,           \* Texts[language][key], the tables that are generated
  kDefault,        \* LanguageId::kDefault
  Unlisted,        \* a LanguageId without a table
  kMaxFallbacks    \* the size of fallback_languages

ASSUME TranslatorAssumption ==
  /\ Texts \in [DOMAIN Texts -> [Keys -> STRING]]
  /\ kDefault \in DOMAIN Texts
  /\ \A key \in Keys : Texts[kDefault][key] # ""
  /\ Unlisted \notin DOMAIN Texts
  /\ kMaxFallbacks \in Nat

Languages == DOMAIN Texts \cup {Unlisted}

VARIABLE config  \* config_: primary language, fallbacks, skip_empty_strings

ConfigsWith(primary, fallbacks, skip_empty) ==
  [primary |-> primary, fallbacks |-> fallbacks, skip_empty |-> skip_empty]

CreateDefault(lang) == ConfigsWith(lang, << >>, TRUE)

\* The chain regional() builds is not the one it returns.
CreateRegional(lang) == CreateDefault(lang)

----------------------------------------------------------------------------

HasTable(lang) == lang \in DOMAIN Texts

Accepted(c, lang, key) ==
  HasTable(lang) /\ (c.skip_empty => Texts[lang][key] # "")

Translate(c, key) ==
  LET chain == <<c.primary>> \o c.fallbacks
      found == {i \in DOMAIN chain : Accepted(c, chain[i], key)}
  IN  Texts[IF found = {} THEN kDefault ELSE chain[Min(found)]][key]

\* What stands in the buffer of translate_fmt_to(), which writes no NUL behind
\* the text: the string read from it goes on until there happens to be one.
Formatted(c, key, args, tail) ==
  [text |-> Translate(c, key), args |-> args, tail |-> tail]

Plain(c, key) == [text |-> Translate(c, key), args |-> 0, tail |-> FALSE]

----------------------------------------------------------------------------

SetLanguage(lang) == config' = [config EXCEPT !.primary = lang]

SetConfig(lang, fallbacks, skip_empty) ==
  /\ Len(fallbacks) <= kMaxFallbacks
  /\ config' = ConfigsWith(lang, fallbacks, skip_empty)
============================================================================
