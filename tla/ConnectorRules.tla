---------------------------- MODULE ConnectorRules ----------------------------
(* The pure part of packages/connectors: which external records a scope lets  *)
(* in, how the two providers page through their records, and which provider   *)
(* an environment may run.                                                    *)
(*                                                                            *)
(* A text is a sequence of symbols, case already folded. A pattern is the     *)
(* sequence of its pieces between stars, and whether it has a star. Dates are *)
(* numbers, Missing the absent value; project references found in a text by   *)
(* the regular expressions come with the record.                              *)
EXTENDS Integers, Sequences, SequencesExt

CONSTANT Missing

PageSize == 2

OccursAt(part, text, i) == /\ i + Len(part) - 1 <= Len(text)
                           /\ SubSeq(text, i, i + Len(part) - 1) = part
Occurrences(part, text, from) ==
  {i \in from .. Len(text) + 1 : OccursAt(part, text, i)}

(* Mutant: the search for a piece starts on the piece before it. *)
AfterPartsOverlapping(parts, text) ==
  LET after[n \in 0 .. Len(parts)] ==
        IF n = 0 THEN 1
        ELSE LET found == Occurrences(parts[n], text, after[n - 1])
             IN IF after[n - 1] = 0 \/ found = {} THEN 0 ELSE Min(found)
  IN after[Len(parts)]

(* Each piece is searched from the end of the piece before it, the first      *)
(* occurrence taken; 0 when a piece is not found. Nothing anchors the first   *)
(* piece to the start of the text nor the last one to its end.                *)
AfterParts(parts, text) ==
  LET after[n \in 0 .. Len(parts)] ==
        IF n = 0 THEN 1
        ELSE LET found == Occurrences(parts[n], text, after[n - 1])
             IN IF after[n - 1] = 0 \/ found = {} THEN 0 ELSE Min(found) + Len(parts[n])
  IN after[Len(parts)]

MatchesPattern(pattern, text) ==
  IF pattern.star THEN AfterParts(pattern.parts, text) # 0
  ELSE \A n \in DOMAIN pattern.parts : Occurrences(pattern.parts[n], text, 1) # {}

MatchesAnyPattern(patterns, text) == \E p \in patterns : MatchesPattern(p, text)

MatchesIncludeExclude(include, exclude, text) ==
  /\ ~MatchesAnyPattern(exclude, text)
  /\ include # {} => MatchesAnyPattern(include, text)

(* A date that does not parse is Missing: a record's is out of every range, a *)
(* bound's is no bound.                                                       *)
IsWithinDateRange(date, from, to) ==
  /\ date # Missing
  /\ from # Missing => date >= from
  /\ to # Missing => date <= to

MatchesProjectReference(patterns, references) ==
  patterns # {} => \E ref \in references : MatchesAnyPattern(patterns, ref)

(* A media type is its two halves; an allowed one may end in a star.          *)
IsMimeAllowed(mime, allowlist) ==
  \/ allowlist = {}
  \/ /\ mime # Missing
     /\ \E allowed \in allowlist : allowed[1] = mime[1] /\ allowed[2] \in {"*", mime[2]}

References(record) == IF record.references # {} THEN record.references ELSE record.extracted

RecordMatchesScope(rules, record) ==
  CASE ~MatchesIncludeExclude(rules.include, rules.exclude, record.text) ->
         "INCLUDE_EXCLUDE_MISMATCH"
    [] ~IsWithinDateRange(record.date, rules.from, rules.to) -> "DATE_OUT_OF_RANGE"
    [] ~MatchesProjectReference(rules.projects, References(record)) ->
         "PROJECT_REFERENCE_MISMATCH"
    [] ~IsMimeAllowed(record.mime, rules.mimes) -> "MIME_NOT_ALLOWED"
    [] OTHER -> "OK"

TestScopeAccess(rules, fixtures) ==
  Cardinality({i \in DOMAIN fixtures : RecordMatchesScope(rules, fixtures[i]) = "OK"})

------------------------------------------------------------------------------
(* Paging. A provider object keeps a cursor of its own and takes the          *)
(* checkpoint's when it carries one; the cursor counts the records listed.    *)

Slice(fixtures, from, to) == SubSeq(fixtures, from + 1, Min({to, Len(fixtures)}))

FakeListChangedRecords(fixtures, checkpoint, own) ==
  LET cursor == IF checkpoint = Missing THEN own ELSE checkpoint
      page   == Slice(fixtures, cursor, cursor + PageSize)
      next   == cursor + Len(page)
  IN [records |-> page, next |-> next, hasMore |-> next < Len(fixtures)]

LocalListChangedRecords(fixtures, checkpoint) ==
  LET offset == IF checkpoint = Missing THEN 0 ELSE checkpoint
  IN [records |-> Slice(fixtures, offset, Len(fixtures)), next |-> Len(fixtures),
      hasMore |-> FALSE]

ListChangedRecords(kind, fixtures, checkpoint) ==
  IF kind = "fake" THEN FakeListChangedRecords(fixtures, checkpoint, 0)
  ELSE LocalListChangedRecords(fixtures, checkpoint)

(* A sync run asks one provider object page after page, from the stored       *)
(* checkpoint on, until a page says that nothing more follows.                *)
ListedByRun(kind, fixtures, checkpoint) ==
  LET after[n \in 0 .. Len(fixtures) + 1] ==
        IF n = 0 THEN [listed |-> <<>>, checkpoint |-> checkpoint, hasMore |-> TRUE]
        ELSE LET was  == after[n - 1]
                 page == ListChangedRecords(kind, fixtures, was.checkpoint)
             IN IF ~was.hasMore THEN was
                ELSE [listed |-> was.listed \o page.records, checkpoint |-> page.next,
                      hasMore |-> page.hasMore]
  IN after[Len(fixtures) + 1]

(* A webhook's signature is checked first, then its event id is looked up in  *)
(* the set the process keeps, then added to it.                               *)
ValidateWebhook(signed, parses, eventId, seen) ==
  CASE ~signed -> [ok |-> FALSE, reason |-> "INVALID_SIGNATURE", seen |-> seen]
    [] signed /\ ~parses -> [ok |-> FALSE, reason |-> "INVALID_PAYLOAD", seen |-> seen]
    [] signed /\ parses /\ eventId \in seen ->
         [ok |-> FALSE, reason |-> "REPLAY_DETECTED", seen |-> seen]
    [] OTHER -> [ok |-> TRUE, reason |-> "none", seen |-> seen \cup ({eventId} \ {Missing})]

ConnectorProviderAllowed(kind, appEnv) ==
  ~(kind = "fake" /\ appEnv \in {"production", "staging"})
CreateConnectorProvider(kind, appEnv) ==
  CASE kind \in {"none", "empty"} -> "NONE"
    [] kind = "fake" -> IF ConnectorProviderAllowed(kind, appEnv) THEN "fake" ELSE "REFUSED"
    [] kind \in {"local_fixture", "local"} -> "local_fixture"
    [] OTHER -> "REFUSED"

------------------------------------------------------------------------------
(* What a glob means: its pieces occur in the text in order, without overlap. *)
Placements(parts, text) ==
  {at \in [DOMAIN parts -> 1 .. Len(text) + 1] :
     \A n \in DOMAIN parts :
       /\ OccursAt(parts[n], text, at[n])
       /\ n > 1 => at[n - 1] + Len(parts[n - 1]) <= at[n]}
GlobMeans(pattern, text) ==
  IF pattern.star THEN Placements(pattern.parts, text) # {}
  ELSE \A n \in DOMAIN pattern.parts : \E i \in 1 .. Len(text) + 1 :
         OccursAt(pattern.parts[n], text, i)
==============================================================================
