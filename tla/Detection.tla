----------------------------- MODULE Detection -----------------------------
(***************************************************************************)
(* ContradictionDetector and DuplicateDetector (packages/consolidation):   *)
(* what two memories are to each other.  Both look at every pair of a list *)
(* once, in list order.                                                    *)
(*                                                                         *)
(* Each takes a text from a memory in its own way.  One compares the text  *)
(* in lower case without the blanks around it; the other parses it as a    *)
(* preference ("X prefers Y for Z"), as a usage ("X uses Y"), and into the *)
(* words that may name a subject.  Of embeddings only the pairs matter     *)
(* whose cosine is at least 0.88.                                          *)
(***************************************************************************)
EXTENDS Integers, FiniteSets, SequencesExt

CONSTANTS
  Ids,       \* ids of memories
  Words,     \* lower-case words
  Texts,     \* the texts that memories hold
  Trimmed,   \* texts in lower case without blanks around them
  Empty,     \* what that leaves of blanks
  Domains,   \* the domain field of a directive
  Dates,     \* created_at, in days
  None       \* null, or a field the type does not have

Preference == [subject : Words, value : Words, context : Words \cup {None}]

Usage == [subject : Words, value : Words]

(* toLowerCase().trim(); parsePreference and parseUsageStatement, or null;   *)
(* subjectTokens.                                                            *)
Text ==
  [ trimmed    : Trimmed \cup {Empty},
    preference : Preference \cup {None},
    usage      : Usage \cup {None},
    tokens     : SUBSET Words ]

Memory ==
  [ id        : Ids,
    name      : Texts \cup {None},
    claim     : Texts \cup {None},
    statement : Texts \cup {None},
    summary   : Texts \cup {None},
    domain    : Domains \cup {None},
    created   : Dates \cup {None} ]

ASSUME TextAssumption ==
  /\ Texts \subseteq Text
  /\ Dates \subseteq Nat
  /\ None \notin Words /\ None \notin Dates /\ None \notin Domains
  /\ None \notin Texts /\ None \notin Preference /\ None \notin Usage

-----------------------------------------------------------------------------
(* ContradictionDetector.                                                  *)

(* extractText; none of the texts is the empty string.                       *)
ExtractText(p) ==
  IF p.claim # None THEN p.claim
  ELSE IF p.statement # None THEN p.statement
  ELSE IF p.name # None THEN p.name
  ELSE p.summary

(* The scope of the first preference decides.                                *)
SharedScopeOfFirst(p, q) ==
  LET c == ExtractText(p).preference.context
      d == ExtractText(q).preference.context
  IN  \/ c # None /\ c = d
      \/ IF p.domain # None THEN p.domain = q.domain ELSE c = None /\ d = None

(* hasSharedPreferenceScope: the same context; or else, where a memory has a *)
(* domain, the same domain; or else neither says a context.                  *)
SharedScope(p, q) ==
  LET c == ExtractText(p).preference.context
      d == ExtractText(q).preference.context
  IN  \/ c # None /\ c = d
      \/ IF p.domain # None \/ q.domain # None
         THEN p.domain # None /\ p.domain = q.domain
         ELSE c = None /\ d = None

(* Rule 1.                                                                   *)
PreferencesConflict(p, q) ==
  LET x == ExtractText(p).preference
      y == ExtractText(q).preference
  IN  x # None /\ y # None /\ x.subject = y.subject /\ x.value # y.value
        /\ SharedScope(p, q)

(* Rule 2.                                                                   *)
UsagesConflict(p, q) ==
  LET x == ExtractText(p).usage
      y == ExtractText(q).usage
  IN  x # None /\ y # None /\ x.subject = y.subject /\ x.value # y.value

(* Rule 3: more than 30 days apart, two words in common.                     *)
Outdates(p, q) ==
  /\ p.created # None /\ q.created # None
  /\ p.created - q.created > 30 \/ q.created - p.created > 30
  /\ Cardinality(ExtractText(p).tokens \cap ExtractText(q).tokens) >= 2

Conflict(kind, p, q) == [conflict |-> kind, a |-> p, b |-> q]

(* evaluatePairContradiction: the first rule that applies, as a set of at    *)
(* most one report; the older of two facts comes first.                      *)
PairContradiction(p, q) ==
  IF p.id = q.id \/ ExtractText(p) = None \/ ExtractText(q) = None THEN {}
  ELSE IF PreferencesConflict(p, q) THEN {Conflict("PREFERENCE_CONFLICT", p, q)}
  ELSE IF UsagesConflict(p, q) THEN {Conflict("CONTRADICTING_ASSERTION", p, q)}
  ELSE IF ~ Outdates(p, q) THEN {}
  ELSE IF p.created < q.created THEN {Conflict("OUTDATED_FACT", p, q)}
  ELSE {Conflict("OUTDATED_FACT", q, p)}

PairsInOrder(list) == { pair \in (DOMAIN list) \X (DOMAIN list) : pair[1] < pair[2] }

FindContradictions(list) ==
  UNION { PairContradiction(list[pair[1]], list[pair[2]]) : pair \in PairsInOrder(list) }

-----------------------------------------------------------------------------
(* DuplicateDetector.                                                      *)

(* extractSearchableText, in an order of its own.                            *)
ExtractSearchableText(p) ==
  IF p.name # None THEN p.name
  ELSE IF p.claim # None THEN p.claim
  ELSE IF p.statement # None THEN p.statement
  ELSE p.summary

SameText(p, q) ==
  LET s == ExtractSearchableText(p)
      t == ExtractSearchableText(q)
  IN  s # None /\ t # None /\ s.trimmed # Empty /\ s.trimmed = t.trimmed

(* The JCS digest covers the id, so two memories never have the same one;    *)
(* embeddings are compared before texts.                                     *)
PairDuplicate(p, q, similar) ==
  IF p.id = q.id THEN {}
  ELSE IF {p.id, q.id} \in similar THEN {[match |-> "vector_similarity", pair |-> {p, q}]}
  ELSE IF SameText(p, q) THEN {[match |-> "text_exact", pair |-> {p, q}]}
  ELSE {}

FindDuplicates(list, similar) ==
  UNION { PairDuplicate(list[pair[1]], list[pair[2]], similar) : pair \in PairsInOrder(list) }
=============================================================================
