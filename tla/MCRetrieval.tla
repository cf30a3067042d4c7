---------------------------- MODULE MCRetrieval ----------------------------
(***************************************************************************)
(* Retrieval for TLC: three primitives, two of which match the query's     *)
(* words; relations that form a path or a ring, one of them restricted;    *)
(* memories that agree, differ and contradict each other.                  *)
(***************************************************************************)
EXTENDS Retrieval, TLC

CONSTANTS e1, e2, e3, Ann, Bob, user, project, java, python, backend, style, preference,
          s1, s2, s3, s4, s5, s6, s7

MCIds == {e1, e2, e3}
MCMatches == <<e2, e1>>
MCSimilarity == (e1 :> 80) @@ (e2 :> 97) @@ (e3 :> 60)

T(trimmed, preferred, used, tokens) ==
  [trimmed |-> trimmed, preference |-> preferred, usage |-> used, tokens |-> tokens]

Prefers(value, context) == [subject |-> user, value |-> value, context |-> context]
Uses(value) == [subject |-> project, value |-> value]

Java == T(s1, Prefers(java, None), None, {java})
JavaBackend == T(s2, Prefers(java, backend), None, {java, backend})
PythonBackend == T(s3, Prefers(python, backend), None, {python, backend})
Python == T(s4, Prefers(python, None), None, {python})
UsesJava == T(s5, None, Uses(java), {project, java})
UsesPython == T(s6, None, Uses(python), {project, python})
Plain == T(s7, None, None, {project, java})

MCTexts == {Java, JavaBackend, PythonBackend, Python, UsesJava, UsesPython, Plain}

(* Only a directive has a domain.                                            *)
M(i, text, domain, created) ==
  [ id |-> i, name |-> None, summary |-> None,
    claim |-> IF domain = None THEN text ELSE None,
    statement |-> IF domain = None THEN None ELSE text,
    domain |-> domain, created |-> created ]

Contents(x, y, z) == (e1 :> x) @@ (e2 :> y) @@ (e3 :> z)

World(x, y, contents, edges, vectors) ==
  [ stored |-> (e1 :> x) @@ (e2 :> y) @@ (e3 :> "public"), content |-> contents,
    relations |-> edges, embeddings |-> vectors, aged |-> {e2} ]

Edge(i, j, tier) == [source |-> i, target |-> j, sensitivity |-> tier]

Path == {Edge(e1, e2, "internal"), Edge(e2, e3, "public"), Edge(e3, e1, "restricted")}
Ring == {Edge(e1, e2, "internal"), Edge(e3, e2, "public"), Edge(e3, e1, "public")}

(* One-sided domains and contexts; the same context; the same domain with    *)
(* two contexts; usages; the same text, more than 30 days apart.             *)
MCWorlds ==
  { World("internal", "public",
          Contents(M(e1, Java, style, 0), M(e2, Python, None, 0), M(e3, Java, style, 30)),
          Path, {e2, e3}),
    World("internal", "restricted",
          Contents(M(e1, UsesJava, None, 31), M(e2, UsesPython, None, 0), M(e3, UsesJava, None, 0)),
          Path, {e1, e2, e3}),
    World("public", "internal",
          Contents(M(e1, JavaBackend, preference, 0), M(e2, PythonBackend, style, 0),
                   M(e3, Python, preference, 0)),
          Ring, {e1, e2}),
    World(None, "internal",
          Contents(M(e1, Plain, None, 0), M(e2, Plain, None, 31), M(e3, UsesJava, None, None)),
          {Edge(e2, e3, "public")}, {e2, e3}) }

MCReaders == {Ann, Bob}
MCOperations == (Ann :> {"ranked", "keyword", "walk", "compare", "scan"}) @@ (Bob :> {"hybrid", "ranked"})
MCLimits == {1, 2}
MCOffsets == {1}
MCAlphas == {8}
MCDepths == {1, 4}
MCWords == {user, project, java, python, backend}
MCDomains == {style, preference}
MCDates == {0, 30, 31}
MCTrimmed == {s1, s2, s3, s4, s5, s6, s7}
=============================================================================
