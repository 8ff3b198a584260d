------------------------------ MODULE Reading ------------------------------
(***************************************************************************)
(* What the read commands compute from the tables of module Corpus         *)
(* (internal/corpus: read.go, incidents.go, outcomes.go, verify.go), and a *)
(* reader that drills into an incident in two queries while an ingest may  *)
(* commit in between.  Ranking, paging and sparklines are left out.        *)
(***************************************************************************)
EXTENDS Corpus, SequencesExt

CONSTANT NoReader       \* no trajectory is being read

\* "The corpus fidelity tests guarantee real sessions are well-formed": the parent
\* of a line is an earlier line of its file.  Only BranchesReach and ContextsHold depend on it.
WellFormed ==
    \A f \in File : f.kind = "session" => \A i \in DOMAIN f.content :
        f.content[i].parent # RootEntry => \E j \in 1..(i - 1) : f.content[j].id = f.content[i].parent

ASSUME ReadingAssumption == WellFormed

VARIABLE reading        \* the episode matched by the reader's first query

readingVars == <<corpusVars, reading>>

Held(d, k, id) == {e.line : e \in {x \in Mine(d, k) : x.line.id = id}}

(***************************************************************************)
(* The walk of ReadBranch and LiveContext along parent_id from a stored    *)
(* line: the lines met, leaf first, until the root, a parent that is not   *)
(* stored, or a line met before.                                           *)
(***************************************************************************)
Chain(d, k, leaf) ==
    LET Next(c) == IF c[Len(c)].parent = RootEntry THEN {}
                   ELSE Held(d, k, c[Len(c)].parent) \ Range(c)
        up[n \in 0..Cardinality(Mine(d, k))] ==
            IF n = 0 THEN <<leaf>>
            ELSE LET c == up[n - 1]
                 IN IF Next(c) = {} THEN c ELSE Append(c, CHOOSE l \in Next(c) : TRUE)
    IN up[Cardinality(Mine(d, k))]

ChainEnd(d, k, c) ==
    LET last == c[Len(c)]
    IN IF last.parent = RootEntry THEN "root"
       ELSE IF Held(d, k, last.parent) = {} THEN "dangling" ELSE "cycle"

\* The entries of a session whose line numbers are around one of them, and
\* ReadCanonical on a message ref: those around its own.
Window(d, k, center, before, after) ==
    {e \in Mine(d, k) : e.no \in (center - before)..(center + after)}

ReadWindow(d, k, id, before, after) ==
    UNION {Window(d, k, e.no, before, after) : e \in {x \in Mine(d, k) : x.line.id = id}}

NotReadable == [ok |-> FALSE, lines |-> <<>>]

ReadBranch(d, k, leaf) ==
    LET c == Chain(d, k, leaf)
    IN IF ChainEnd(d, k, c) # "root" THEN NotReadable ELSE [ok |-> TRUE, lines |-> Reverse(c)]

\* The lines of c with numbers in I, in order.
LinesAt(c, I) == [n \in 1..Cardinality(I) |-> Numbered(c, I)[n].line]

\* Mutant of CutAt: the anchor itself is left out.
CutAfter(c, i) == SubSeq(c, 1, i - 1)

CutAt(c, i) == SubSeq(c, 1, i)

\* LiveContext: the walk stops at the anchor of the first compaction it meets,
\* compactions come first (latest first), extension state takes no part.
LiveContext(d, k, leaf) ==
    LET c == Chain(d, k, leaf)
        Compacts(i) == c[i].kind = "compaction" /\ c[i].anchor # RootEntry
        latest  == {i \in DOMAIN c : Compacts(i) /\ ~\E j \in 1..(i - 1) : Compacts(j)}
        anchors == {i \in DOMAIN c : \E m \in latest : i >= m /\ c[i].id = c[m].anchor}
        seen    == IF anchors = {} THEN c ELSE CutAt(c, CHOOSE i \in anchors : TRUE)
        summaries == {i \in DOMAIN seen : seen[i].kind = "compaction"}
        turns == {i \in DOMAIN seen : seen[i].kind \notin {"compaction", "custom"}}
    IN IF anchors = {} /\ (latest # {} \/ ChainEnd(d, k, c) # "root") THEN NotReadable
       ELSE [ok |-> TRUE, lines |-> LinesAt(seen, summaries) \o Reverse(LinesAt(seen, turns))]

(***************************************************************************)
(* Incidents: the episodes grouped by family and signature, under the      *)
(* facets of a filter; a state filter is a HAVING on the same sums that    *)
(* incidentState classifies.                                               *)
(***************************************************************************)
InFacet(r, facet) == facet = {} \/ r.key.machine \in facet

IncidentState(resolved, episodes) ==
    IF resolved <= 0 THEN "unresolved"
    ELSE IF resolved >= episodes THEN "resolved" ELSE "partial"

IncidentHaving(state, resolved, episodes) ==
    CASE state = "unresolved" -> resolved = 0
      [] state = "partial" -> resolved > 0 /\ resolved < episodes
      [] state = "resolved" -> resolved = episodes
      [] OTHER -> TRUE

CandidateTier(resolved, sessions) ==
    IF resolved >= 3 /\ sessions >= 2 THEN "established" ELSE "tentative"

Cluster(r) == [family |-> r.ep.family, sig |-> r.ep.sig]
Fixed(rows) == {r \in rows : r.ep.fix # NoFix}

\* resolutionPaths: one per distinct path, sampled from its newest row; rows of
\* one time are told apart by session and opener, left open here.
ResolutionPaths(rows) ==
    {[path |-> p, support |-> Cardinality({r \in Fixed(rows) : r.ep.fix.path = p}),
      samples |-> {[key |-> r.key, entry |-> r.ep.fix.entry, ord |-> r.ep.fix.ord] :
                      r \in {x \in Fixed(rows) : x.ep.fix.path = p}}] :
        p \in {r.ep.fix.path : r \in Fixed(rows)}}

Incidents(d, facet, state) ==
    LET scope == {r \in d.episodes : InFacet(r, facet)}
        Of(cl) == {r \in scope : Cluster(r) = cl}
        Having(rows) == IncidentHaving(state, Cardinality(Fixed(rows)), Cardinality(rows))
    IN {[cluster  |-> cl, episodes |-> Cardinality(Of(cl)), resolved |-> Cardinality(Fixed(Of(cl))),
         sessions |-> Cardinality({r.key : r \in Of(cl)}),
         state    |-> IncidentState(Cardinality(Fixed(Of(cl))), Cardinality(Of(cl))),
         tier     |-> IF Fixed(Of(cl)) = {} THEN ""
                      ELSE CandidateTier(Cardinality(Fixed(Of(cl))),
                                         Cardinality({r.key : r \in Fixed(Of(cl))})),
         paths    |-> ResolutionPaths(Of(cl)),
         failures |-> {[key |-> r.key, entry |-> r.ep.entry] : r \in Of(cl)}] :
           cl \in {c \in {Cluster(r) : r \in scope} : Having(Of(c))}}

(***************************************************************************)
(* IncidentTrajectory, from the resolving success a path's sample names.   *)
(* Its order is written out in the code a second time and is Before again. *)
(***************************************************************************)
Matches(d, k, entry, ord) ==
    {r \in d.episodes : r.key = k /\ r.ep.fix # NoFix /\ r.ep.fix.entry = entry /\ r.ep.fix.ord = ord}

\* Mutant of ArcOrder: by line number alone.
ArcByLine(invs) ==
    LET Timeless(x) == [x EXCEPT !.at = NoTime]
    IN [i \in 1..Cardinality(invs) |->
           CHOOSE x \in invs :
               Cardinality({y \in invs : Before(Timeless(y), Timeless(x))}) = i - 1]

ArcOrder(invs) == InOrder(invs)

Arc(d, k, opener, fix) ==
    LET s  == ArcOrder(InvocationsOf(d, k))
        At(c) == {i \in DOMAIN s : s[i].entry = c.entry /\ s[i].ord = c.ord}
    IN IF At(opener) = {} \/ At(fix) = {} THEN <<>>
       ELSE SubSeq(s, CHOOSE i \in At(opener) : TRUE, CHOOSE i \in At(fix) : TRUE)

(***************************************************************************)
(* workspace verify: what each of its queries counts.                      *)
(***************************************************************************)
VerifyProblems(d) ==
    LET Backed(r) == \E e \in d.entries : e.key = r.key /\ e.line.id = r.entry
        TextRows  == {x \in d.fts : x \notin d.artifacts}
        Has(code, bad) == IF bad = {} THEN {} ELSE {code}
    IN Has("orphan_messages", {m \in d.messages : ~Backed(m)})
         \cup Has("orphan_artifacts", {a \in d.artifacts : a.snapshot \notin d.snapshots})
         \cup Has("orphan_fts", TextRows \ {[key |-> m.key, entry |-> m.entry] : m \in d.messages})
         \cup Has("missing_fts", Indexable(d) \ d.fts)
         \cup Has("orphan_tool_invocations",
                  {r \in d.invocations : ~Backed([key |-> r.key, entry |-> r.inv.entry])})
         \cup Has("orphan_redactions", {r \in d.redactions : ~Backed(r)})

(***************************************************************************)
(* The reader: the trajectory's two queries are two statements on the      *)
(* committed database.                                                     *)
(***************************************************************************)
ReadingInit == CorpusInit /\ reading = NoReader

MatchEpisode ==
    /\ reading = NoReader
    /\ \E r \in Fixed(db.episodes) :
          reading' = [key |-> r.key, opener |-> [entry |-> r.ep.entry, ord |-> r.ep.ord],
                      fix |-> [entry |-> r.ep.fix.entry, ord |-> r.ep.fix.ord]]
    /\ UNCHANGED corpusVars

ReadArc == reading # NoReader /\ reading' = NoReader /\ UNCHANGED corpusVars

ReadingNext == (CorpusNext /\ UNCHANGED reading) \/ MatchEpisode \/ ReadArc

ReadingSpec == ReadingInit /\ [][ReadingNext]_readingVars

(***************************************************************************)
(* Properties.                                                             *)
(***************************************************************************)
\* Whatever was downloaded, in whatever order, a branch of a stored session leads
\* to its root, or to a parent a conflict row accounts for; it never runs in a
\* circle ("the corpus fidelity tests guarantee real sessions are well-formed").
BranchesReach ==
    AtRest => \A e \in db.entries :
        LET c == Chain(db, e.key, e.line) IN
        \/ ReadBranch(db, e.key, e.line).ok
        \/ /\ ChainEnd(db, e.key, c) = "dangling"
           /\ \E x \in db.conflicts : x.key = e.key /\ x.entry = c[Len(c)].parent

\* The context a file itself tells: line j and the lines above it, of those the latest
\* compaction that has an anchor, and everything from its anchor on, compactions first
\* and the latest of them first; an error if the anchor is not among them.
Ancestors(file, j) ==
    LET Up(i) == {p \in DOMAIN file : file[i].parent # RootEntry /\ file[p].id = file[i].parent}
        up[n \in 0..Len(file)] ==
            IF n = 0 THEN {j} ELSE up[n - 1] \cup UNION {Up(i) : i \in up[n - 1]}
    IN up[Len(file)]

FileContext(file, j) ==
    LET path      == Ancestors(file, j)
        anchored  == {i \in path : file[i].kind = "compaction" /\ file[i].anchor # RootEntry}
        latest    == {m \in anchored : \A n \in anchored : n <= m}
        anchors   == {i \in path : \E m \in latest : i <= m /\ file[i].id = file[m].anchor}
        kept      == {i \in path : \A a \in anchors : a <= i}
        summaries == {i \in kept : file[i].kind = "compaction"}
        turns     == {i \in kept : file[i].kind \notin {"compaction", "custom"}}
    IN IF latest # {} /\ anchors = {} THEN NotReadable
       ELSE [ok |-> TRUE, lines |-> Reverse(LinesAt(file, summaries)) \o LinesAt(file, turns)]

\* For a session no conflict touches, the live context of every line of a version
\* that repeats none is what the version's own file says the agent saw, wherever the
\* session's other versions end and whatever files it is split over.
ContextsHold ==
    AtRest => \A v \in {x \in db.versions : ~\E c \in db.conflicts : c.key = x.key} :
        (\A i, j \in DOMAIN v.content : v.content[i] = v.content[j] => i = j) =>
            \A j \in DOMAIN v.content :
                LiveContext(db, v.key, v.content[j]) = FileContext(v.content, j)

\* Every sample an incident offers opens and leads somewhere: the resolving call it
\* names belongs to one episode, whose arc runs from the failing call over exactly
\* the families of the path it was offered for.
SamplesLead ==
    AtRest => \A x \in Incidents(db, {}, "") : \A p \in x.paths : \A s \in p.samples :
        \E m \in Matches(db, s.key, s.entry, s.ord) :
            /\ Matches(db, s.key, s.entry, s.ord) = {m}
            /\ \E e \in ReadWindow(db, s.key, s.entry, 0, 0) : e.line.id = s.entry
            /\ LET arc == Arc(db, s.key, m.ep, m.ep.fix) IN
               /\ arc # <<>> /\ arc[1].error /\ arc[1].family = x.cluster.family
               /\ p.path = [i \in 1..(Len(arc) - 1) |-> arc[i + 1].family]

\* A reader who matched an episode before a commit and reads its calls after it
\* still gets an arc from a failure to a success, though the episode itself may
\* have been re-anchored meanwhile.
ArcsHold ==
    reading # NoReader =>
        LET arc == Arc(db, reading.key, reading.opener, reading.fix) IN
        /\ arc # <<>> /\ arc[1].error /\ ~arc[Len(arc)].error
        /\ arc[1].family = arc[Len(arc)].family

\* What verify reports is damage: no ingest, rollback, duplicate or policy leaves
\* a row without the row it stands on, or text without its index row, and a
\* reconciliation leaves none either.
VerifyClean == ~indexLost => VerifyProblems(db) = {}
=============================================================================
