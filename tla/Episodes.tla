------------------------------ MODULE Episodes ------------------------------
(***************************************************************************)
(* How tool calls become invocations and invocations become failure        *)
(* episodes (internal/corpus: clusters.go, episodes.go).  Pure functions:  *)
(* the ingest of module Corpus stores what they return.                    *)
(*                                                                         *)
(* A parsed entry is [line, no]: a transcript line and its line number.    *)
(* A line says what its calls are and which results it carries; Anonymous  *)
(* marks a call without a tool_use_id and a result without a ForID.        *)
(* Entry IDs are numbers, compared where the code compares strings.        *)
(***************************************************************************)
EXTENDS FiniteSets, Integers, Sequences

CONSTANTS
    Anonymous,  \* no tool_use_id
    NoTime,     \* a timestamp that does not parse
    NoFix,      \* the resolve_* columns of an abandoned episode
    MaxGap,     \* EpisodeConfig.MaxGap
    MaxSteps    \* EpisodeConfig.MaxSteps

ASSUME EpisodesAssumption ==
    /\ NoTime \notin Nat /\ MaxGap \in Nat /\ MaxSteps \in Nat \ {0}
    /\ NoFix \notin [entry : Nat, ord : Nat, path : Seq(STRING)]

(***************************************************************************)
(* BuildToolInvocations: calls and results in encounter order.  A keyed    *)
(* call takes the first result with its ID; the n-th anonymous call takes  *)
(* the n-th anonymous result, whichever lines they are on.                 *)
(***************************************************************************)
CallsIn(es)   == UNION {{<<i, j>> : j \in DOMAIN es[i].line.calls} : i \in DOMAIN es}
ResultsIn(es) == UNION {{<<i, j>> : j \in DOMAIN es[i].line.results} : i \in DOMAIN es}
Call(es, c)   == es[c[1]].line.calls[c[2]]
Outcome(es, r) == es[r[1]].line.results[r[2]]

Sooner(p, q)  == p[1] < q[1] \/ (p[1] = q[1] /\ p[2] < q[2])
Rank(p, S)    == Cardinality({q \in S : Sooner(q, p)})

OutcomesOf(es, c) ==
    LET tool  == Call(es, c).tool
        given == {r \in ResultsIn(es) : Outcome(es, r).for = tool}
        turn  == IF tool = Anonymous
                 THEN Rank(c, {d \in CallsIn(es) : Call(es, d).tool = Anonymous}) ELSE 0
    IN {r \in given : Rank(r, given) = turn}

Invocation(es, c, r) ==
    [entry |-> es[c[1]].line.id, tool |-> Call(es, c).tool, ord |-> c[2],
     family |-> Call(es, c).family, at |-> es[c[1]].line.at,
     error |-> Outcome(es, r).error, sig |-> Outcome(es, r).sig]

\* A copy of a line (same ID, same bytes) has calls with the keys of the line's
\* own: of those with an outcome the insert takes the first and ignores the rest.
FirstOfItsKey(es, c) ==
    ~\E d \in CallsIn(es) :
        /\ Sooner(d, c) /\ es[d[1]].line.id = es[c[1]].line.id /\ d[2] = c[2]
        /\ Call(es, d).tool = Call(es, c).tool /\ OutcomesOf(es, d) # {}

BuildToolInvocations(es) ==     \* those with an observed outcome
    UNION {{Invocation(es, c, r) : r \in OutcomesOf(es, c)} :
              c \in {x \in CallsIn(es) : FirstOfItsKey(es, x)}}

(***************************************************************************)
(* sortInvocations: unparseable times first, then time, line, entry and    *)
(* ordinal.  An invocation here also has the line number of its entry.     *)
(***************************************************************************)
Before(a, b) ==
    LET Tie == \/ a.no < b.no
               \/ a.no = b.no /\ a.entry < b.entry
               \/ a.no = b.no /\ a.entry = b.entry /\ a.ord < b.ord
    IN IF a.at = NoTime \/ b.at = NoTime
       THEN IF a.at = b.at THEN Tie ELSE a.at = NoTime
       ELSE a.at < b.at \/ (a.at = b.at /\ Tie)

InOrder(invs) ==
    [i \in 1..Cardinality(invs) |->
        CHOOSE x \in invs : Cardinality({y \in invs : Before(y, x)}) = i - 1]

(***************************************************************************)
(* assembleSession scans the invocations once.  At most one episode per    *)
(* command family is open; any success of the family closes it, as its     *)
(* resolution when it comes within the budget.                             *)
(***************************************************************************)
WithinBudget(s, opener, i) ==
    /\ i - opener + 1 <= MaxSteps
    /\ s[opener].at # NoTime /\ s[i].at # NoTime => s[i].at - s[opener].at <= MaxGap

OpenAfter(s) ==     \* the openers of the episodes open after each invocation
    LET open[i \in 0..Len(s)] ==
            IF i = 0 THEN {}
            ELSE LET was  == open[i - 1]
                     mine == {o \in was : s[o].family = s[i].family}
                 IN IF ~s[i].error THEN was \ mine
                    ELSE IF mine = {} THEN was \cup {i} ELSE was
    IN open

\* Mutant of Fix: the path ends before the resolving call.
FixWithoutItself(s, opener, i) ==
    [entry |-> s[i].entry, ord |-> s[i].ord,
     path |-> [j \in 1..(i - opener - 1) |-> s[opener + j].family]]

Fix(s, opener, i) ==
    [entry |-> s[i].entry, ord |-> s[i].ord,
     path |-> [j \in 1..(i - opener) |-> s[opener + j].family]]

Episode(s, opener, fix) ==
    [entry |-> s[opener].entry, ord |-> s[opener].ord, family |-> s[opener].family,
     sig |-> s[opener].sig, at |-> s[opener].at, fix |-> fix]

AssembleEpisodes(invs) ==
    LET s    == InOrder(invs)
        open == OpenAfter(s)
        Closers(o) == {i \in DOMAIN s : /\ ~s[i].error /\ s[i].family = s[o].family
                                        /\ o \in open[i - 1] /\ WithinBudget(s, o, i)}
    IN {Episode(s, o, IF Closers(o) = {} THEN NoFix
                      ELSE Fix(s, o, CHOOSE i \in Closers(o) : TRUE)) :
           o \in {i \in DOMAIN s : s[i].error /\ i \in open[i]}}

(***************************************************************************)
(* The reference the scan is compared with: what an episode is, said of    *)
(* the invocations alone.  A struggle starts at a failure whose last       *)
(* same-family predecessor is not a failure, and the next success of the   *)
(* family resolves it or nothing does.                                     *)
(***************************************************************************)
Struggles(invs) ==
    LET Follows(a, b) == a.family = b.family /\ Before(a, b)
        Last(a, b)    == Follows(a, b) /\ ~\E x \in invs : Follows(a, x) /\ Follows(x, b)
        Opens(b)      == b.error /\ \A a \in invs : Last(a, b) => ~a.error
        Between(a, b) == {x \in invs : Before(a, x) /\ Before(x, b)}
        Resolves(a, b) ==
            /\ Follows(a, b) /\ ~b.error
            /\ \A x \in invs : Follows(a, x) /\ Follows(x, b) => x.error
            /\ Cardinality(Between(a, b)) + 2 <= MaxSteps
            /\ a.at # NoTime /\ b.at # NoTime => b.at - a.at <= MaxGap
    IN {[open |-> a, fix |-> {b \in invs : Resolves(a, b)}] : a \in {x \in invs : Opens(x)}}
=============================================================================
