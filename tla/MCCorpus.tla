----------------------------- MODULE MCCorpus ------------------------------
(***************************************************************************)
(* A small history of two machines.  Session "S" grows on machine A over   *)
(* three snapshots, is rewritten in a fourth and exists on machine B with  *)
(* one clashing line; session "T" of A is split over two files whose times *)
(* do not agree with their order.                                          *)
(***************************************************************************)
EXTENDS Reading, Schema

CONSTANTS A, B, note, shot, o1, m1, m2, a1, s1, s2

VARIABLE part       \* ingest and reading, or the opening of an older database

Line(id, parent, kind) ==
    [id |-> id, parent |-> parent, kind |-> kind, at |-> id, calls |-> <<>>, results |-> <<>>,
     anchor |-> 0, secret |-> FALSE]
CallOf(tool, family) == [tool |-> tool, family |-> family]
ResultOf(tool, error, sig) == [for |-> tool, error |-> error, sig |-> sig]

ask     == Line(1, 0, "user")
try     == [Line(2, 1, "assistant") EXCEPT !.calls = <<CallOf("t1", "go")>>]
tryB    == [Line(2, 1, "assistant") EXCEPT !.calls = <<CallOf("t1", "make")>>]
broke   == [Line(3, 2, "result") EXCEPT !.results = <<ResultOf("t1", TRUE, "boom")>>, !.secret = TRUE]
passed  == [Line(3, 2, "result") EXCEPT !.results = <<ResultOf("t1", FALSE, "")>>]
retry   == [Line(4, 3, "assistant") EXCEPT
               !.calls = <<CallOf(Anonymous, "ls"), CallOf("t2", "go")>>]
worked  == [Line(5, 4, "result") EXCEPT
               !.results = <<ResultOf("t2", FALSE, ""), ResultOf(Anonymous, TRUE, "gone"),
                             ResultOf("t2", TRUE, "late")>>, !.at = NoTime]
note6   == Line(6, 5, "custom")
compact == [Line(7, 6, "compaction") EXCEPT !.anchor = 4]
more    == [Line(8, 7, "assistant") EXCEPT !.calls = <<CallOf(Anonymous, "ls")>>]
done    == [Line(9, 8, "result") EXCEPT !.results = <<ResultOf(Anonymous, FALSE, "")>>]

late    == [Line(1, 0, "assistant") EXCEPT !.at = 9, !.calls = <<CallOf("u1", "go"), CallOf("u2", "go")>>,
               !.results = <<ResultOf("u1", TRUE, "x"), ResultOf("u2", FALSE, "")>>]
early   == [Line(2, 0, "assistant") EXCEPT !.at = 1, !.calls = <<CallOf("u3", "go")>>,
               !.results = <<ResultOf("u3", TRUE, "y")>>]

Session(path, session, content) ==
    [kind |-> "session", path |-> path, session |-> session, content |-> content]
Other(kind, path, content) == [kind |-> kind, path |-> path, session |-> "S", content |-> content]
Taken(machine, images, output, files) ==
    [machine |-> machine, images |-> images, output |-> output, files |-> files]

Grown1 == <<ask, try, broke>>
Grown2 == Grown1 \o <<retry>>
Grown3 == Grown2 \o <<worked, note6, compact, more, done>>

SmallHistory == {
    Taken(A, FALSE, FALSE, <<Session("p", "S", Grown1), Other("artifact", "q", note)>>),
    Taken(A, TRUE, FALSE, <<Session("p", "S", Grown2), Other("image", "i", shot)>>),
    Taken(A, FALSE, TRUE, <<Session("p", "S", Grown3), Other("image", "i", shot),
                           Session("r", "T", <<early>>)>>),
    Taken(A, FALSE, FALSE, <<Session("p", "S", <<ask, try, passed, retry>>), Session("t", "T", <<late>>),
                             Session("r", "T", <<early>>), Other("artifact", "q", note)>>),
    Taken(B, FALSE, FALSE, <<Session("p", "S", <<ask, tryB, broke>>)>>)}

FragileBlobs == {note}

WorkspaceInit ==
    /\ part \in {"ingest", "open"}
    /\ ReadingInit
    /\ SchemaInit
    /\ part = "ingest" => ws.stored = {} /\ ws.applied = {1} /\ ws.shape = "none"

IngestStep == part = "ingest" /\ ReadingNext /\ UNCHANGED <<part, schemaVars>>
OpenStep == part = "open" /\ SchemaNext /\ UNCHANGED <<part, readingVars>>

WorkspaceNext == IngestStep \/ OpenStep

WorkspaceSpec == WorkspaceInit /\ [][WorkspaceNext]_<<readingVars, schemaVars, part>>
=============================================================================
