------------------------------- MODULE Schema -------------------------------
(***************************************************************************)
(* Opening a Workspace's database for writing brings its schema up to date *)
(* (internal/corpus: schema.go, tool_invocations_migration.go,             *)
(* failure_episodes_migration.go).  Every statement commits on its own and *)
(* a version is recorded after its statements, so a process can be killed  *)
(* between any two of them; the next opener starts over.                   *)
(*                                                                         *)
(* What migrations build is derived: the two text indexes, path tokens,    *)
(* tool invocations and failure episodes.  A derived table is the set of   *)
(* rows of its source it covers.  Versions that only create what Init      *)
(* creates too (4, 6, 12, 16) are left out.                                *)
(***************************************************************************)
EXTENDS FiniteSets, Integers, Sequences, SequencesExt

CONSTANTS
    Opener,     \* processes that open the Workspace for writing
    Message,    \* messages rows with text
    Artifact,   \* artifacts rows with text
    Subject,    \* sessions with paired tool calls
    MaxKills    \* bound on killed openers

ASSUME SchemaAssumption == IsFiniteSet(Subject) /\ MaxKills \in Nat

VARIABLES
    ws,         \* the database: see SchemaInit
    left,       \* the statements each opener has still to execute
    status,     \* closed, opening or open
    kills

schemaVars == <<ws, left, status, kills>>

Derived  == {"message", "artifact", "tokens", "calls", "episodes"}
Versions == <<2, 3, 5, 7, 8, 9, 10, 11, 13, 14, 15>>
Columns  == {2, 8, 9, 10, 11}       \* the versions that add columns where they are missing
Triggers == {"message", "artifact", "calls"}

\* The version that fills each of them anew (7 indexes artifacts by another text).
FilledBy == [message |-> 3, artifact |-> 7, tokens |-> 5, calls |-> 13, episodes |-> 15]

Source(t) == CASE t = "message" -> Message [] t = "artifact" -> Artifact [] OTHER -> Subject
Wanted(db, t) == db.stored \cap Source(t)

\* A database as some version left it: the derived tables of later versions are
\* missing or as incomplete as they may be.
SchemaInit ==
    /\ \E n \in {1} \cup Range(Versions), rows \in SUBSET (Message \cup Artifact \cup Subject) :
       \E old \in BOOLEAN, part \in SUBSET (rows \cap Subject) :
          ws = [stored   |-> rows,
                built    |-> [t \in Derived |->
                    IF n >= FilledBy[t] THEN rows \cap Source(t)
                    ELSE IF t = "calls" /\ old THEN part ELSE {}],
                legacy   |-> {},
                triggers |-> IF n >= 3 THEN Triggers ELSE {},
                shape    |-> IF n >= 13 THEN "new" ELSE IF old THEN "old" ELSE "none",
                episodes |-> IF n >= 15 THEN "new" ELSE IF n = 14 THEN "old" ELSE "none",
                columns  |-> {v \in Columns : v <= n},
                applied  |-> {1} \cup {v \in Range(Versions) : v <= n}]
    /\ left = [o \in Opener |-> <<>>]
    /\ status = [o \in Opener |-> "closed"]
    /\ kills = 0

(***************************************************************************)
(* Statements.                                                             *)
(***************************************************************************)
Do(what, on) == [do |-> what, on |-> on]

CreateAll ==    \* the statements of Init, all "if not exists"
    <<Do("create_table", "calls"), Do("create_trigger", "message"),
      Do("create_trigger", "artifact"), Do("create_trigger", "calls")>>

Rebuild(t)  == <<Do("empty", t), Do("fill", t)>>
Backfill(t, db) ==      \* one transaction for each session, listed before the first
    LET Each(s) == Do(t, s) IN [i \in 1..Cardinality(Wanted(db, t)) |-> Each(SetToSeq(Wanted(db, t))[i])]

EnsureInvocations(db) ==
    LET aux == <<Do("drop_trigger", "calls"), Do("create_trigger", "calls")>>
    IN CASE db.shape = "none" -> <<Do("create_table", "calls")>> \o aux
         [] db.shape = "old" ->
              <<Do("rename", "calls"), Do("create_table", "calls"), Do("copy", "calls")>> \o aux
         [] OTHER -> aux

AddColumns(v) == <<Do("add_columns", v)>>       \* each where it is not there yet
FillTokens == <<Do("fill", "tokens")>>          \* insert or ignore
RecreateEpisodes(db) ==
    <<Do("drop_table", "episodes"), Do("create_table", "episodes")>> \o Backfill("episodes", db)

Statements(v, db) ==
    CASE v \in Columns -> AddColumns(v)
      [] v = 3  -> <<Do("drop_trigger", "message"), Do("drop_trigger", "artifact")>>
                     \o Rebuild("message") \o Rebuild("artifact")
                     \o <<Do("create_trigger", "message"), Do("create_trigger", "artifact")>>
      [] v = 5  -> FillTokens
      [] v = 7  -> <<Do("drop_trigger", "artifact"), Do("create_trigger", "artifact")>>
                     \o Rebuild("artifact")
      [] v = 13 -> EnsureInvocations(db) \o Backfill("calls", db)
      [] v = 14 -> <<Do("create_table", "episodes")>> \o Backfill("episodes", db)
      [] v = 15 -> RecreateEpisodes(db)

\* Mutant of Apply: the version is recorded before its statements.
ApplyRecordedFirst(v, db) == <<Do("record", v)>> \o Statements(v, db)

Apply(v, db) == Statements(v, db) \o <<Do("record", v)>>

Effect(db, st) ==
    CASE st.do = "create_table" /\ st.on = "calls" ->
           IF db.shape = "none" THEN [db EXCEPT !.shape = "new"] ELSE db
      [] st.do = "create_table" /\ st.on = "episodes" -> [db EXCEPT !.episodes = "new"]
      [] st.do = "drop_table" -> [db EXCEPT !.episodes = "none", !.built.episodes = {}]
      [] st.do = "rename" -> [db EXCEPT !.shape = "none", !.legacy = @ \cup db.built.calls,
                                         !.built.calls = {}]
      [] st.do = "copy" -> [db EXCEPT !.built.calls = @ \cup db.legacy]
      [] st.do = "fill" -> [db EXCEPT !.built[st.on] = Wanted(db, st.on)]
      [] st.do = "empty" -> [db EXCEPT !.built[st.on] = {}]
      [] st.do = "create_trigger" -> [db EXCEPT !.triggers = @ \cup {st.on}]
      [] st.do = "drop_trigger" -> [db EXCEPT !.triggers = @ \ {st.on}]
      [] st.do = "add_columns" -> [db EXCEPT !.columns = @ \cup {st.on}]
      [] st.do \in {"calls", "episodes"} -> [db EXCEPT !.built[st.do] = @ \cup {st.on}]
      [] st.do = "record" -> [db EXCEPT !.applied = @ \cup {st.on}]
      [] OTHER -> db

(***************************************************************************)
(* Actions.                                                                *)
(***************************************************************************)
\* The schema of a newer aha, and the bundle-keyed one, are refused first.
OpenForWriting(o) ==
    /\ status[o] = "closed"
    /\ status' = [status EXCEPT ![o] = "opening"]
    /\ left' = [left EXCEPT ![o] = CreateAll \o [i \in DOMAIN Versions |-> Do("check", Versions[i])]]
    /\ UNCHANGED <<ws, kills>>

Execute(o) ==
    /\ status[o] = "opening" /\ left[o] # <<>> /\ Head(left[o]).do # "check"
    /\ ws' = Effect(ws, Head(left[o]))
    /\ left' = [left EXCEPT ![o] = Tail(@)]
    /\ UNCHANGED <<status, kills>>

CheckVersion(o) ==      \* migrationApplied, and what the migration itself looks up first
    /\ status[o] = "opening" /\ left[o] # <<>> /\ Head(left[o]).do = "check"
    /\ LET v == Head(left[o]).on IN
       left' = [left EXCEPT ![o] = (IF v \in ws.applied THEN <<>> ELSE Apply(v, ws)) \o Tail(@)]
    /\ UNCHANGED <<ws, status, kills>>

Opened(o) ==
    /\ status[o] = "opening" /\ left[o] = <<>>
    /\ status' = [status EXCEPT ![o] = "open"]
    /\ UNCHANGED <<ws, left, kills>>

Store(o, x) ==          \* an ingest: indexes through the triggers, the rest by itself
    /\ status[o] = "open"
    /\ x \in (Message \cup Artifact \cup Subject) \ ws.stored
    /\ ws' = [ws EXCEPT !.stored = @ \cup {x},
                 !.built = [t \in Derived |->
                     IF x \in Source(t) /\ (t \in {"message", "artifact"} => t \in ws.triggers)
                     THEN @[t] \cup {x} ELSE @[t]]]
    /\ UNCHANGED <<left, status, kills>>

CloseWorkspace(o) ==
    /\ status[o] = "open"
    /\ status' = [status EXCEPT ![o] = "closed"]
    /\ UNCHANGED <<ws, left, kills>>

KillOpener(o) ==
    /\ status[o] = "opening" /\ kills < MaxKills
    /\ status' = [status EXCEPT ![o] = "closed"]
    /\ left' = [left EXCEPT ![o] = <<>>]
    /\ kills' = kills + 1
    /\ UNCHANGED ws

SchemaNext ==
    \E o \in Opener :
        \/ OpenForWriting(o) \/ Execute(o) \/ CheckVersion(o) \/ Opened(o)
        \/ (\E x \in Message \cup Artifact \cup Subject : Store(o, x))
        \/ CloseWorkspace(o) \/ KillOpener(o)

SchemaSpec == SchemaInit /\ [][SchemaNext]_schemaVars

(***************************************************************************)
(* A database that is open for writing is whole, whatever version it had   *)
(* and wherever earlier openers were killed: every text has its index row  *)
(* and the triggers that keep it so, every session its tokens, invocations *)
(* and episodes, in tables of the current shape.                           *)
(***************************************************************************)
OpenedIsWhole ==
    (\E o \in Opener : status[o] = "open") =>
        /\ \A t \in Derived : ws.built[t] = Wanted(ws, t)
        /\ ws.triggers = Triggers /\ ws.columns = Columns
        /\ ws.shape = "new" /\ ws.episodes = "new"
        /\ Range(Versions) \subseteq ws.applied
=============================================================================
