------------------------------- MODULE Corpus -------------------------------
(***************************************************************************)
(* Ingest of prepared snapshots into a Workspace's database (internal/     *)
(* corpus: ingest_snapshot.go, ingest.go, the triggers of schema.go).      *)
(*                                                                         *)
(* One snapshot is one SQLite transaction begun with the write lock        *)
(* (_txlock=immediate), so transactions do not overlap; a busy begin is    *)
(* retried and changes nothing.  What a transaction does not cover is the  *)
(* blob directory: files are stored as the transaction runs and stay when  *)
(* it is rolled back.  What the download does around an ingest (locks,     *)
(* binding, materialised vector) is module Workspace, where an ingest is   *)
(* one step.  A snapshot already in only gets a row in the log of          *)
(* attempts, which is left out with the other columns nothing reads back.  *)
(*                                                                         *)
(* A transcript line stands for its own hash and a file's content for its  *)
(* SHA-256.  A session file's content is a sequence of lines, any other    *)
(* file's a model value.                                                   *)
(***************************************************************************)
EXTENDS Episodes

CONSTANTS
    Snapshot,     \* manifests: [machine, images, output, files]; files are
                  \* [kind, path, session, content] in manifest order
    RootEntry,    \* the empty parent_id
    NoSnapshot,   \* no transaction is open
    Fragile,      \* bound: the contents whose blobs may be damaged from outside
    MaxDamage     \* bound: how many of them are

Kind == {"session", "artifact", "image"}

Listed(list) == {list[i] : i \in DOMAIN list}
File == UNION {Listed(s.files) : s \in Snapshot}
Transcript == UNION {Listed(f.content) : f \in {x \in File : x.kind = "session"}}

\* An adapter reads the session ID from nothing but the file.
ASSUME CorpusAssumption ==
    /\ \A s \in Snapshot : s.files \in Seq(Listed(s.files))
    /\ \A f \in File :
          /\ f.kind \in Kind
          /\ f.kind = "session" =>
                /\ f.content \in Seq(Listed(f.content))
                /\ \A g \in File : g.kind = "session" /\ g.path = f.path /\ g.content = f.content
                                    => g.session = f.session
    /\ \A l \in Transcript :
          /\ l.id \in Nat /\ l.at \in Nat \cup {NoTime}
          /\ l.calls \in Seq(Listed(l.calls)) /\ l.results \in Seq(Listed(l.results))
          /\ \A c \in Listed(l.calls) : c.family \in STRING
          /\ \A r \in Listed(l.results) : r.error \in BOOLEAN
    /\ NoSnapshot \notin Snapshot
    /\ MaxDamage \in Nat

VARIABLES
    db,       \* the committed tables
    work,     \* the tables as the open transaction sees them
    busy,     \* the snapshot being ingested, or NoSnapshot
    todo,     \* the files it has left
    disk,     \* blobs/files: contents with a blob file
    rotten,   \* those whose bytes no longer hash to their name
    damaged,  \* contents whose blob was damaged or lost so far
    indexLost \* full-text rows were lost since the last reconciliation

corpusVars == <<db, work, busy, todo, disk, rotten, damaged, indexLost>>

Tables == {"snapshots", "files", "sessions", "versions", "entries", "messages",
           "fts", "conflicts", "invocations", "episodes", "artifacts", "images", "redactions"}
AppendOnly == Tables \ {"fts", "episodes"}    \* what triggers and insert-or-ignore protect

CorpusInit ==
    /\ db = [t \in Tables |-> {}] /\ work = db
    /\ busy = NoSnapshot /\ todo = <<>>
    /\ disk = {} /\ rotten = {} /\ damaged = {} /\ indexLost = FALSE

(***************************************************************************)
(* Rows.  NewSessionKey hashes source, machine and source session ID; one  *)
(* source is modelled.                                                     *)
(***************************************************************************)
SessionKey(s, f)  == [machine |-> s.machine, session |-> f.session]
Mine(d, k)        == {e \in d.entries : e.key = k}
Elsewhere(d, k)   == {e \in d.entries : e.key.session = k.session /\ e.key.machine # k.machine}

\* knownSessionVersionKey: this content at this path from this machine.
KnownVersions(d, s, f) ==
    {v \in d.versions : v.content = f.content /\ v.path = f.path /\ v.key.machine = s.machine}

\* insert or ignore on (session_key, file_sha256, manifest_sha256)
WithVersion(d, k, s, f) ==
    IF \E v \in d.versions : v.key = k /\ v.content = f.content /\ v.snapshot = s THEN d
    ELSE [d EXCEPT !.versions = @ \cup
             {[key |-> k, content |-> f.content, snapshot |-> s, path |-> f.path]}]

(***************************************************************************)
(* ingestEntry, over the lines of one file in order.  `existing` starts as *)
(* the session's stored hashes and grows with every insert; `cross` is     *)
(* what other machines stored for the same source session.                 *)
(***************************************************************************)
\* Mutant of Blocked: another machine's copy of an entry is not looked at.
BlockedByNobody(d, k, l) == {}

Blocked(d, k, l)  == {e \in Elsewhere(d, k) : e.line.id = l.id /\ e.line # l}

\* Mutant of Inserted: extension state is not stored.
InsertedTurns(d, k, c) ==
    {i \in DOMAIN c : /\ c[i].kind # "custom"
                      /\ ~\E e \in Mine(d, k) : e.line.id = c[i].id
                      /\ Blocked(d, k, c[i]) = {}}

Inserted(d, k, c) ==    \* the lines whose insert into entries takes effect
    {i \in DOMAIN c :
        /\ ~\E e \in Mine(d, k) : e.line.id = c[i].id
        /\ Blocked(d, k, c[i]) = {}
        /\ ~\E j \in 1..(i - 1) : c[j].id = c[i].id /\ Blocked(d, k, c[j]) = {}}

Existing(d, k, c, i) ==     \* existing[id] when line i is reached
    {e.line : e \in {x \in Mine(d, k) : x.line.id = c[i].id}}
        \cup {c[j] : j \in {x \in Inserted(d, k, c) : x < i /\ c[x].id = c[i].id}}

Accepted(d, k, c) ==
    {i \in DOMAIN c : Existing(d, k, c, i) \subseteq {c[i]} /\ Blocked(d, k, c[i]) = {}}

\* Mutant of ConflictsIn: a line that lost to another machine leaves no row.
ConflictsWithin(d, k, c, s) ==
    UNION {{[key |-> k, entry |-> c[i].id, first |-> l, second |-> c[i], snapshot |-> s] :
               l \in Existing(d, k, c, i) \ {c[i]}} : i \in DOMAIN c}

ConflictsIn(d, k, c, s) ==
    UNION {{[key |-> k, entry |-> c[i].id, first |-> l, second |-> c[i], snapshot |-> s] :
               l \in IF Existing(d, k, c, i) \subseteq {c[i]}
                     THEN IF Blocked(d, k, c[i]) = {} THEN {}
                          ELSE {(CHOOSE e \in Blocked(d, k, c[i]) : TRUE).line}
                     ELSE Existing(d, k, c, i)} :
           i \in DOMAIN c}

(***************************************************************************)
(* shouldIndexText and shouldPersistMessage.  A tool result is indexed     *)
(* only under index_tool_output; a line with tool calls gets a messages    *)
(* row even without text, a compaction always has one.                     *)
(***************************************************************************)
\* Mutant of IndexText: index_tool_output is not consulted.
IndexAnyText(l, s) == l.kind \in {"user", "assistant", "compaction", "result"}

IndexText(l, s) == l.kind \in {"user", "assistant", "compaction"} \/ (l.kind = "result" /\ s.output)
Persisted(l, s) == IndexText(l, s) \/ l.calls # <<>>

MessagesIn(d, k, c, s) ==
    {[key |-> k, entry |-> c[i].id, text |-> IndexText(c[i], s)] :
        i \in {x \in Accepted(d, k, c) :
                  /\ Persisted(c[x], s)
                  /\ ~\E m \in d.messages : m.key = k /\ m.entry = c[x].id}}

\* storedToolOutcome: the text of an error becomes a signature only where the
\* snapshot's policy lets tool output be indexed.
StoredSignature(inv, s) ==
    IF ~inv.error THEN "" ELSE IF s.output THEN inv.sig ELSE "tool_error"

(***************************************************************************)
(* insertToolInvocations: only the lines the session really holds are      *)
(* paired; insert or ignore on (session_key, entry_id, tool_key, ordinal). *)
(***************************************************************************)
\* Mutants of HeldLines: every line of the file; only the lines new in it.
AllLines(d, k, c) == DOMAIN c
NewLines(d, k, c) == Inserted(d, k, c)

HeldLines(d, k, c) ==       \* present[EntryID] equals the line's hash
    {i \in DOMAIN c : \/ \E e \in Mine(d, k) : e.line = c[i]
                      \/ \E j \in Inserted(d, k, c) : c[j] = c[i]}

Numbered(c, I) ==           \* the parsed entries of content c at the line numbers in I
    [n \in 1..Cardinality(I) |->
        LET i == CHOOSE x \in I : Cardinality({y \in I : y < x}) = n - 1
        IN [line |-> c[i], no |-> i]]

InvocationsIn(d, k, c, s) ==
    {[key |-> k, inv |-> [x EXCEPT !.sig = StoredSignature(x, s)]] :
        x \in {y \in BuildToolInvocations(Numbered(c, HeldLines(d, k, c))) :
                  ~\E r \in d.invocations : /\ r.key = k /\ r.inv.entry = y.entry
                                            /\ r.inv.tool = y.tool /\ r.inv.ord = y.ord}}

\* rebuildFailureEpisodesForSession: from the stored rows, joined with the
\* line numbers of their entries; delete, then insert.
InvocationsOf(d, k) ==
    LET mine == {r \in d.invocations : r.key = k}
    IN {[entry |-> p[1].inv.entry, tool |-> p[1].inv.tool, ord |-> p[1].inv.ord,
         at |-> p[1].inv.at, family |-> p[1].inv.family, error |-> p[1].inv.error,
         sig |-> p[1].inv.sig, no |-> p[2].no] :
            p \in {x \in mine \X Mine(d, k) : x[1].inv.entry = x[2].line.id}}

\* Mutant of WithEpisodes: insert or ignore, without the delete before it.
WithMoreEpisodes(d, k) ==
    LET Stored(e) == \E r \in d.episodes : r.key = k /\ r.ep.entry = e.entry /\ r.ep.ord = e.ord
    IN [d EXCEPT !.episodes = @ \cup
           {[key |-> k, ep |-> e] : e \in {x \in AssembleEpisodes(InvocationsOf(d, k)) : ~Stored(x)}}]

WithEpisodes(d, k) ==
    [d EXCEPT !.episodes = {r \in @ : r.key # k} \cup
                           {[key |-> k, ep |-> e] : e \in AssembleEpisodes(InvocationsOf(d, k))}]

(***************************************************************************)
(* IngestSessionFile, after the session is known to be new at this path:   *)
(* session, version, entries with their messages, index rows, redactions   *)
(* and conflicts, then invocations, then episodes.  What redaction does to *)
(* a text is left out; a line whose text it touches gets a redactions row. *)
(***************************************************************************)
\* Mutant of WithEntries: the newest text of an entry takes the stored one's place.
WithLatestEntries(entries, k, c, new) ==
    {e \in entries : ~(e.key = k /\ \E i \in DOMAIN c : c[i].id = e.line.id)}
        \cup {[key |-> k, line |-> c[i], no |-> i] : i \in DOMAIN c}

WithEntries(entries, k, c, new) ==
    entries \cup {[key |-> k, line |-> c[i], no |-> i] : i \in new}

WithSessionFile(d, s, f) ==
    LET k == SessionKey(s, f)
        c == f.content
        new == Inserted(d, k, c)
        messages == MessagesIn(d, k, c, s)
        rows == [WithVersion(d, k, s, f) EXCEPT
                    !.sessions  = @ \cup {[key |-> k]},
                    !.entries   = WithEntries(@, k, c, new),
                    !.messages  = @ \cup messages,
                    !.fts       = @ \cup {[key |-> m.key, entry |-> m.entry] :
                                             m \in {x \in messages : x.text}},
                    !.conflicts = @ \cup ConflictsIn(d, k, c, s),
                    !.redactions = @ \cup {[key |-> k, entry |-> c[i].id] :
                                              i \in {x \in new : c[x].secret}},
                    !.invocations = @ \cup InvocationsIn(d, k, c, s)]
    IN WithEpisodes(rows, k)

WithArtifact(d, s, f) ==    \* ingestArtifact and maybeStoreImageArtifact
    LET row == [content |-> f.content, snapshot |-> s, path |-> f.path, parent |-> SessionKey(s, f)]
    IN [d EXCEPT !.artifacts = @ \cup {row},
                 !.fts    = IF f.kind = "image" THEN @ ELSE @ \cup {row},
                 !.images = IF f.kind = "image" THEN @ \cup {f.content} ELSE @]

(***************************************************************************)
(* The transaction.                                                        *)
(***************************************************************************)
Begin(s) ==
    /\ busy = NoSnapshot /\ s \notin db.snapshots
    /\ work' = [db EXCEPT !.snapshots = @ \cup {s}]
    /\ busy' = s /\ todo' = s.files
    /\ UNCHANGED <<db, disk, rotten, damaged, indexLost>>

Rollback ==
    /\ busy' = NoSnapshot /\ todo' = <<>> /\ work' = db
    /\ UNCHANGED db

\* A version already parsed only adds its provenance row: no blob is read.
IngestKnownFile ==
    /\ todo # <<>> /\ Head(todo).kind = "session"
    /\ LET f == Head(todo) IN \E v \in KnownVersions(work, busy, f) :
          work' = WithVersion(work, v.key, busy, f)
    /\ todo' = Tail(todo)
    /\ UNCHANGED <<db, busy, disk, rotten, damaged, indexLost>>

Unparsed(f) == ~(f.kind = "session" /\ KnownVersions(work, busy, f) # {})

\* The Workspace's content-addressed store: a put leaves an existing blob alone,
\* and a blob whose bytes do not hash to its key fails to read.
PutFile(content) == disk' = disk \cup {content}
Reads(content) == content \notin rotten

\* Mutant of StoreBlob: the files row is trusted to have its blob.
StoreNothing(content) == UNCHANGED disk

StoreBlob(content) == PutFile(content)

\* The blob is opened in the Workspace's own store when it is there, else in
\* the Archive, and spooled; its bytes must hash to the manifest's SHA-256.
\* Under include_images=false an image is read and dropped.
IngestFile ==
    /\ todo # <<>> /\ Unparsed(Head(todo)) /\ Reads(Head(todo).content)
    /\ LET f == Head(todo) IN
       IF f.kind = "image" /\ ~busy.images THEN UNCHANGED <<work, disk>>
       ELSE /\ StoreBlob(f.content)
            /\ LET d == [work EXCEPT !.files = @ \cup {f.content}] IN
               work' = IF f.kind = "session" THEN WithSessionFile(d, busy, f)
                       ELSE WithArtifact(d, busy, f)
    /\ todo' = Tail(todo)
    /\ UNCHANGED <<db, busy, rotten, damaged, indexLost>>

IngestRottenFile ==         \* sha/size mismatch: the local copy is not bypassed
    /\ todo # <<>> /\ Unparsed(Head(todo)) /\ ~Reads(Head(todo).content)
    /\ Rollback /\ UNCHANGED <<disk, rotten, damaged, indexLost>>

Commit ==
    /\ busy # NoSnapshot /\ todo = <<>>
    /\ db' = work
    /\ busy' = NoSnapshot
    /\ UNCHANGED <<work, todo, disk, rotten, damaged, indexLost>>

\* Mutant of Abandon: each file is committed as it is done.
AbandonKeepingWork ==
    /\ busy # NoSnapshot
    /\ db' = work /\ busy' = NoSnapshot /\ todo' = <<>>
    /\ UNCHANGED <<work, disk, rotten, damaged, indexLost>>

Abandon ==                  \* cancelled, failed or killed: the database rolls back, blobs stay
    /\ busy # NoSnapshot
    /\ Rollback /\ UNCHANGED <<disk, rotten, damaged, indexLost>>

(***************************************************************************)
(* The environment: a blob rots or disappears, index rows are lost.        *)
(***************************************************************************)
DamageBlob(b) ==
    /\ b \in (disk \cap Fragile) \ damaged /\ Cardinality(damaged) < MaxDamage
    /\ damaged' = damaged \cup {b}
    /\ \/ rotten' = rotten \cup {b} /\ UNCHANGED disk
       \/ disk' = disk \ {b} /\ UNCHANGED rotten
    /\ UNCHANGED <<db, work, busy, todo, indexLost>>

LoseIndexRows ==            \* an index rebuilt or edited by another tool
    /\ busy = NoSnapshot /\ db.fts # {}
    /\ db' = [db EXCEPT !.fts = {}] /\ work' = db'
    /\ indexLost' = TRUE
    /\ UNCHANGED <<busy, todo, disk, rotten, damaged>>

(***************************************************************************)
(* workspace verify --repair-fts: drop and refill the index from the rows  *)
(* it covers, the predicates of fts_predicates.go.                         *)
(***************************************************************************)
Indexable(d) ==
    {[key |-> m.key, entry |-> m.entry] : m \in {x \in d.messages : x.text}}
        \cup {a \in d.artifacts : a.content \notin d.images}

ReconcileFTS ==
    /\ busy = NoSnapshot /\ indexLost
    /\ db' = [db EXCEPT !.fts = Indexable(db)] /\ work' = db'
    /\ indexLost' = FALSE
    /\ UNCHANGED <<busy, todo, disk, rotten, damaged>>

CorpusNext ==
    \/ \E s \in Snapshot : Begin(s)
    \/ IngestKnownFile \/ IngestFile \/ IngestRottenFile
    \/ Commit \/ Abandon
    \/ LoseIndexRows \/ ReconcileFTS
    \/ \E b \in disk : DamageBlob(b)

CorpusSpec == CorpusInit /\ [][CorpusNext]_corpusVars

(***************************************************************************)
(* Properties.  Those that compute much are stated of the states between   *)
(* transactions, which show every value db takes.                          *)
(***************************************************************************)
AtRest == busy = NoSnapshot

CorpusTypeOK ==
    /\ DOMAIN db = Tables /\ DOMAIN work = Tables
    /\ busy \in Snapshot \cup {NoSnapshot}
    /\ busy = NoSnapshot => todo = <<>> /\ work = db
    /\ db.snapshots \subseteq Snapshot
    /\ rotten \subseteq disk /\ rotten \subseteq damaged

\* A session that exists on two machines has one text per entry ID, the one that
\* was ingested first wherever it came from: neither a rewritten history nor a
\* clashing copy ever gets next to it (existing and cross hashes in ingestEntry).
OneText(entries) ==
    \A x, y \in entries :
        x.key.session = y.key.session /\ x.line.id = y.line.id => x.line = y.line
OneTextPerEntry == OneText(db.entries)

\* Every line of every ingested version of a session file is either stored under
\* its session or named by a conflict row: skipping a known file, losing to
\* another machine or being rewritten never drops a line without a trace.
NothingLost ==
    \A v \in db.versions : \A i \in DOMAIN v.content :
        \/ \E e \in Mine(db, v.key) : e.line = v.content[i]
        \/ \E c \in db.conflicts : c.key = v.key /\ c.second = v.content[i]

\* A snapshot the database calls ingested has every one of its files in, whatever
\* was cancelled, failed or killed before: the snapshot's row, written first, is
\* never seen without the rows of its files, nor those without it.
SnapshotsAreWhole ==
    /\ \A s \in db.snapshots : \A i \in DOMAIN s.files : LET f == s.files[i] IN
          CASE f.kind = "session" ->
                 \E v \in db.versions : /\ v.key = SessionKey(s, f) /\ v.content = f.content
                                        /\ v.snapshot = s
            [] f.kind = "image" /\ ~s.images -> TRUE
            [] OTHER -> \E a \in db.artifacts : a.snapshot = s /\ a.path = f.path
    /\ \A r \in db.versions \cup db.artifacts : r.snapshot \in db.snapshots

\* A committed files row has its blob on disk unless the blob was damaged from
\* outside: blobs are written before the transaction that names them commits, and
\* a blob lost meanwhile is written again when its content comes by.
BlobsBackRows == db.files \subseteq disk \cup damaged

\* No tool output is indexed, no error text becomes a signature and no image is
\* kept unless some ingested snapshot of that machine carries it under a policy
\* that allows it, although one session's rows come from snapshots of different
\* policies and an accepted line is never projected anew.
PolicyRespected ==
    LET Carries(s, k, id) == \E i \in DOMAIN s.files : LET f == s.files[i] IN
            /\ f.kind = "session" /\ SessionKey(s, f) = k
            /\ \E j \in DOMAIN f.content : f.content[j].id = id
        Allowed(k, id) == \E s \in db.snapshots : s.output /\ Carries(s, k, id)
    IN /\ \A m \in db.messages : m.text =>
             \/ \E e \in Mine(db, m.key) : e.line.id = m.entry /\ e.line.kind # "result"
             \/ Allowed(m.key, m.entry)
       /\ \A r \in db.invocations : r.inv.sig \notin {"", "tool_error"} =>
             Allowed(r.key, r.inv.entry)
       /\ \A b \in db.images : \E s \in db.snapshots : s.images /\
             \E i \in DOMAIN s.files : s.files[i].content = b

\* The stored episodes of a session are exactly the struggles its stored
\* invocations contain: resuming a session flips an abandoned episode, and no
\* ingest leaves an episode its invocations no longer tell.
EpisodesAreStruggles ==
    AtRest => \A r \in db.sessions :
        {[open |-> [entry |-> x.ep.entry, ord |-> x.ep.ord],
          fix |-> IF x.ep.fix = NoFix THEN {} ELSE {[entry |-> x.ep.fix.entry, ord |-> x.ep.fix.ord]}] :
            x \in {y \in db.episodes : y.key = r.key}}
      = {[open |-> [entry |-> t.open.entry, ord |-> t.open.ord],
          fix |-> {[entry |-> b.entry, ord |-> b.ord] : b \in t.fix}] :
            t \in Struggles(InvocationsOf(db, r.key))}

\* The versions of a session are beginnings of one another and repeat no line.
OnlyGrew(d, k) ==
    \A v, w \in {x \in d.versions : x.key = k} :
        /\ \A i \in DOMAIN v.content \cap DOMAIN w.content : v.content[i] = w.content[i]
        /\ \A i, j \in DOMAIN v.content : v.content[i] = v.content[j] => i = j

StoredEntries(d, k) ==      \* as the rebuild reads them, by line number and ID
    LET Earlier(x, y) == x.no < y.no \/ (x.no = y.no /\ x.line.id < y.line.id)
    IN [n \in 1..Cardinality(Mine(d, k)) |->
           CHOOSE e \in Mine(d, k) : Cardinality({x \in Mine(d, k) : Earlier(x, e)}) = n - 1]

Bare(inv) == [inv EXCEPT !.sig = ""]

\* tool_invocations can be rebuilt from the entries (failure_episodes_migration.go
\* says so): pairing each file as it came gives the rows that pairing the stored
\* entries at once gives, for a session whose versions only ever grew.
InvocationsRebuild ==
    AtRest => \A r \in db.sessions : OnlyGrew(db, r.key) =>
        {Bare(x.inv) : x \in {y \in db.invocations : y.key = r.key}}
      = {Bare(x) : x \in BuildToolInvocations(StoredEntries(db, r.key))}

\* What is committed stays as it is: a row of an append-only table is never
\* updated or deleted, by no ingest, rollback or damage.
RowsAreKept == [][\A t \in AppendOnly : db[t] \subseteq db'[t]]_db
=============================================================================
