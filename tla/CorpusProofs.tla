---------------------------- MODULE CorpusProofs ----------------------------
(***************************************************************************)
(* Proofs about Corpus and Reading, for any history of snapshots, any      *)
(* number of machines, sessions and lines, and any damage to blobs.        *)
(***************************************************************************)
EXTENDS Reading, EpisodesProofs

IsKey(k) == k = [machine |-> k.machine, session |-> k.session]
Keyed(entries) == \A e \in entries : IsKey(e.key)

\* What a transaction leaves of the rows it found.
Grows(old, new) ==
    /\ DOMAIN new = Tables
    /\ \A t \in AppendOnly : old[t] \subseteq new[t]

\* NothingLost of one version, SnapshotsAreWhole of one file.
Kept(d, v) ==
    \A i \in DOMAIN v.content :
        \/ \E e \in Mine(d, v.key) : e.line = v.content[i]
        \/ \E c \in d.conflicts : c.key = v.key /\ c.second = v.content[i]

FileIn(d, s, f) ==
    CASE f.kind = "session" ->
           \E v \in d.versions : /\ v.key = SessionKey(s, f) /\ v.content = f.content
                                  /\ v.snapshot = s
      [] f.kind = "image" /\ ~s.images -> TRUE
      [] OTHER -> \E a \in d.artifacts : a.snapshot = s /\ a.path = f.path

VersionOfFile(v) ==
    \E f \in File : /\ f.kind = "session" /\ f.path = v.path /\ f.content = v.content
                    /\ v.key = [machine |-> v.key.machine, session |-> f.session]

SnapshotRows(d) == {r.snapshot : r \in d.versions \cup d.artifacts}

\* The tables as the open transaction sees them, and what of its snapshot is in.
WorkInv ==
    /\ DOMAIN db = Tables /\ Grows(db, work)
    /\ Keyed(work.entries) /\ OneText(work.entries)
    /\ work.files \subseteq disk \cup damaged
    /\ \A v \in work.versions : VersionOfFile(v) /\ Kept(work, v)
    /\ SnapshotRows(work) \subseteq work.snapshots
    /\ work.snapshots = IF busy = NoSnapshot THEN db.snapshots ELSE db.snapshots \cup {busy}

Progress ==
    /\ busy \in Snapshot \cup {NoSnapshot} /\ todo \in Seq(File)
    /\ busy = NoSnapshot => todo = <<>>
    /\ busy # NoSnapshot =>
        LET done == Len(busy.files) - Len(todo) IN
        /\ done >= 0
        /\ \A i \in 1..Len(todo) : todo[i] = busy.files[done + i]
        /\ \A i \in 1..done : FileIn(work, busy, busy.files[i])

Committed ==
    /\ \A v \in db.versions : VersionOfFile(v) /\ Kept(db, v)
    /\ SnapshotRows(db) \subseteq db.snapshots
    /\ db.snapshots \subseteq Snapshot
    /\ \A s \in db.snapshots : \A i \in DOMAIN s.files : FileIn(db, s, s.files[i])

CorpusInv == WorkInv /\ Progress /\ Committed

LEMMA TableNames ==
    /\ AppendOnly = {"snapshots", "files", "sessions", "versions", "entries", "messages",
                     "conflicts", "invocations", "artifacts", "images", "redactions"}
    /\ AppendOnly \subseteq Tables
BY DEF AppendOnly, Tables

\* The heart of ingestEntry: what passes the hashes of the session itself, of its
\* copies on other machines and of the lines before it never makes a second text.
LEMMA InsertedKeepOneText ==
    ASSUME NEW d, NEW k, NEW c, IsKey(k), Keyed(d.entries), OneText(d.entries),
           c \in Seq(Listed(c))
    PROVE  LET all == WithEntries(d.entries, k, c, Inserted(d, k, c))
           IN  Keyed(all) /\ OneText(all)
<1> DEFINE new == {[key |-> k, line |-> c[i], no |-> i] : i \in Inserted(d, k, c)}
           all == d.entries \cup new
<1>1. WithEntries(d.entries, k, c, Inserted(d, k, c)) = all
  BY DEF WithEntries
<1>2. Keyed(all)
  BY DEF Keyed
<1>3. ASSUME NEW i \in Inserted(d, k, c)
      PROVE  /\ i \in DOMAIN c
             /\ \A e \in d.entries : e.key = k => e.line.id # c[i].id
             /\ \A e \in d.entries :
                    e.key.session = k.session /\ e.key.machine # k.machine /\ e.line.id = c[i].id
                        => e.line = c[i]
             /\ \A j \in 1..(i - 1) : c[j].id = c[i].id => Blocked(d, k, c[j]) # {}
             /\ Blocked(d, k, c[i]) = {}
  BY DEF Inserted, Mine, Blocked, Elsewhere
<1>4. ASSUME NEW x \in d.entries, NEW i \in Inserted(d, k, c),
             x.key.session = k.session, x.line.id = c[i].id
      PROVE  x.line = c[i]
  <2>1. CASE x.key.machine = k.machine
    <3>1. x.key = k
      BY <1>4, <2>1 DEF Keyed, IsKey
    <3> QED BY <1>3, <1>4, <3>1
  <2>2. CASE x.key.machine # k.machine
    BY <1>3, <1>4, <2>2
  <2> QED BY <2>1, <2>2
<1>5. ASSUME NEW i \in Inserted(d, k, c), NEW j \in Inserted(d, k, c), c[i].id = c[j].id
      PROVE  i = j
  <2>1. i \in Nat \ {0} /\ j \in Nat \ {0}
    BY <1>3
  <2>2. i \notin 1..(j - 1) /\ j \notin 1..(i - 1)
    BY <1>3, <1>5
  <2> QED BY <2>1, <2>2
<1>6. OneText(all)
  <2>1. SUFFICES ASSUME NEW x \in all, NEW y \in all,
                        x.key.session = y.key.session, x.line.id = y.line.id
                 PROVE  x.line = y.line
    BY DEF OneText
  <2>2. CASE x \in d.entries /\ y \in d.entries
    BY <2>1, <2>2 DEF OneText
  <2>3. CASE x \in d.entries /\ y \in new
    BY <2>1, <2>3, <1>4
  <2>4. CASE x \in new /\ y \in d.entries
    BY <2>1, <2>4, <1>4
  <2>5. CASE x \in new /\ y \in new
    BY <2>1, <2>5, <1>5
  <2> QED BY <2>2, <2>3, <2>4, <2>5
<1> QED BY <1>1, <1>2, <1>6

LEMMA VersionsGrow ==
    ASSUME NEW d, DOMAIN d = Tables, NEW k, NEW s, NEW f
    PROVE  /\ Grows(d, WithVersion(d, k, s, f))
           /\ \A t \in Tables \ {"versions"} : WithVersion(d, k, s, f)[t] = d[t]
           /\ \A v \in WithVersion(d, k, s, f).versions :
                 v \in d.versions
                   \/ v = [key |-> k, content |-> f.content, snapshot |-> s, path |-> f.path]
           /\ \E v \in WithVersion(d, k, s, f).versions :
                 v.key = k /\ v.content = f.content /\ v.snapshot = s
<1> DEFINE row == [key |-> k, content |-> f.content, snapshot |-> s, path |-> f.path]
           d2 == [d EXCEPT !.versions = @ \cup {row}]
<1>1. CASE \E v \in d.versions : v.key = k /\ v.content = f.content /\ v.snapshot = s
  BY <1>1 DEF WithVersion, Grows
<1>2. CASE ~\E v \in d.versions : v.key = k /\ v.content = f.content /\ v.snapshot = s
  <2>1. WithVersion(d, k, s, f) = d2
    BY <1>2 DEF WithVersion
  <2>2. /\ DOMAIN d2 = Tables /\ d2.versions = d.versions \cup {row}
        /\ \A t \in Tables \ {"versions"} : d2[t] = d[t]
    BY DEF Tables
  <2>3. row.key = k /\ row.content = f.content /\ row.snapshot = s
    OBVIOUS
  <2> HIDE DEF row, d2
  <2>4. Grows(d, d2)
    BY <2>2, TableNames DEF Grows
  <2> QED BY <2>1, <2>2, <2>3, <2>4 DEF row
<1> QED BY <1>1, <1>2

LEMMA EpisodesApart ==
    ASSUME NEW d, DOMAIN d = Tables, NEW k
    PROVE  /\ DOMAIN WithEpisodes(d, k) = Tables
           /\ \A t \in AppendOnly : WithEpisodes(d, k)[t] = d[t]
BY DEF WithEpisodes, Tables, AppendOnly

LEMMA ArtifactGrows ==
    ASSUME NEW d, DOMAIN d = Tables, NEW s, NEW f
    PROVE  /\ Grows(d, WithArtifact(d, s, f))
           /\ WithArtifact(d, s, f).entries = d.entries
           /\ WithArtifact(d, s, f).files = d.files
           /\ WithArtifact(d, s, f).snapshots = d.snapshots
           /\ WithArtifact(d, s, f).versions = d.versions
           /\ \A a \in WithArtifact(d, s, f).artifacts : a \in d.artifacts \/ a.snapshot = s
           /\ \E a \in WithArtifact(d, s, f).artifacts : a.snapshot = s /\ a.path = f.path
<1> DEFINE row == [content |-> f.content, snapshot |-> s, path |-> f.path, parent |-> SessionKey(s, f)]
           e == WithArtifact(d, s, f)
<1>1. /\ DOMAIN e = Tables /\ e.artifacts = d.artifacts \cup {row}
      /\ e.entries = d.entries /\ e.files = d.files /\ e.snapshots = d.snapshots
      /\ e.versions = d.versions
  BY DEF WithArtifact, Tables
<1>2. \A t \in AppendOnly : d[t] \subseteq e[t]
  BY DEF WithArtifact, Tables, AppendOnly
<1>3. row.snapshot = s /\ row.path = f.path
  OBVIOUS
<1> HIDE DEF e, row
<1> QED BY <1>1, <1>2, <1>3 DEF e, Grows

LEMMA SessionFileGrows ==
    ASSUME NEW d, DOMAIN d = Tables, NEW s, NEW f
    PROVE  LET k == SessionKey(s, f)
               r == WithSessionFile(d, s, f)
           IN /\ Grows(d, r) /\ r.files = d.files /\ r.snapshots = d.snapshots
              /\ r.artifacts = d.artifacts /\ r.versions = WithVersion(d, k, s, f).versions
              /\ r.conflicts = d.conflicts \cup ConflictsIn(d, k, f.content, s)
              /\ r.entries = WithEntries(d.entries, k, f.content, Inserted(d, k, f.content))
<1> DEFINE k == SessionKey(s, f)
           c == f.content
           new == Inserted(d, k, c)
           messages == MessagesIn(d, k, c, s)
           v == WithVersion(d, k, s, f)
           rows == [v EXCEPT
                    !.sessions  = @ \cup {[key |-> k]},
                    !.entries   = WithEntries(@, k, c, new),
                    !.messages  = @ \cup messages,
                    !.fts       = @ \cup {[key |-> m.key, entry |-> m.entry] :
                                             m \in {x \in messages : x.text}},
                    !.conflicts = @ \cup ConflictsIn(d, k, c, s),
                    !.redactions = @ \cup {[key |-> k, entry |-> c[i].id] :
                                              i \in {x \in new : c[x].secret}},
                    !.invocations = @ \cup InvocationsIn(d, k, c, s)]
<1>1. WithSessionFile(d, s, f) = WithEpisodes(rows, k)
  BY DEF WithSessionFile
<1>2. /\ Grows(d, v) /\ DOMAIN v = Tables /\ v.entries = d.entries /\ v.files = d.files
      /\ v.snapshots = d.snapshots /\ v.artifacts = d.artifacts /\ v.conflicts = d.conflicts
  BY VersionsGrow DEF Grows, Tables
<1>3. d.entries \subseteq WithEntries(d.entries, k, c, new)
  BY DEF WithEntries
<1>4. /\ DOMAIN rows = Tables /\ rows.files = v.files /\ rows.snapshots = v.snapshots
      /\ rows.artifacts = v.artifacts /\ rows.versions = v.versions
      /\ rows.conflicts = v.conflicts \cup ConflictsIn(d, k, c, s)
      /\ rows.entries = WithEntries(v.entries, k, c, new)
  BY <1>2 DEF Tables
<1>5. \A t \in AppendOnly : v[t] \subseteq rows[t]
  BY <1>2, <1>3 DEF AppendOnly, Tables
<1>6. DOMAIN WithEpisodes(rows, k) = Tables
      /\ \A t \in AppendOnly : WithEpisodes(rows, k)[t] = rows[t]
  <2> HIDE DEF rows
  <2> QED BY <1>4, EpisodesApart
<1>7. {"entries", "files", "snapshots", "artifacts", "versions", "conflicts"} \subseteq AppendOnly
  BY TableNames
<1> HIDE DEF rows, v
<1> DEFINE r == WithEpisodes(rows, k)
<1>8. Grows(d, r)
  BY <1>2, <1>4, <1>5, <1>6 DEF Grows
<1>9. /\ r.files = rows.files /\ r.snapshots = rows.snapshots /\ r.artifacts = rows.artifacts
      /\ r.versions = rows.versions /\ r.conflicts = rows.conflicts /\ r.entries = rows.entries
  BY <1>6, <1>7
<1> HIDE DEF r
<1> QED BY <1>1, <1>2, <1>4, <1>8, <1>9 DEF r, v

\* An accepted line agrees with all it meets: it is inserted, or one like it was.
LEMMA AcceptedAreStored ==
    ASSUME NEW d, NEW k, NEW c, c \in Seq(Listed(c)), NEW i \in Accepted(d, k, c)
    PROVE  \E e \in WithEntries(d.entries, k, c, Inserted(d, k, c)) : e.key = k /\ e.line = c[i]
<1>1. i \in DOMAIN c /\ Existing(d, k, c, i) \subseteq {c[i]} /\ Blocked(d, k, c[i]) = {}
  BY DEF Accepted
<1>2. CASE \E e \in Mine(d, k) : e.line.id = c[i].id
  <2>1. PICK e \in Mine(d, k) : e.line.id = c[i].id
    BY <1>2
  <2>2. e.line \in Existing(d, k, c, i)
    BY <2>1 DEF Existing
  <2> QED BY <1>1, <2>1, <2>2 DEF WithEntries, Mine
<1>3. CASE ~\E e \in Mine(d, k) : e.line.id = c[i].id
  <2> DEFINE same == {j \in DOMAIN c : c[j].id = c[i].id /\ Blocked(d, k, c[j]) = {}}
  <2>1. i \in same /\ same \in SUBSET Nat
    BY <1>1
  <2>2. PICK m \in same : \A n \in same : ~(n < m)
    BY <2>1, Least
  <2>3. m \in Nat \ {0} /\ i \in Nat \ {0}
    BY <1>1
  <2>4. m \in Inserted(d, k, c)
    <3>1. ASSUME NEW j \in 1..(m - 1), c[j].id = c[m].id, Blocked(d, k, c[j]) = {},
                 j \in DOMAIN c
          PROVE  FALSE
      BY <2>2, <2>3, <3>1
    <3>2. 1..(m - 1) \subseteq DOMAIN c
      BY <2>2, <2>3
    <3> QED BY <1>3, <2>2, <3>1, <3>2 DEF Inserted
  <2>5. c[m] = c[i]
    <3>1. CASE m = i
      BY <3>1
    <3>2. CASE m # i
      <4>1. m < i
        BY <2>1, <2>2, <2>3, <3>2
      <4>2. c[m] \in Existing(d, k, c, i)
        BY <2>2, <2>4, <4>1 DEF Existing, Inserted
      <4> QED BY <1>1, <4>2
    <3> QED BY <3>1, <3>2
  <2>6. [key |-> k, line |-> c[m], no |-> m] \in WithEntries(d.entries, k, c, Inserted(d, k, c))
    BY <2>4 DEF WithEntries
  <2> QED BY <2>5, <2>6
<1> QED BY <1>2, <1>3

\* A line of the file that is ingested ends as an entry or as a conflict row.
LEMMA LinesAreKept ==
    ASSUME NEW d, NEW k, NEW c, NEW s, c \in Seq(Listed(c)), NEW i \in DOMAIN c
    PROVE  \/ \E e \in WithEntries(d.entries, k, c, Inserted(d, k, c)) : e.key = k /\ e.line = c[i]
           \/ \E r \in ConflictsIn(d, k, c, s) : r.key = k /\ r.second = c[i]
<1> DEFINE Row(l) == [key |-> k, entry |-> c[i].id, first |-> l, second |-> c[i], snapshot |-> s]
<1>1. CASE ~(Existing(d, k, c, i) \subseteq {c[i]})
  <2>1. PICK l \in Existing(d, k, c, i) : TRUE
    BY <1>1
  <2>2. Row(l) \in ConflictsIn(d, k, c, s)
    BY <1>1, <2>1 DEF ConflictsIn
  <2> QED BY <2>2
<1>2. CASE Existing(d, k, c, i) \subseteq {c[i]} /\ Blocked(d, k, c[i]) # {}
  <2> DEFINE l == (CHOOSE e \in Blocked(d, k, c[i]) : TRUE).line
  <2>1. Row(l) \in ConflictsIn(d, k, c, s)
    BY <1>2 DEF ConflictsIn
  <2> QED BY <2>1
<1>3. CASE Existing(d, k, c, i) \subseteq {c[i]} /\ Blocked(d, k, c[i]) = {}
  <2>1. i \in Accepted(d, k, c)
    BY <1>3 DEF Accepted
  <2> QED BY <2>1, AcceptedAreStored
<1> QED BY <1>1, <1>2, <1>3

(***************************************************************************)
(* What holds of a set of tables holds of those it grows into.             *)
(***************************************************************************)
LEMMA Growth ==
    ASSUME NEW d, NEW e, Grows(d, e)
    PROVE  /\ \A v : Kept(d, v) => Kept(e, v)
           /\ \A s, f : FileIn(d, s, f) => FileIn(e, s, f)
           /\ OneText(e.entries) => OneText(d.entries)
           /\ Keyed(e.entries) => Keyed(d.entries)
           /\ d.files \subseteq e.files
<1>1. {"entries", "files", "versions", "artifacts", "conflicts"} \subseteq AppendOnly
  BY TableNames
<1>2. /\ d.entries \subseteq e.entries /\ d.files \subseteq e.files /\ d.versions \subseteq e.versions
      /\ d.artifacts \subseteq e.artifacts /\ d.conflicts \subseteq e.conflicts
  BY <1>1 DEF Grows
<1>3. ASSUME NEW v, Kept(d, v) PROVE Kept(e, v)
  BY <1>2, <1>3 DEF Kept, Mine
<1>4. ASSUME NEW s, NEW f, FileIn(d, s, f) PROVE FileIn(e, s, f)
  BY <1>2, <1>4 DEF FileIn
<1>5. OneText(e.entries) => OneText(d.entries)
  BY <1>2 DEF OneText
<1>6. Keyed(e.entries) => Keyed(d.entries)
  BY <1>2 DEF Keyed
<1> QED BY <1>2, <1>3, <1>4, <1>5, <1>6

LEMMA SnapshotFiles ==
    ASSUME NEW s \in Snapshot
    PROVE  s.files \in Seq(File) /\ \A i \in DOMAIN s.files : s.files[i] \in File
<1>1. Listed(s.files) \subseteq File
  BY DEF File
<1>2. s.files \in Seq(Listed(s.files))
  BY CorpusAssumption
<1> QED BY <1>1, <1>2

LEMMA Settled ==
    ASSUME CorpusInv, DOMAIN db' = Tables, \A t \in AppendOnly : db'[t] = db[t], work' = db',
           busy' = NoSnapshot, todo' = <<>>, disk \cup damaged \subseteq disk' \cup damaged'
    PROVE  CorpusInv'
<1>1. Grows(db, db') /\ Grows(db', db')
  BY DEF Grows
<1>2. Grows(db, work)
  BY DEF CorpusInv, WorkInv
<1>3. {"entries", "files", "versions", "artifacts", "snapshots"} \subseteq AppendOnly
  BY TableNames
<1>4. /\ db'.entries = db.entries /\ db'.files = db.files /\ db'.versions = db.versions
      /\ db'.artifacts = db.artifacts /\ db'.snapshots = db.snapshots
  BY <1>3
<1>5. Keyed(db.entries) /\ OneText(db.entries) /\ db.files \subseteq disk \cup damaged
  BY <1>2, Growth DEF CorpusInv, WorkInv
<1>6. SnapshotRows(db') = SnapshotRows(db)
  BY <1>4 DEF SnapshotRows
<1>7. Committed'
  <2>1. \A v \in db.versions : VersionOfFile(v) /\ Kept(db', v)
    BY <1>1, Growth DEF CorpusInv, Committed
  <2>2. \A s \in db.snapshots : \A i \in DOMAIN s.files : FileIn(db', s, s.files[i])
    BY <1>1, Growth DEF CorpusInv, Committed
  <2> QED BY <1>4, <1>6, <2>1, <2>2 DEF CorpusInv, Committed
<1>8. Progress'
  BY DEF Progress
<1>9. WorkInv'
  BY <1>1, <1>4, <1>5, <1>6, <1>7 DEF WorkInv, Committed
<1> QED BY <1>7, <1>8, <1>9 DEF CorpusInv

LEMMA FileStep ==
    ASSUME CorpusInv, todo # <<>>, UNCHANGED <<db, busy, damaged>>, todo' = Tail(todo),
           Grows(work, work'), Keyed(work'.entries), OneText(work'.entries),
           work'.files \subseteq disk' \cup damaged, work'.snapshots = work.snapshots,
           \A r \in work'.versions \cup work'.artifacts :
               r \in work.versions \cup work.artifacts \/ r.snapshot = busy,
           \A v \in work'.versions : v \in work.versions \/ (VersionOfFile(v) /\ Kept(work', v)),
           FileIn(work', busy, Head(todo))
    PROVE  CorpusInv'
<1>1. busy \in Snapshot /\ busy # NoSnapshot /\ todo \in Seq(File) /\ busy.files \in Seq(File)
  BY SnapshotFiles DEF CorpusInv, Progress
<1>2. WorkInv'
  <2>1. Grows(db, work')
    BY DEF CorpusInv, WorkInv, Grows
  <2>2. \A v \in work'.versions : VersionOfFile(v) /\ Kept(work', v)
    BY Growth DEF CorpusInv, WorkInv
  <2>3. SnapshotRows(work') \subseteq work'.snapshots
    BY <1>1 DEF CorpusInv, WorkInv, SnapshotRows
  <2> QED BY <2>1, <2>2, <2>3 DEF CorpusInv, WorkInv
<1>3. Progress'
  <2> DEFINE done == Len(busy.files) - Len(todo)
  <2>1. /\ Len(busy.files) \in Nat /\ Len(todo) \in Nat /\ Len(todo) > 0
        /\ Len(todo') = Len(todo) - 1 /\ todo' \in Seq(File)
    BY <1>1
  <2>2. /\ done >= 0
        /\ \A i \in 1..Len(todo) : todo[i] = busy.files[done + i]
        /\ \A i \in 1..done : FileIn(work', busy, busy.files[i])
    BY <1>1, Growth DEF CorpusInv, Progress
  <2>6. Len(busy.files) - Len(todo') = done + 1 /\ done \in Nat
    BY <2>1, <2>2
  <2>3. Head(todo) = todo[1] /\ \A i \in 1..Len(todo') : todo'[i] = todo[i + 1]
    BY <1>1, <2>1
  <2> HIDE DEF done
  <2>4. \A i \in 1..(done + 1) : FileIn(work', busy, busy.files[i])
    <3>1. FileIn(work', busy, busy.files[done + 1])
      BY <2>1, <2>2, <2>3
    <3> QED BY <2>2, <2>6, <3>1
  <2>5. \A i \in 1..Len(todo') : todo'[i] = busy.files[done + 1 + i]
    <3>1. ASSUME NEW i \in 1..Len(todo')
          PROVE  i + 1 \in 1..Len(todo) /\ done + (i + 1) = done + 1 + i
      BY <2>1, <2>6
    <3> QED BY <2>2, <2>3, <3>1
  <2> QED BY <1>1, <2>1, <2>2, <2>4, <2>5, <2>6 DEF Progress
<1>4. Committed'
  BY DEF CorpusInv, Committed
<1> QED BY <1>2, <1>3, <1>4 DEF CorpusInv

(***************************************************************************)
(* One lemma per kind of step.                                             *)
(***************************************************************************)
LEMMA BeginHolds ==
    ASSUME CorpusInv, NEW s \in Snapshot, Begin(s)
    PROVE  CorpusInv'
<1>1. /\ DOMAIN work' = Tables /\ work'.snapshots = db.snapshots \cup {s}
      /\ \A t \in Tables \ {"snapshots"} : work'[t] = db[t]
  BY DEF Begin, CorpusInv, WorkInv, Tables
<1>2. Grows(db, work')
  BY <1>1, TableNames DEF Grows
<1>3. {"entries", "files", "versions", "artifacts"} \subseteq Tables \ {"snapshots"}
  BY DEF Tables
<1>4. /\ work'.entries = db.entries /\ work'.files = db.files
      /\ work'.versions = db.versions /\ work'.artifacts = db.artifacts
  BY <1>1, <1>3
<1>5. Keyed(db.entries) /\ OneText(db.entries) /\ db.files \subseteq disk \cup damaged
  BY Growth DEF CorpusInv, WorkInv
<1>6. WorkInv'
  <2>1. \A v \in db.versions : VersionOfFile(v) /\ Kept(work', v)
    BY <1>2, Growth DEF CorpusInv, Committed
  <2>2. SnapshotRows(work') \subseteq work'.snapshots
    BY <1>1, <1>4 DEF SnapshotRows, CorpusInv, Committed
  <2>3. busy' = s /\ s # NoSnapshot /\ UNCHANGED <<db, disk, damaged>>
    BY CorpusAssumption DEF Begin
  <2> QED BY <1>1, <1>2, <1>4, <1>5, <2>1, <2>2, <2>3 DEF CorpusInv, WorkInv
<1>7. Progress'
  BY SnapshotFiles, CorpusAssumption DEF Progress, Begin
<1>8. Committed'
  BY DEF Begin, CorpusInv, Committed
<1> QED BY <1>6, <1>7, <1>8 DEF CorpusInv

LEMMA KnownFileHolds ==
    ASSUME CorpusInv, IngestKnownFile
    PROVE  CorpusInv'
<1> DEFINE f == Head(todo)
<1>1. PICK v \in KnownVersions(work, busy, f) : work' = WithVersion(work, v.key, busy, f)
  BY DEF IngestKnownFile
<1>2. todo # <<>> /\ f.kind = "session" /\ f \in File
  BY DEF IngestKnownFile, CorpusInv, Progress
<1>3. /\ v \in work.versions /\ v.content = f.content /\ v.path = f.path
      /\ v.key.machine = busy.machine
  BY DEF KnownVersions
<1>4. PICK g \in File : /\ g.kind = "session" /\ g.path = v.path /\ g.content = v.content
                        /\ v.key = [machine |-> v.key.machine, session |-> g.session]
  BY <1>3 DEF CorpusInv, WorkInv, VersionOfFile
<1>5. v.key = SessionKey(busy, f)
  BY <1>2, <1>3, <1>4, CorpusAssumption DEF SessionKey
<1> HIDE DEF f
<1>6. DOMAIN work = Tables
  BY DEF CorpusInv, WorkInv, Grows
<1>7. /\ Grows(work, work')
      /\ \A t \in Tables \ {"versions"} : work'[t] = work[t]
      /\ \A x \in work'.versions :
            x \in work.versions
              \/ x = [key |-> v.key, content |-> f.content, snapshot |-> busy, path |-> f.path]
      /\ \E x \in work'.versions :
            x.key = v.key /\ x.content = f.content /\ x.snapshot = busy
  BY <1>1, <1>6, VersionsGrow
<1>8. {"entries", "files", "snapshots", "artifacts"} \subseteq Tables \ {"versions"}
  BY DEF Tables
<1>9. /\ work'.entries = work.entries /\ work'.files = work.files
      /\ work'.snapshots = work.snapshots /\ work'.artifacts = work.artifacts
  BY <1>7, <1>8
<1>10. ASSUME NEW x \in work'.versions, x \notin work.versions
       PROVE  VersionOfFile(x) /\ Kept(work', x)
  <2>1. /\ x.key = v.key /\ x.content = f.content /\ x.path = f.path
    BY <1>7, <1>10
  <2>2. VersionOfFile(x)
    BY <1>3, <1>4, <2>1 DEF VersionOfFile
  <2>3. Kept(work', v)
    BY <1>3, <1>7, Growth DEF CorpusInv, WorkInv
  <2>4. Kept(work', x)
    BY <1>3, <2>1, <2>3 DEF Kept
  <2> QED BY <2>2, <2>4
<1>11. \A r \in work'.versions \cup work'.artifacts :
          r \in work.versions \cup work.artifacts \/ r.snapshot = busy
  BY <1>7, <1>9
<1>12. FileIn(work', busy, f)
  BY <1>2, <1>5, <1>7 DEF FileIn
<1>13. /\ Keyed(work'.entries) /\ OneText(work'.entries) /\ work'.files \subseteq disk' \cup damaged
       /\ UNCHANGED <<db, busy, damaged>> /\ todo' = Tail(todo)
  BY <1>9 DEF IngestKnownFile, CorpusInv, WorkInv
<1> QED BY <1>2, <1>7, <1>9, <1>10, <1>11, <1>12, <1>13, FileStep DEF f

LEMMA FileHolds ==
    ASSUME CorpusInv, IngestFile
    PROVE  CorpusInv'
<1> DEFINE f == Head(todo)
           d == [work EXCEPT !.files = @ \cup {f.content}]
<1>1. /\ todo # <<>> /\ todo' = Tail(todo) /\ UNCHANGED <<db, busy, damaged>> /\ f \in File
  BY DEF IngestFile, CorpusInv, Progress
<1>2. DOMAIN work = Tables /\ Keyed(work.entries) /\ OneText(work.entries)
      /\ work.files \subseteq disk \cup damaged
      /\ \A v \in work.versions : VersionOfFile(v) /\ Kept(work, v)
  BY DEF CorpusInv, WorkInv, Grows
<1>3. CASE f.kind = "image" /\ ~busy.images
  <2>1. UNCHANGED <<work, disk>>
    BY <1>3 DEF IngestFile
  <2>2. FileIn(work', busy, f) /\ Grows(work, work')
    BY <1>2, <1>3, <2>1 DEF FileIn, Grows
  <2> QED BY <1>1, <1>2, <2>1, <2>2, FileStep
<1>4. CASE ~(f.kind = "image" /\ ~busy.images)
  <2>1. disk' = disk \cup {f.content}
    BY <1>4 DEF IngestFile, StoreBlob, PutFile
  <2>2. /\ DOMAIN d = Tables /\ d.files = work.files \cup {f.content}
        /\ \A t \in Tables \ {"files"} : d[t] = work[t]
    BY <1>2 DEF Tables
  <2>3. Grows(work, d)
    BY <2>2, TableNames DEF Grows
  <2>4. {"entries", "versions", "snapshots", "artifacts", "conflicts"} \subseteq Tables \ {"files"}
    BY DEF Tables
  <2>5. /\ d.entries = work.entries /\ d.versions = work.versions /\ d.conflicts = work.conflicts
        /\ d.snapshots = work.snapshots /\ d.artifacts = work.artifacts
    BY <2>2, <2>4
  <2>6. work' = IF f.kind = "session" THEN WithSessionFile(d, busy, f) ELSE WithArtifact(d, busy, f)
    BY <1>4 DEF IngestFile
  <2> HIDE DEF d
  <2>7. CASE f.kind = "session"
    <3> DEFINE k == SessionKey(busy, f)
               c == f.content
    <3>1. work' = WithSessionFile(d, busy, f) /\ c \in Seq(Listed(c)) /\ IsKey(k)
      BY <1>1, <2>6, <2>7, CorpusAssumption DEF IsKey, SessionKey
    <3>2. DOMAIN c \subseteq Nat \ {0}
      BY <3>1
    <3> HIDE DEF c
    <3>3. /\ Grows(d, work') /\ work'.files = d.files /\ work'.snapshots = d.snapshots
          /\ work'.artifacts = d.artifacts /\ work'.versions = WithVersion(d, k, busy, f).versions
          /\ work'.conflicts = d.conflicts \cup ConflictsIn(d, k, c, busy)
          /\ work'.entries = WithEntries(d.entries, k, c, Inserted(d, k, c))
      BY <2>2, <3>1, SessionFileGrows DEF c
    <3> HIDE DEF k
    <3>4. Keyed(work'.entries) /\ OneText(work'.entries)
      BY <1>2, <2>5, <3>1, <3>2, <3>3, InsertedKeepOneText
    <3>5. Grows(work, work')
      BY <2>3, <3>3 DEF Grows
    <3>6. /\ \A v \in work'.versions : v \in work.versions
              \/ v = [key |-> k, content |-> c, snapshot |-> busy, path |-> f.path]
          /\ \E v \in work'.versions : v.key = k /\ v.content = c /\ v.snapshot = busy
      BY <2>2, <2>5, <3>3, VersionsGrow DEF c
    <3>7. ASSUME NEW v \in work'.versions, v \notin work.versions
          PROVE  VersionOfFile(v) /\ Kept(work', v)
      <4>1. v.key = k /\ v.content = c /\ v.path = f.path
        BY <3>6, <3>7
      <4>2. VersionOfFile(v)
        BY <1>1, <2>7, <4>1 DEF VersionOfFile, SessionKey, k, c
      <4>3. Kept(work', v)
        BY <3>1, <3>3, <4>1, LinesAreKept DEF Kept, Mine
      <4> QED BY <4>2, <4>3
    <3>8. FileIn(work', busy, f)
      BY <2>7, <3>6 DEF FileIn, k, c
    <3>9. \A r \in work'.versions \cup work'.artifacts :
              r \in work.versions \cup work.artifacts \/ r.snapshot = busy
      BY <2>5, <3>3, <3>6
    <3>10. work'.files \subseteq disk' \cup damaged /\ work'.snapshots = work.snapshots
      BY <1>2, <2>1, <2>2, <2>5, <3>3
    <3> HIDE DEF f
    <3> QED BY <1>1, <3>4, <3>5, <3>7, <3>8, <3>9, <3>10, FileStep DEF f
  <2>8. CASE f.kind # "session"
    <3>1. work' = WithArtifact(d, busy, f)
      BY <2>6, <2>8
    <3> HIDE DEF f
    <3>2. /\ Grows(d, work') /\ work'.entries = d.entries /\ work'.files = d.files
          /\ work'.snapshots = d.snapshots /\ work'.versions = d.versions
          /\ \A a \in work'.artifacts : a \in d.artifacts \/ a.snapshot = busy
          /\ \E a \in work'.artifacts : a.snapshot = busy /\ a.path = f.path
      BY <2>2, <3>1, ArtifactGrows
    <3>3. Grows(work, work')
      BY <2>3, <3>2 DEF Grows
    <3>4. FileIn(work', busy, f)
      BY <1>4, <2>8, <3>2 DEF FileIn
    <3>5. work'.files \subseteq disk' \cup damaged
      BY <1>2, <2>1, <2>2, <3>2
    <3> QED BY <1>1, <1>2, <2>5, <3>2, <3>3, <3>4, <3>5, FileStep DEF f
  <2> QED BY <2>7, <2>8
<1> QED BY <1>3, <1>4

LEMMA CommitHolds ==
    ASSUME CorpusInv, Commit
    PROVE  CorpusInv'
<1>1. busy \in Snapshot /\ todo = <<>> /\ db' = work /\ busy' = NoSnapshot
      /\ UNCHANGED <<work, todo, disk, damaged>>
  BY DEF Commit, CorpusInv, Progress
<1>2. \A i \in DOMAIN busy.files : FileIn(work, busy, busy.files[i])
  BY <1>1, SnapshotFiles, CorpusAssumption DEF CorpusInv, Progress
<1>3. \A s \in db.snapshots : \A i \in DOMAIN s.files : FileIn(work, s, s.files[i])
  BY Growth DEF CorpusInv, WorkInv, Committed
<1>4. work.snapshots = db.snapshots \cup {busy}
  BY <1>1, CorpusAssumption DEF CorpusInv, WorkInv
<1>5. Committed'
  BY <1>1, <1>2, <1>3, <1>4 DEF CorpusInv, WorkInv, Committed
<1>6. WorkInv'
  BY <1>1 DEF CorpusInv, WorkInv, Grows
<1>7. Progress'
  BY <1>1 DEF Progress, CorpusInv
<1> QED BY <1>5, <1>6, <1>7 DEF CorpusInv

LEMMA RollbackHolds ==
    ASSUME CorpusInv, Rollback, UNCHANGED <<disk, damaged>>
    PROVE  CorpusInv'
<1>1. DOMAIN db' = Tables /\ db' = db /\ work' = db'
  BY DEF Rollback, CorpusInv, WorkInv
<1> QED BY <1>1, Settled DEF Rollback

LEMMA IndexHolds ==
    ASSUME CorpusInv, LoseIndexRows \/ ReconcileFTS
    PROVE  CorpusInv'
<1>1. /\ work' = db' /\ busy' = NoSnapshot /\ todo' = <<>> /\ UNCHANGED <<disk, damaged>>
  BY DEF LoseIndexRows, ReconcileFTS, CorpusInv, Progress
<1>2. DOMAIN db' = Tables /\ \A t \in AppendOnly : db'[t] = db[t]
  BY DEF LoseIndexRows, ReconcileFTS, CorpusInv, WorkInv, AppendOnly, Tables
<1> QED BY <1>1, <1>2, Settled

LEMMA UnchangedTables ==
    ASSUME CorpusInv, UNCHANGED <<db, work, busy, todo>>,
           disk \cup damaged \subseteq disk' \cup damaged'
    PROVE  CorpusInv'
BY DEF CorpusInv, WorkInv, Progress, Committed

LEMMA InitHolds == CorpusInit => CorpusInv
<1> SUFFICES ASSUME CorpusInit PROVE CorpusInv
  OBVIOUS
<1>1. DOMAIN db = Tables /\ work = db /\ \A t \in Tables : db[t] = {}
  BY DEF CorpusInit
<1>2. {"snapshots", "files", "versions", "entries", "artifacts"} \subseteq Tables
  BY DEF Tables
<1>3. /\ db.snapshots = {} /\ db.files = {} /\ db.versions = {} /\ db.entries = {}
      /\ db.artifacts = {}
  BY <1>1, <1>2
<1>4. busy = NoSnapshot /\ todo = <<>>
  BY DEF CorpusInit
<1>5. WorkInv
  BY <1>1, <1>3, <1>4 DEF WorkInv, Grows, AppendOnly, Keyed, OneText, SnapshotRows
<1>6. Progress
  BY <1>4 DEF Progress
<1>7. Committed
  BY <1>3 DEF Committed, SnapshotRows
<1> QED BY <1>5, <1>6, <1>7 DEF CorpusInv

LEMMA StepHolds ==
    ASSUME CorpusInv, [CorpusNext]_corpusVars
    PROVE  CorpusInv'
<1>1. ASSUME NEW s \in Snapshot, Begin(s) PROVE CorpusInv'
  BY <1>1, BeginHolds
<1>2. CASE IngestKnownFile
  BY <1>2, KnownFileHolds
<1>3. CASE IngestFile
  BY <1>3, FileHolds
<1>4. CASE IngestRottenFile
  BY <1>4, RollbackHolds DEF IngestRottenFile
<1>5. CASE Commit
  BY <1>5, CommitHolds
<1>6. CASE Abandon
  BY <1>6, RollbackHolds DEF Abandon
<1>7. CASE LoseIndexRows \/ ReconcileFTS
  BY <1>7, IndexHolds
<1>8. ASSUME NEW b \in disk, DamageBlob(b) PROVE CorpusInv'
  BY <1>8, UnchangedTables DEF DamageBlob
<1>9. CASE UNCHANGED corpusVars
  BY <1>9, UnchangedTables DEF corpusVars
<1> QED BY <1>1, <1>2, <1>3, <1>4, <1>5, <1>6, <1>7, <1>8, <1>9 DEF CorpusNext

(***************************************************************************)
(* The rows of the derived tables: what each of them stands on.            *)
(***************************************************************************)
\* One row per entry of a session, with a line of some file.
EntryRows(d) ==
    /\ IsFiniteSet(d.entries)
    /\ \A e \in d.entries : e.line \in Transcript /\ e.no \in Nat
    /\ \A x, y \in d.entries : x.key = y.key /\ x.line.id = y.line.id => x = y

\* One row per paired call, told by the call's own line as it is stored.
TellsCall(e, r) ==
    /\ e.line.id = r.inv.entry /\ r.inv.ord \in DOMAIN e.line.calls
    /\ r.inv.tool = e.line.calls[r.inv.ord].tool /\ r.inv.family = e.line.calls[r.inv.ord].family
    /\ r.inv.at = e.line.at /\ r.inv.error \in BOOLEAN

CallRows(d) ==
    /\ IsFiniteSet(d.invocations)
    /\ \A r \in d.invocations : \E e \in Mine(d, r.key) : TellsCall(e, r)
    /\ \A q, r \in d.invocations :
          q.key = r.key /\ q.inv.entry = r.inv.entry /\ q.inv.ord = r.inv.ord => q = r

EpisodesOf(d, k) == {x \in d.episodes : x.key = k}

EpisodeRows(d) ==
    /\ \A r \in d.episodes : r = [key |-> r.key, ep |-> r.ep] /\ [key |-> r.key] \in d.sessions
    /\ \A r \in d.sessions :
          {x.ep : x \in EpisodesOf(d, r.key)} = AssembleEpisodes(InvocationsOf(d, r.key))

\* PolicyRespected of one set of tables.
Carries(s, k, id) ==
    \E i \in DOMAIN s.files : LET f == s.files[i] IN
        /\ f.kind = "session" /\ SessionKey(s, f) = k
        /\ \E j \in DOMAIN f.content : f.content[j].id = id
Allowed(d, k, id) == \E s \in d.snapshots : s.output /\ Carries(s, k, id)

PolicyRows(d) ==
    /\ \A m \in d.messages : m.text =>
          \/ \E e \in Mine(d, m.key) : e.line.id = m.entry /\ e.line.kind # "result"
          \/ Allowed(d, m.key, m.entry)
    /\ \A r \in d.invocations : r.inv.sig \notin {"", "tool_error"} => Allowed(d, r.key, r.inv.entry)
    /\ \A b \in d.images : \E s \in d.snapshots : s.images /\
          \E i \in DOMAIN s.files : s.files[i].content = b

\* What verify looks for: every row has the row it stands on.
MessageKeys(d) == {[key |-> m.key, entry |-> m.entry] : m \in d.messages}
BackedRows(d) ==
    /\ \A m \in d.messages \cup d.redactions : \E e \in Mine(d, m.key) : e.line.id = m.entry
    /\ \A x \in d.fts : x \in d.artifacts \/ x \in MessageKeys(d)

Rows(d) == EntryRows(d) /\ CallRows(d) /\ EpisodeRows(d) /\ PolicyRows(d) /\ BackedRows(d)

RowsInv ==
    /\ Rows(db) /\ Rows(work)
    /\ ~indexLost => Indexable(db) \subseteq db.fts /\ Indexable(work) \subseteq work.fts

\* Tables that differ in nothing the row invariants read, but for more snapshots.
SameRows(d, e) ==
    /\ e.sessions = d.sessions /\ e.entries = d.entries /\ e.messages = d.messages
    /\ e.fts = d.fts /\ e.redactions = d.redactions /\ e.invocations = d.invocations
    /\ e.episodes = d.episodes /\ e.artifacts = d.artifacts /\ e.images = d.images
    /\ d.snapshots \subseteq e.snapshots

IndexCovers(d) == Indexable(d) \subseteq d.fts

(***************************************************************************)
(* BuildToolInvocations on the parsed entries of a file.                   *)
(***************************************************************************)
Parsed(es) ==
    \E n \in Nat : DOMAIN es = 1..n /\ \A i \in 1..n : es[i].line \in Transcript

LEMMA Lines ==
    ASSUME NEW l \in Transcript
    PROVE  /\ l.id \in Nat /\ l.at \in Nat \cup {NoTime}
           /\ \E n \in Nat : DOMAIN l.calls = 1..n
           /\ \E n \in Nat : DOMAIN l.results = 1..n
           /\ \A j \in DOMAIN l.calls : l.calls[j].family \in STRING
           /\ \A j \in DOMAIN l.results : l.results[j].error \in BOOLEAN
<1>1. /\ l.id \in Nat /\ l.at \in Nat \cup {NoTime}
      /\ l.calls \in Seq(Listed(l.calls)) /\ l.results \in Seq(Listed(l.results))
      /\ \A c \in Listed(l.calls) : c.family \in STRING
      /\ \A r \in Listed(l.results) : r.error \in BOOLEAN
  BY CorpusAssumption
<1>2. DOMAIN l.calls = 1..Len(l.calls) /\ Len(l.calls) \in Nat
  BY <1>1
<1>3. DOMAIN l.results = 1..Len(l.results) /\ Len(l.results) \in Nat
  BY <1>1
<1>4. /\ \A j \in DOMAIN l.calls : l.calls[j] \in Listed(l.calls)
      /\ \A j \in DOMAIN l.results : l.results[j] \in Listed(l.results)
  BY DEF Listed
<1> QED BY <1>1, <1>2, <1>3, <1>4

LEMMA FiniteImage ==
    ASSUME NEW S, IsFiniteSet(S), NEW f
    PROVE  IsFiniteSet({f[x] : x \in S})
<1> DEFINE T == {f[x] : x \in S}
           g == [x \in S |-> f[x]]
<1>1. g \in Surjection(S, T)
  BY DEF Surjection
<1> HIDE DEF g, T
<1>2. IsFiniteSet(T)
  BY <1>1, FS_Surjection
<1> QED BY <1>2 DEF T

\* Places in a finite list of lists of finite length.
LEMMA FinitePlaces ==
    ASSUME NEW n \in Nat, NEW size, \A i \in 1..n : \E m \in Nat : size[i] = 1..m
    PROVE  LET places == UNION {{<<i, j>> : j \in size[i]} : i \in 1..n} IN
           /\ IsFiniteSet(places)
           /\ \A p \in places : p = <<p[1], p[2]>> /\ p[1] \in 1..n /\ p[2] \in size[p[1]]
                                /\ p[1] \in Nat /\ p[2] \in Nat
<1> DEFINE row == [i \in 1..n |-> {<<i, j>> : j \in size[i]}]
           places == UNION {{<<i, j>> : j \in size[i]} : i \in 1..n}
<1>1. ASSUME NEW i \in 1..n PROVE IsFiniteSet({<<i, j>> : j \in size[i]})
  <2> DEFINE f == [j \in size[i] |-> <<i, j>>]
  <2>1. IsFiniteSet(size[i])
    BY FS_Interval
  <2>2. IsFiniteSet({f[j] : j \in size[i]})
    <3> HIDE DEF f
    <3> QED BY <2>1, FiniteImage
  <2> QED BY <2>2
<1>2. IsFiniteSet({row[i] : i \in 1..n})
  <2>1. IsFiniteSet(1..n)
    BY FS_Interval
  <2> HIDE DEF row
  <2> QED BY <2>1, FiniteImage
<1>3. \A T \in {row[i] : i \in 1..n} : IsFiniteSet(T)
  BY <1>1
<1>4. IsFiniteSet(UNION {row[i] : i \in 1..n})
  <2> HIDE DEF row
  <2> QED BY <1>2, <1>3, FS_UNION
<1>5. UNION {row[i] : i \in 1..n} = places
  BY Zenon
<1>6. IsFiniteSet(places)
  <2> HIDE DEF row, places
  <2> QED BY <1>4, <1>5
<1>7. \A p \in places : p = <<p[1], p[2]>> /\ p[1] \in 1..n /\ p[2] \in size[p[1]]
                        /\ p[1] \in Nat /\ p[2] \in Nat
  OBVIOUS
<1> QED BY <1>6, <1>7

LEMMA CallPlaces ==
    ASSUME NEW es, Parsed(es)
    PROVE  /\ IsFiniteSet(CallsIn(es)) /\ IsFiniteSet(ResultsIn(es))
           /\ \A p \in CallsIn(es) :
                p = <<p[1], p[2]>> /\ p[1] \in DOMAIN es /\ p[2] \in DOMAIN es[p[1]].line.calls
                /\ p[1] \in Nat /\ p[2] \in Nat
           /\ \A p \in ResultsIn(es) :
                p = <<p[1], p[2]>> /\ p[1] \in DOMAIN es /\ p[2] \in DOMAIN es[p[1]].line.results
                /\ p[1] \in Nat /\ p[2] \in Nat
<1>1. PICK n \in Nat : DOMAIN es = 1..n /\ \A i \in 1..n : es[i].line \in Transcript
  BY DEF Parsed
<1> DEFINE calls == [i \in 1..n |-> DOMAIN es[i].line.calls]
           results == [i \in 1..n |-> DOMAIN es[i].line.results]
<1>2. /\ \A i \in 1..n : \E m \in Nat : calls[i] = 1..m
      /\ \A i \in 1..n : \E m \in Nat : results[i] = 1..m
  BY <1>1, Lines
<1>3. CallsIn(es) = UNION {{<<i, j>> : j \in calls[i]} : i \in 1..n}
  BY <1>1 DEF CallsIn
<1>4. ResultsIn(es) = UNION {{<<i, j>> : j \in results[i]} : i \in 1..n}
  BY <1>1 DEF ResultsIn
<1>5. \A i \in 1..n : calls[i] = DOMAIN es[i].line.calls /\ results[i] = DOMAIN es[i].line.results
  OBVIOUS
<1> HIDE DEF calls, results
<1>6. /\ IsFiniteSet(CallsIn(es))
      /\ \A p \in CallsIn(es) : p = <<p[1], p[2]>> /\ p[1] \in 1..n /\ p[2] \in calls[p[1]]
                                /\ p[1] \in Nat /\ p[2] \in Nat
  BY <1>2, <1>3, FinitePlaces
<1>7. /\ IsFiniteSet(ResultsIn(es))
      /\ \A p \in ResultsIn(es) : p = <<p[1], p[2]>> /\ p[1] \in 1..n /\ p[2] \in results[p[1]]
                                  /\ p[1] \in Nat /\ p[2] \in Nat
  BY <1>2, <1>4, FinitePlaces
<1> QED BY <1>1, <1>5, <1>6, <1>7

LEMMA SoonerOrders ==
    ASSUME NEW S, \A p \in S : p = <<p[1], p[2]>> /\ p[1] \in Nat /\ p[2] \in Nat
    PROVE  Orders({pp \in S \X S : Sooner(pp[1], pp[2])}, S)
<1> DEFINE R == {pp \in S \X S : Sooner(pp[1], pp[2])}
<1>1. ASSUME NEW x \in S PROVE ~Sooner(x, x)
  BY DEF Sooner
<1>2. ASSUME NEW x \in S, NEW y \in S, NEW z \in S, Sooner(x, y), Sooner(y, z) PROVE Sooner(x, z)
  BY <1>2 DEF Sooner
<1>3. ASSUME NEW x \in S, NEW y \in S, x # y PROVE Sooner(x, y) \/ Sooner(y, x)
  <2>1. x[1] \in Nat /\ x[2] \in Nat /\ y[1] \in Nat /\ y[2] \in Nat
        /\ ~(x[1] = y[1] /\ x[2] = y[2])
    BY <1>3
  <2> QED BY <2>1 DEF Sooner
<1> QED BY <1>1, <1>2, <1>3 DEF Orders

\* No call takes two results.
LEMMA OneOutcome ==
    ASSUME NEW es, Parsed(es), NEW c, NEW q \in OutcomesOf(es, c), NEW r \in OutcomesOf(es, c)
    PROVE  q = r
<1> DEFINE given == {x \in ResultsIn(es) : Outcome(es, x).for = Call(es, c).tool}
           R == {pp \in given \X given : Sooner(pp[1], pp[2])}
<1>1. q \in given /\ r \in given /\ Rank(q, given) = Rank(r, given)
  BY DEF OutcomesOf
<1>2. /\ IsFiniteSet(given)
      /\ \A p \in given : p = <<p[1], p[2]>> /\ p[1] \in Nat /\ p[2] \in Nat
  BY CallPlaces, FS_Subset
<1>3. Orders(R, given)
  <2> HIDE DEF given
  <2> QED BY <1>2, SoonerOrders
<1>4. \A x \in given : Rank(x, given) = Cardinality(Below(given, R, x))
  <2>1. \A x \in given : Below(given, R, x) = {y \in given : Sooner(y, x)}
    BY DEF Below
  <2> QED BY <2>1 DEF Rank
<1> HIDE DEF given, R
<1> QED BY <1>1, <1>2, <1>3, <1>4, RanksAreOrdered

LEMMA InvocationsAreFinite ==
    ASSUME NEW es, Parsed(es)
    PROVE  IsFiniteSet(BuildToolInvocations(es))
<1> DEFINE S == CallsIn(es) \X ResultsIn(es)
           f == [p \in S |-> Invocation(es, p[1], p[2])]
           T == {f[p] : p \in S}
<1>1. IsFiniteSet(S)
  BY CallPlaces, FS_Product
<1>2. IsFiniteSet(T)
  <2> HIDE DEF f, S
  <2> QED BY <1>1, FiniteImage
<1>3. ASSUME NEW x \in BuildToolInvocations(es) PROVE x \in T
  <2>1. PICK c \in CallsIn(es) : \E r \in OutcomesOf(es, c) : x = Invocation(es, c, r)
    BY DEF BuildToolInvocations
  <2>2. PICK r \in ResultsIn(es) : x = Invocation(es, c, r)
    BY <2>1 DEF OutcomesOf
  <2>3. <<c, r>> \in S /\ f[<<c, r>>] = Invocation(es, c, r)
    OBVIOUS
  <2> HIDE DEF f, S
  <2> QED BY <2>2, <2>3
<1> HIDE DEF T
<1> QED BY <1>2, <1>3, FS_Subset

\* What is paired is told by the line of the call, once for each key.
LEMMA InvocationsTellCalls ==
    ASSUME NEW es, Parsed(es), NEW x \in BuildToolInvocations(es)
    PROVE  \E c \in CallsIn(es) : \E r \in OutcomesOf(es, c) :
               /\ FirstOfItsKey(es, c) /\ r \in ResultsIn(es)
               /\ x = Invocation(es, c, r) /\ x.error \in BOOLEAN
<1>1. PICK c \in CallsIn(es) : FirstOfItsKey(es, c) /\ \E r \in OutcomesOf(es, c) : x = Invocation(es, c, r)
  BY DEF BuildToolInvocations
<1>2. PICK r \in OutcomesOf(es, c) : x = Invocation(es, c, r)
  BY <1>1
<1>3. r \in ResultsIn(es)
  BY DEF OutcomesOf
<1>4. r[1] \in DOMAIN es /\ r[2] \in DOMAIN es[r[1]].line.results
  BY <1>3, CallPlaces
<1>5. es[r[1]].line \in Transcript
  BY <1>4 DEF Parsed
<1>6. Outcome(es, r).error \in BOOLEAN
  BY <1>4, <1>5, Lines DEF Outcome
<1> QED BY <1>1, <1>2, <1>3, <1>6 DEF Invocation

LEMMA InvocationsHaveKeys ==
    ASSUME NEW es, Parsed(es),
           \A i, j \in DOMAIN es : es[i].line.id = es[j].line.id => es[i].line = es[j].line,
           NEW x \in BuildToolInvocations(es), NEW y \in BuildToolInvocations(es),
           x.entry = y.entry, x.ord = y.ord
    PROVE  x = y
<1>1. PICK c \in CallsIn(es) : \E q \in OutcomesOf(es, c) : FirstOfItsKey(es, c) /\ x = Invocation(es, c, q)
  BY InvocationsTellCalls
<1>9. PICK q \in OutcomesOf(es, c) : FirstOfItsKey(es, c) /\ x = Invocation(es, c, q)
  BY <1>1
<1>2. PICK d \in CallsIn(es) : \E r \in OutcomesOf(es, d) : FirstOfItsKey(es, d) /\ y = Invocation(es, d, r)
  BY InvocationsTellCalls
<1>10. PICK r \in OutcomesOf(es, d) : FirstOfItsKey(es, d) /\ y = Invocation(es, d, r)
  BY <1>2
<1>3. /\ c = <<c[1], c[2]>> /\ c[1] \in DOMAIN es /\ c[1] \in Nat /\ c[2] \in Nat
      /\ d = <<d[1], d[2]>> /\ d[1] \in DOMAIN es /\ d[1] \in Nat /\ d[2] \in Nat
  BY CallPlaces
<1>4. es[c[1]].line.id = es[d[1]].line.id /\ c[2] = d[2]
  BY <1>9, <1>10 DEF Invocation
<1>5. Call(es, c).tool = Call(es, d).tool
  BY <1>3, <1>4 DEF Call
<1>6. ~Sooner(c, d) /\ ~Sooner(d, c)
  BY <1>9, <1>10, <1>4, <1>5 DEF FirstOfItsKey
<1>7. c = d
  <2>1. c[1] = d[1]
    BY <1>3, <1>6 DEF Sooner
  <2> QED BY <1>3, <1>4, <2>1
<1>8. q = r
  BY <1>7, OneOutcome
<1> QED BY <1>9, <1>10, <1>7, <1>8

LEMMA NumberedLines ==
    ASSUME NEW c, c \in Seq(Listed(c)), NEW I \in SUBSET (DOMAIN c)
    PROVE  /\ Cardinality(I) \in Nat /\ DOMAIN Numbered(c, I) = 1..Cardinality(I)
           /\ \A n \in 1..Cardinality(I) : \E i \in I : Numbered(c, I)[n] = [line |-> c[i], no |-> i]
<1> DEFINE R == {p \in I \X I : p[1] < p[2]}
           place(n) == CHOOSE x \in I : Cardinality({y \in I : y < x}) = n - 1
<1>1. IsFiniteSet(I) /\ I \subseteq Nat
  <2>1. IsFiniteSet(DOMAIN c) /\ DOMAIN c \subseteq Nat
    <3>1. DOMAIN c = 1..Len(c) /\ Len(c) \in Nat
      OBVIOUS
    <3> QED BY <3>1, FS_Interval
  <2> QED BY <2>1, FS_Subset
<1>2. Orders(R, I)
  BY <1>1 DEF Orders
<1>3. \A x \in I : Below(I, R, x) = {y \in I : y < x}
  BY DEF Below
<1>4. Cardinality(I) \in Nat
  BY <1>1, FS_CardinalityType
<1>5. Numbered(c, I) = [n \in 1..Cardinality(I) |-> [line |-> c[place(n)], no |-> place(n)]]
  BY DEF Numbered
<1>6. ASSUME NEW n \in 1..Cardinality(I) PROVE place(n) \in I
  <2>1. n - 1 \in 0..(Cardinality(I) - 1)
    BY <1>4
  <2>2. \E x \in I : Cardinality(Below(I, R, x)) = n - 1
    <3> HIDE DEF R
    <3> QED BY <1>1, <1>2, <2>1, RanksAreAll
  <2>3. \E x \in I : Cardinality({y \in I : y < x}) = n - 1
    BY <1>3, <2>2
  <2> QED BY <2>3
<1> HIDE DEF place
<1> QED BY <1>4, <1>5, <1>6

(***************************************************************************)
(* The rows a session file leaves.                                         *)
(***************************************************************************)
LEMMA FiniteUnion ==
    ASSUME NEW S, NEW T, IsFiniteSet(S), IsFiniteSet(T)
    PROVE  IsFiniteSet(S \cup T)
BY FS_Union

LEMMA SessionFileTables ==
    ASSUME NEW d, DOMAIN d = Tables, NEW s, NEW f
    PROVE  LET k == SessionKey(s, f)
               c == f.content
               r == WithSessionFile(d, s, f)
               messages == MessagesIn(d, k, c, s)
           IN /\ r.sessions = d.sessions \cup {[key |-> k]}
              /\ r.messages = d.messages \cup messages
              /\ r.fts = d.fts \cup {[key |-> m.key, entry |-> m.entry] : m \in {x \in messages : x.text}}
              /\ r.redactions = d.redactions \cup {[key |-> k, entry |-> c[i].id] :
                                                      i \in {x \in Inserted(d, k, c) : c[x].secret}}
              /\ r.invocations = d.invocations \cup InvocationsIn(d, k, c, s)
              /\ r.entries = WithEntries(d.entries, k, c, Inserted(d, k, c))
              /\ r.images = d.images /\ r.artifacts = d.artifacts /\ r.snapshots = d.snapshots
              /\ r.episodes = {x \in d.episodes : x.key # k} \cup
                              {[key |-> k, ep |-> e] : e \in AssembleEpisodes(InvocationsOf(r, k))}
<1> DEFINE k == SessionKey(s, f)
           c == f.content
           new == Inserted(d, k, c)
           messages == MessagesIn(d, k, c, s)
           v == WithVersion(d, k, s, f)
           rows == [v EXCEPT
                    !.sessions  = @ \cup {[key |-> k]},
                    !.entries   = WithEntries(@, k, c, new),
                    !.messages  = @ \cup messages,
                    !.fts       = @ \cup {[key |-> m.key, entry |-> m.entry] :
                                             m \in {x \in messages : x.text}},
                    !.conflicts = @ \cup ConflictsIn(d, k, c, s),
                    !.redactions = @ \cup {[key |-> k, entry |-> c[i].id] :
                                              i \in {x \in new : c[x].secret}},
                    !.invocations = @ \cup InvocationsIn(d, k, c, s)]
           r == WithSessionFile(d, s, f)
<1>1. r = WithEpisodes(rows, k)
  BY DEF WithSessionFile
<1>2. DOMAIN v = Tables /\ \A t \in Tables \ {"versions"} : v[t] = d[t]
  BY VersionsGrow DEF Grows
<1>3. {"sessions", "messages", "fts", "redactions", "invocations", "entries", "images", "artifacts",
       "snapshots", "episodes"} \subseteq Tables \ {"versions"}
  BY DEF Tables
<1>4. /\ v.sessions = d.sessions /\ v.messages = d.messages /\ v.fts = d.fts
      /\ v.redactions = d.redactions /\ v.invocations = d.invocations /\ v.entries = d.entries
      /\ v.images = d.images /\ v.artifacts = d.artifacts /\ v.snapshots = d.snapshots
      /\ v.episodes = d.episodes
  BY <1>2, <1>3
<1> HIDE DEF v, messages, new
<1>5. /\ DOMAIN rows = Tables
      /\ rows.sessions = v.sessions \cup {[key |-> k]}
      /\ rows.messages = v.messages \cup messages
      /\ rows.fts = v.fts \cup {[key |-> m.key, entry |-> m.entry] : m \in {x \in messages : x.text}}
      /\ rows.redactions = v.redactions \cup {[key |-> k, entry |-> c[i].id] :
                                                 i \in {x \in new : c[x].secret}}
      /\ rows.invocations = v.invocations \cup InvocationsIn(d, k, c, s)
      /\ rows.entries = WithEntries(v.entries, k, c, new)
      /\ rows.images = v.images /\ rows.artifacts = v.artifacts /\ rows.snapshots = v.snapshots
      /\ rows.episodes = v.episodes
  BY <1>2 DEF Tables
<1> HIDE DEF rows
<1>6. /\ \A t \in Tables \ {"episodes"} : r[t] = rows[t]
      /\ r.episodes = {x \in rows.episodes : x.key # k} \cup
                      {[key |-> k, ep |-> e] : e \in AssembleEpisodes(InvocationsOf(rows, k))}
  <2> HIDE DEF r
  <2> QED BY <1>1, <1>5 DEF WithEpisodes, Tables
<1>7. {"sessions", "messages", "fts", "redactions", "invocations", "entries", "images", "artifacts",
       "snapshots"} \subseteq Tables \ {"episodes"}
  BY DEF Tables
<1>8. /\ r.sessions = rows.sessions /\ r.messages = rows.messages /\ r.fts = rows.fts
      /\ r.redactions = rows.redactions /\ r.invocations = rows.invocations
      /\ r.entries = rows.entries /\ r.images = rows.images /\ r.artifacts = rows.artifacts
      /\ r.snapshots = rows.snapshots
  <2> HIDE DEF r
  <2> QED BY <1>6, <1>7
<1>9. InvocationsOf(r, k) = InvocationsOf(rows, k)
  <2> HIDE DEF r
  <2> QED BY <1>8 DEF InvocationsOf, Mine
<1> HIDE DEF r
<1>10. /\ r.episodes = {x \in d.episodes : x.key # k} \cup
                       {[key |-> k, ep |-> e] : e \in AssembleEpisodes(InvocationsOf(r, k))}
  BY <1>4, <1>5, <1>6, <1>9
<1> QED BY <1>4, <1>5, <1>8, <1>10 DEF r, messages, new

LEMMA FileLines ==
    ASSUME NEW f \in File, f.kind = "session"
    PROVE  /\ f.content \in Seq(Listed(f.content))
           /\ \A i \in DOMAIN f.content : f.content[i] \in Transcript
<1>1. f.content \in Seq(Listed(f.content))
  BY CorpusAssumption
<1>2. Listed(f.content) \subseteq Transcript
  BY DEF Transcript
<1> QED BY <1>1, <1>2 DEF Listed

LEMMA EntryRowsKept ==
    ASSUME NEW d, NEW k, NEW c, EntryRows(d), c \in Seq(Listed(c)),
           \A i \in DOMAIN c : c[i] \in Transcript, NEW r,
           r.entries = WithEntries(d.entries, k, c, Inserted(d, k, c))
    PROVE  EntryRows(r)
<1> DEFINE new == {[key |-> k, line |-> c[i], no |-> i] : i \in Inserted(d, k, c)}
<1>1. r.entries = d.entries \cup new
  BY DEF WithEntries
<1>2. Inserted(d, k, c) \subseteq DOMAIN c /\ DOMAIN c = 1..Len(c) /\ Len(c) \in Nat
  BY DEF Inserted
<1>3. IsFiniteSet(new)
  <2> DEFINE g == [i \in Inserted(d, k, c) |-> [key |-> k, line |-> c[i], no |-> i]]
  <2>1. IsFiniteSet(Inserted(d, k, c))
    <3>1. IsFiniteSet(DOMAIN c)
      BY <1>2, FS_Interval
    <3> QED BY <1>2, <3>1, FS_Subset
  <2>2. IsFiniteSet({g[i] : i \in Inserted(d, k, c)})
    <3> HIDE DEF g
    <3> QED BY <2>1, FiniteImage
  <2> QED BY <2>2
<1>4. IsFiniteSet(r.entries)
  <2> HIDE DEF new
  <2> QED BY <1>1, <1>3, FiniteUnion DEF EntryRows
<1>5. \A e \in r.entries : e.line \in Transcript /\ e.no \in Nat
  BY <1>1, <1>2 DEF EntryRows
<1>6. ASSUME NEW x \in d.entries, NEW y \in new, x.key = y.key, x.line.id = y.line.id
      PROVE  FALSE
  BY <1>6 DEF Inserted, Mine
<1>7. ASSUME NEW x \in new, NEW y \in new, x.line.id = y.line.id PROVE x = y
  <2>1. PICK i \in Inserted(d, k, c) : x = [key |-> k, line |-> c[i], no |-> i]
    OBVIOUS
  <2>2. PICK j \in Inserted(d, k, c) : y = [key |-> k, line |-> c[j], no |-> j]
    OBVIOUS
  <2>3. i \in Nat \ {0} /\ j \in Nat \ {0} /\ c[i].id = c[j].id
    BY <1>2, <1>7, <2>1, <2>2
  <2>4. Blocked(d, k, c[i]) = {} /\ Blocked(d, k, c[j]) = {}
    BY DEF Inserted
  <2>5. i \notin 1..(j - 1) /\ j \notin 1..(i - 1)
    BY <2>3, <2>4 DEF Inserted
  <2>6. i = j
    BY <2>3, <2>5
  <2> QED BY <2>1, <2>2, <2>6
<1>8. \A x, y \in r.entries : x.key = y.key /\ x.line.id = y.line.id => x = y
  <2> HIDE DEF new
  <2> QED BY <1>1, <1>6, <1>7 DEF EntryRows
<1> QED BY <1>4, <1>5, <1>8 DEF EntryRows

LEMMA HeldAreStored ==
    ASSUME NEW d, NEW k, NEW c, NEW r, NEW i \in HeldLines(d, k, c),
           r.entries = WithEntries(d.entries, k, c, Inserted(d, k, c))
    PROVE  \E e \in Mine(r, k) : e.line = c[i]
<1>1. CASE \E e \in Mine(d, k) : e.line = c[i]
  BY <1>1 DEF WithEntries, Mine
<1>2. CASE \E j \in Inserted(d, k, c) : c[j] = c[i]
  <2>1. PICK j \in Inserted(d, k, c) : c[j] = c[i]
    BY <1>2
  <2>2. [key |-> k, line |-> c[j], no |-> j] \in r.entries
    BY <2>1 DEF WithEntries
  <2> QED BY <2>1, <2>2 DEF Mine
<1> QED BY <1>1, <1>2 DEF HeldLines

\* What the pairing of the held lines finds is told by entries that are stored.
LEMMA PairedAreStored ==
    ASSUME NEW d, NEW k, NEW c, NEW r, c \in Seq(Listed(c)),
           \A i \in DOMAIN c : c[i] \in Transcript, EntryRows(r),
           r.entries = WithEntries(d.entries, k, c, Inserted(d, k, c))
    PROVE  LET paired == BuildToolInvocations(Numbered(c, HeldLines(d, k, c))) IN
           /\ IsFiniteSet(paired)
           /\ \A x, y \in paired : x.entry = y.entry /\ x.ord = y.ord => x = y
           /\ \A x \in paired :
                /\ x = [entry |-> x.entry, tool |-> x.tool, ord |-> x.ord, family |-> x.family,
                        at |-> x.at, error |-> x.error, sig |-> x.sig]
                /\ \E i \in DOMAIN c : c[i].id = x.entry
                /\ \E e \in Mine(r, k) : TellsCall(e, [inv |-> x])
<1> DEFINE I == HeldLines(d, k, c)
           es == Numbered(c, I)
           paired == BuildToolInvocations(es)
<1>1. I \subseteq DOMAIN c
  BY DEF HeldLines
<1>2. /\ Cardinality(I) \in Nat /\ DOMAIN es = 1..Cardinality(I)
      /\ \A n \in 1..Cardinality(I) : \E i \in I : es[n] = [line |-> c[i], no |-> i]
  <2> HIDE DEF I
  <2> QED BY <1>1, NumberedLines
<1>3. \A n \in DOMAIN es : \E i \in I : es[n].line = c[i]
  BY <1>2
<1> HIDE DEF es
<1>4. Parsed(es)
  BY <1>1, <1>2, <1>3 DEF Parsed
<1>5. ASSUME NEW m \in DOMAIN es PROVE \E e \in Mine(r, k) : e.line = es[m].line
  BY <1>3, HeldAreStored
<1>6. \A m, n \in DOMAIN es : es[m].line.id = es[n].line.id => es[m].line = es[n].line
  BY <1>5 DEF EntryRows, Mine
<1>7. IsFiniteSet(paired) /\ \A x, y \in paired : x.entry = y.entry /\ x.ord = y.ord => x = y
  BY <1>4, <1>6, InvocationsAreFinite, InvocationsHaveKeys
<1>8. ASSUME NEW x \in paired
      PROVE  /\ x = [entry |-> x.entry, tool |-> x.tool, ord |-> x.ord, family |-> x.family,
                     at |-> x.at, error |-> x.error, sig |-> x.sig]
             /\ \E i \in DOMAIN c : c[i].id = x.entry
             /\ \E e \in Mine(r, k) : TellsCall(e, [inv |-> x])
  <2>1. PICK p \in CallsIn(es) : \E q \in OutcomesOf(es, p) : x = Invocation(es, p, q) /\ x.error \in BOOLEAN
    BY <1>4, InvocationsTellCalls
  <2>2. PICK q \in OutcomesOf(es, p) : x = Invocation(es, p, q) /\ x.error \in BOOLEAN
    BY <2>1
  <2>3. p[1] \in DOMAIN es /\ p[2] \in DOMAIN es[p[1]].line.calls
    BY <1>4, CallPlaces
  <2>4. PICK e \in Mine(r, k) : e.line = es[p[1]].line
    BY <1>5, <2>3
  <2>5. /\ x.entry = e.line.id /\ x.ord = p[2] /\ x.at = e.line.at
        /\ x.tool = e.line.calls[p[2]].tool /\ x.family = e.line.calls[p[2]].family
    BY <2>2, <2>4 DEF Invocation, Call
  <2>6. TellsCall(e, [inv |-> x])
    BY <2>2, <2>3, <2>4, <2>5 DEF TellsCall
  <2>7. \E i \in DOMAIN c : c[i].id = x.entry
    BY <1>1, <1>3, <2>3, <2>4, <2>5
  <2>8. x = [entry |-> x.entry, tool |-> x.tool, ord |-> x.ord, family |-> x.family,
             at |-> x.at, error |-> x.error, sig |-> x.sig]
    BY <2>2 DEF Invocation
  <2> QED BY <2>6, <2>7, <2>8
<1> QED BY <1>7, <1>8 DEF es

LEMMA CallRowsKept ==
    ASSUME NEW d, NEW k, NEW c, NEW s, NEW r, c \in Seq(Listed(c)),
           \A i \in DOMAIN c : c[i] \in Transcript, EntryRows(r), CallRows(d),
           r.entries = WithEntries(d.entries, k, c, Inserted(d, k, c)),
           r.invocations = d.invocations \cup InvocationsIn(d, k, c, s)
    PROVE  /\ CallRows(r)
           /\ \A x \in InvocationsIn(d, k, c, s) :
                 /\ x.key = k /\ \E i \in DOMAIN c : c[i].id = x.inv.entry
                 /\ x.inv.sig \notin {"", "tool_error"} => s.output
<1> DEFINE paired == BuildToolInvocations(Numbered(c, HeldLines(d, k, c)))
           fresh(y) == ~\E q \in d.invocations : /\ q.key = k /\ q.inv.entry = y.entry
                                                 /\ q.inv.tool = y.tool /\ q.inv.ord = y.ord
           row(x) == [key |-> k, inv |-> [x EXCEPT !.sig = StoredSignature(x, s)]]
           new == InvocationsIn(d, k, c, s)
<1>1. /\ IsFiniteSet(paired)
      /\ \A x, y \in paired : x.entry = y.entry /\ x.ord = y.ord => x = y
      /\ \A x \in paired :
            /\ x = [entry |-> x.entry, tool |-> x.tool, ord |-> x.ord, family |-> x.family,
                    at |-> x.at, error |-> x.error, sig |-> x.sig]
            /\ \E i \in DOMAIN c : c[i].id = x.entry
            /\ \E e \in Mine(r, k) : TellsCall(e, [inv |-> x])
  BY PairedAreStored
<1>2. new = {row(x) : x \in {y \in paired : fresh(y)}}
  BY DEF InvocationsIn
<1>3. \A e \in Mine(d, k) : e \in Mine(r, k)
  BY DEF Mine, WithEntries
<1>4. \A q \in d.invocations : \E e \in Mine(r, q.key) : TellsCall(e, q)
  <2>1. d.entries \subseteq r.entries
    BY DEF WithEntries
  <2> QED BY <2>1 DEF CallRows, Mine
<1> HIDE DEF paired, new
<1>5. ASSUME NEW x \in paired
      PROVE  /\ row(x).key = k /\ row(x).inv.entry = x.entry /\ row(x).inv.ord = x.ord
             /\ row(x).inv.tool = x.tool /\ row(x).inv.family = x.family /\ row(x).inv.at = x.at
             /\ row(x).inv.error = x.error /\ row(x).inv.sig = StoredSignature(x, s)
  <2> DEFINE sg == StoredSignature(x, s)
  <2> HIDE DEF sg
  <2>1. [x EXCEPT !.sig = sg] = [entry |-> x.entry, tool |-> x.tool, ord |-> x.ord,
              family |-> x.family, at |-> x.at, error |-> x.error, sig |-> sg]
    <3>1. x = [entry |-> x.entry, tool |-> x.tool, ord |-> x.ord, family |-> x.family,
               at |-> x.at, error |-> x.error, sig |-> x.sig]
      BY <1>1
    <3> DEFINE y == [entry |-> x.entry, tool |-> x.tool, ord |-> x.ord, family |-> x.family,
                     at |-> x.at, error |-> x.error, sig |-> x.sig]
    <3>2. [y EXCEPT !.sig = sg] = [entry |-> x.entry, tool |-> x.tool, ord |-> x.ord,
               family |-> x.family, at |-> x.at, error |-> x.error, sig |-> sg]
      OBVIOUS
    <3>3. x = y
      BY <3>1
    <3> HIDE DEF y
    <3> QED BY <3>2, <3>3
  <2> QED BY <2>1 DEF sg
<1>6. IsFiniteSet(new)
  <2> DEFINE S == {y \in paired : fresh(y)}
             g == [x \in S |-> row(x)]
  <2>1. IsFiniteSet(S)
    BY <1>1, FS_Subset
  <2>2. IsFiniteSet({g[x] : x \in S})
    <3> HIDE DEF g, S
    <3> QED BY <2>1, FiniteImage
  <2>3. {g[x] : x \in S} = new
    <3> HIDE DEF row, fresh
    <3> QED BY <1>2
  <2> QED BY <2>2, <2>3
<1>7. ASSUME NEW z \in new
      PROVE  \E x \in paired : /\ z = row(x) /\ fresh(x)
                               /\ \E e \in Mine(r, k) : TellsCall(e, z)
  <2>1. PICK x \in paired : fresh(x) /\ z = row(x)
    <3> HIDE DEF row, fresh
    <3> QED BY <1>2
  <2>2. PICK e \in Mine(r, k) : TellsCall(e, [inv |-> x])
    BY <1>1
  <2>3. TellsCall(e, z)
    <3> HIDE DEF row
    <3> QED BY <1>5, <2>1, <2>2 DEF TellsCall
  <2> QED BY <2>1, <2>3
<1>8. \A z \in new : z.key = k
  BY <1>5, <1>7
<1>9. ASSUME NEW q \in d.invocations, NEW z \in new, q.key = z.key,
             q.inv.entry = z.inv.entry, q.inv.ord = z.inv.ord
      PROVE  FALSE
  <2>1. PICK x \in paired : z = row(x) /\ fresh(x) /\ \E e \in Mine(r, k) : TellsCall(e, z)
    BY <1>7
  <2>2. PICK e \in Mine(r, k) : TellsCall(e, z)
    BY <2>1
  <2>3. PICK e2 \in Mine(r, k) : TellsCall(e2, q)
    BY <1>4, <1>8, <1>9
  <2>4. e = e2
    BY <1>9, <2>2, <2>3 DEF TellsCall, EntryRows, Mine
  <2>5. q.inv.tool = z.inv.tool
    BY <1>9, <2>2, <2>3, <2>4 DEF TellsCall
  <2>6. z.inv.entry = x.entry /\ z.inv.ord = x.ord /\ z.inv.tool = x.tool
    <3> HIDE DEF row
    <3> QED BY <1>5, <2>1
  <2> QED BY <1>8, <1>9, <2>1, <2>5, <2>6
<1>10. ASSUME NEW y \in new, NEW z \in new, y.inv.entry = z.inv.entry, y.inv.ord = z.inv.ord
       PROVE  y = z
  <2> HIDE DEF row, fresh
  <2>1. PICK x \in paired : y = row(x)
    BY <1>7
  <2>2. PICK w \in paired : z = row(w)
    BY <1>7
  <2>3. x = w
    BY <1>1, <1>5, <1>10, <2>1, <2>2
  <2> QED BY <2>1, <2>2, <2>3
<1> HIDE DEF row, fresh
<1>14. r.invocations = d.invocations \cup new
  BY DEF new
<1>11. CallRows(r)
  <2>1. IsFiniteSet(r.invocations)
    BY <1>6, <1>14, FiniteUnion DEF CallRows
  <2>2. \A q \in r.invocations : \E e \in Mine(r, q.key) : TellsCall(e, q)
    BY <1>4, <1>7, <1>8, <1>14
  <2>3. \A q, z \in r.invocations :
          q.key = z.key /\ q.inv.entry = z.inv.entry /\ q.inv.ord = z.inv.ord => q = z
    BY <1>9, <1>10, <1>14 DEF CallRows
  <2> QED BY <2>1, <2>2, <2>3 DEF CallRows
<1>12. ASSUME NEW z \in new
       PROVE  /\ z.key = k /\ \E i \in DOMAIN c : c[i].id = z.inv.entry
              /\ z.inv.sig \notin {"", "tool_error"} => s.output
  <2>1. PICK x \in paired : z = row(x)
    BY <1>7
  <2>2. z.inv.entry = x.entry /\ z.inv.sig = StoredSignature(x, s)
    BY <1>5, <2>1
  <2>3. x.error /\ ~s.output => StoredSignature(x, s) = "tool_error"
    BY DEF StoredSignature
  <2>4. ~x.error => StoredSignature(x, s) = ""
    BY DEF StoredSignature
  <2>5. z.inv.sig \notin {"", "tool_error"} => s.output
    BY <2>2, <2>3, <2>4
  <2> QED BY <1>1, <1>8, <2>2, <2>5
<1> QED BY <1>11, <1>12 DEF new

LEMMA InvocationsAreTold ==
    ASSUME NEW d, EntryRows(d), CallRows(d), NEW k
    PROVE  Told(InvocationsOf(d, k))
<1> DEFINE mine == {r \in d.invocations : r.key = k}
           pairs == {x \in mine \X Mine(d, k) : x[1].inv.entry = x[2].line.id}
           tell(p) == [entry |-> p[1].inv.entry, tool |-> p[1].inv.tool, ord |-> p[1].inv.ord,
                       at |-> p[1].inv.at, family |-> p[1].inv.family, error |-> p[1].inv.error,
                       sig |-> p[1].inv.sig, no |-> p[2].no]
           invs == InvocationsOf(d, k)
<1>1. invs = {tell(p) : p \in pairs}
  BY DEF InvocationsOf
<1>2. IsFiniteSet(invs)
  <2> DEFINE f == [p \in pairs |-> tell(p)]
  <2>1. IsFiniteSet(mine) /\ IsFiniteSet(Mine(d, k))
    BY FS_Subset DEF EntryRows, CallRows, Mine
  <2>2. IsFiniteSet(mine \X Mine(d, k))
    <3> HIDE DEF mine
    <3> QED BY <2>1, FS_Product
  <2>3. IsFiniteSet(pairs)
    <3> HIDE DEF mine
    <3> QED BY <2>2, FS_Subset
  <2>4. IsFiniteSet({f[p] : p \in pairs})
    <3> HIDE DEF f, pairs
    <3> QED BY <2>3, FiniteImage
  <2>5. {f[p] : p \in pairs} = invs
    <3> HIDE DEF tell, pairs
    <3> QED BY <1>1
  <2> QED BY <2>4, <2>5
<1>3. ASSUME NEW p \in pairs
      PROVE  /\ p[1] \in d.invocations /\ p[1].key = k /\ p[2] \in Mine(d, k) /\ p = <<p[1], p[2]>>
             /\ TellsCall(p[2], p[1])
  <2>1. PICK e \in Mine(d, k) : TellsCall(e, p[1])
    BY DEF CallRows
  <2>2. e = p[2]
    BY <2>1 DEF TellsCall, EntryRows, Mine
  <2> QED BY <2>1, <2>2
<1>4. ASSUME NEW x \in invs
      PROVE  /\ x.at \in Nat \cup {NoTime} /\ x.no \in Nat /\ x.entry \in Nat
             /\ x.ord \in Nat /\ x.family \in STRING /\ x.error \in BOOLEAN
  <2>1. PICK p \in pairs : x = tell(p)
    BY <1>1
  <2>2. TellsCall(p[2], p[1]) /\ p[2] \in d.entries
    BY <1>3 DEF Mine
  <2>3. p[2].line \in Transcript /\ p[2].no \in Nat
    BY <2>2 DEF EntryRows
  <2>4. /\ p[1].inv.at \in Nat \cup {NoTime} /\ p[1].inv.entry \in Nat /\ p[1].inv.ord \in Nat
        /\ p[1].inv.family \in STRING /\ p[1].inv.error \in BOOLEAN
    BY <2>2, <2>3, Lines DEF TellsCall
  <2> QED BY <2>1, <2>3, <2>4
<1>5. ASSUME NEW x \in invs, NEW y \in invs, x.entry = y.entry, x.ord = y.ord PROVE x = y
  <2>1. PICK p \in pairs : x = tell(p)
    BY <1>1
  <2>2. PICK q \in pairs : y = tell(q)
    BY <1>1
  <2>3. p[1] = q[1]
    BY <1>3, <1>5, <2>1, <2>2 DEF CallRows
  <2>4. p[2] = q[2]
    BY <1>3, <2>3 DEF EntryRows, Mine, TellsCall
  <2> QED BY <2>1, <2>2, <2>3, <2>4
<1> QED BY <1>2, <1>4, <1>5 DEF Told

LEMMA OtherSessionsApart ==
    ASSUME NEW d, NEW r, NEW k, NEW q, q # k,
           \A e \in r.entries : e \in d.entries \/ e.key = k, d.entries \subseteq r.entries,
           \A x \in r.invocations : x \in d.invocations \/ x.key = k,
           d.invocations \subseteq r.invocations
    PROVE  InvocationsOf(r, q) = InvocationsOf(d, q)
<1>1. Mine(r, q) = Mine(d, q)
  BY DEF Mine
<1>2. {x \in r.invocations : x.key = q} = {x \in d.invocations : x.key = q}
  OBVIOUS
<1> QED BY <1>1, <1>2 DEF InvocationsOf

LEMMA EpisodeRowsKept ==
    ASSUME NEW d, NEW r, NEW k, EpisodeRows(d),
           \A e \in r.entries : e \in d.entries \/ e.key = k, d.entries \subseteq r.entries,
           \A x \in r.invocations : x \in d.invocations \/ x.key = k,
           d.invocations \subseteq r.invocations,
           r.sessions = d.sessions \cup {[key |-> k]},
           r.episodes = {x \in d.episodes : x.key # k} \cup
                        {[key |-> k, ep |-> e] : e \in AssembleEpisodes(InvocationsOf(r, k))}
    PROVE  EpisodeRows(r)
<1>1. ASSUME NEW x \in r.episodes
      PROVE  x = [key |-> x.key, ep |-> x.ep] /\ [key |-> x.key] \in r.sessions
  <2>1. CASE x \in d.episodes
    BY <2>1 DEF EpisodeRows
  <2>2. CASE x \notin d.episodes
    <3>1. PICK e \in AssembleEpisodes(InvocationsOf(r, k)) : x = [key |-> k, ep |-> e]
      BY <2>2
    <3> QED BY <3>1
  <2> QED BY <2>1, <2>2
<1>2. {x.ep : x \in EpisodesOf(r, k)} = AssembleEpisodes(InvocationsOf(r, k))
  <2> DEFINE all == AssembleEpisodes(InvocationsOf(r, k))
  <2> HIDE DEF all
  <2>1. r.episodes = {x \in d.episodes : x.key # k} \cup {[key |-> k, ep |-> e] : e \in all}
    BY DEF all
  <2>2. \A e \in all : [key |-> k, ep |-> e] \in EpisodesOf(r, k) /\ [key |-> k, ep |-> e].ep = e
    BY <2>1 DEF EpisodesOf
  <2>3. \A x \in EpisodesOf(r, k) : x.ep \in all
    BY <2>1 DEF EpisodesOf
  <2>4. {x.ep : x \in EpisodesOf(r, k)} = all
    BY <2>2, <2>3
  <2> QED BY <2>4 DEF all
<1>3. ASSUME NEW q \in d.sessions, q.key # k
      PROVE  {x.ep : x \in EpisodesOf(r, q.key)} = AssembleEpisodes(InvocationsOf(r, q.key))
  <2>1. InvocationsOf(r, q.key) = InvocationsOf(d, q.key)
    BY <1>3, OtherSessionsApart
  <2>2. EpisodesOf(r, q.key) = EpisodesOf(d, q.key)
    BY <1>3 DEF EpisodesOf
  <2> QED BY <2>1, <2>2 DEF EpisodeRows
<1> QED BY <1>1, <1>2, <1>3 DEF EpisodeRows

\* What a message says of its line, which is stored.
SaysLine(r, k, c, s, m) ==
    \E i \in DOMAIN c : /\ m.key = k /\ m.entry = c[i].id /\ m.text = IndexText(c[i], s)
                        /\ \E e \in Mine(r, k) : e.line = c[i]

LEMMA MessagesAreStored ==
    ASSUME NEW d, NEW k, NEW c, NEW s, NEW r, c \in Seq(Listed(c)),
           r.entries = WithEntries(d.entries, k, c, Inserted(d, k, c)),
           NEW m \in MessagesIn(d, k, c, s)
    PROVE  SaysLine(r, k, c, s, m)
<1>1. PICK i \in Accepted(d, k, c) : m = [key |-> k, entry |-> c[i].id, text |-> IndexText(c[i], s)]
  BY DEF MessagesIn
<1>2. PICK e \in r.entries : e.key = k /\ e.line = c[i]
  BY AcceptedAreStored
<1>3. i \in DOMAIN c
  BY DEF Accepted
<1>4. m.key = k /\ m.entry = c[i].id /\ m.text = IndexText(c[i], s)
  BY <1>1
<1> QED BY <1>2, <1>3, <1>4 DEF Mine, SaysLine

\* What an invocation says of its line.
SaysCall(k, c, s, x) ==
    /\ x.key = k /\ \E i \in DOMAIN c : c[i].id = x.inv.entry
    /\ x.inv.sig \notin {"", "tool_error"} => s.output

LEMMA PolicyRowsKept ==
    ASSUME NEW d, NEW r, NEW s, NEW k, NEW c, PolicyRows(d),
           s \in d.snapshots, r.snapshots = d.snapshots, \A i \in DOMAIN c : Carries(s, k, c[i].id),
           r.entries = WithEntries(d.entries, k, c, Inserted(d, k, c)),
           NEW new, r.messages = d.messages \cup new, \A m \in new : SaysLine(r, k, c, s, m),
           r.images = d.images,
           \A x \in r.invocations : x \in d.invocations \/ SaysCall(k, c, s, x)
    PROVE  PolicyRows(r)
<1>2. \A q, id : Allowed(r, q, id) <=> Allowed(d, q, id)
  BY DEF Allowed
<1>3. \A i \in DOMAIN c : s.output => Allowed(d, k, c[i].id)
  BY DEF Allowed
<1>4. \A q : Mine(d, q) \subseteq Mine(r, q)
  BY DEF Mine, WithEntries
<1>5. ASSUME NEW m \in r.messages, m.text
      PROVE  \/ \E e \in Mine(r, m.key) : e.line.id = m.entry /\ e.line.kind # "result"
             \/ Allowed(r, m.key, m.entry)
  <2>1. CASE m \in d.messages
    BY <1>2, <1>4, <1>5, <2>1 DEF PolicyRows
  <2>2. CASE m \in new
    <3>1. PICK i \in DOMAIN c : /\ m.key = k /\ m.entry = c[i].id /\ m.text = IndexText(c[i], s)
                                /\ \E e \in Mine(r, k) : e.line = c[i]
      BY <2>2 DEF SaysLine
    <3>2. c[i].kind = "result" => s.output
      BY <1>5, <3>1 DEF IndexText
    <3> QED BY <1>2, <1>3, <3>1, <3>2
  <2> QED BY <2>1, <2>2
<1>6. ASSUME NEW x \in r.invocations, x.inv.sig \notin {"", "tool_error"}
      PROVE  Allowed(r, x.key, x.inv.entry)
  <2>1. CASE x \in d.invocations
    BY <1>2, <1>6, <2>1 DEF PolicyRows
  <2>2. CASE x \notin d.invocations
    <3>1. x.key = k /\ s.output /\ \E i \in DOMAIN c : c[i].id = x.inv.entry
      BY <1>6, <2>2 DEF SaysCall
    <3> QED BY <1>2, <1>3, <3>1
  <2> QED BY <2>1, <2>2
<1>7. ASSUME NEW b \in r.images
      PROVE  \E t \in r.snapshots : t.images /\ \E i \in DOMAIN t.files : t.files[i].content = b
  BY DEF PolicyRows
<1> QED BY <1>5, <1>6, <1>7 DEF PolicyRows

LEMMA BackedRowsKept ==
    ASSUME NEW d, NEW r, NEW k, NEW c, NEW s, BackedRows(d),
           \A m \in MessagesIn(d, k, c, s) : SaysLine(r, k, c, s, m),
           r.entries = WithEntries(d.entries, k, c, Inserted(d, k, c)),
           r.messages = d.messages \cup MessagesIn(d, k, c, s),
           r.fts = d.fts \cup {[key |-> m.key, entry |-> m.entry] :
                                 m \in {x \in MessagesIn(d, k, c, s) : x.text}},
           r.redactions = d.redactions \cup {[key |-> k, entry |-> c[i].id] :
                                               i \in {x \in Inserted(d, k, c) : c[x].secret}},
           r.artifacts = d.artifacts, r.images = d.images
    PROVE  /\ BackedRows(r)
           /\ Indexable(d) \subseteq d.fts => Indexable(r) \subseteq r.fts
<1>1. \A q : Mine(d, q) \subseteq Mine(r, q)
  BY DEF Mine, WithEntries
<1>2. ASSUME NEW m \in MessagesIn(d, k, c, s)
      PROVE  \E e \in Mine(r, m.key) : e.line.id = m.entry
  BY DEF SaysLine
<1>3. ASSUME NEW i \in Inserted(d, k, c)
      PROVE  \E e \in Mine(r, k) : e.line.id = c[i].id
  <2>1. [key |-> k, line |-> c[i], no |-> i] \in r.entries
    BY DEF WithEntries
  <2> QED BY <2>1 DEF Mine
<1>4. \A m \in r.messages \cup r.redactions : \E e \in Mine(r, m.key) : e.line.id = m.entry
  <2>1. ASSUME NEW m \in d.messages \cup d.redactions
        PROVE  \E e \in Mine(r, m.key) : e.line.id = m.entry
    BY <1>1 DEF BackedRows
  <2>2. ASSUME NEW m \in r.redactions, m \notin d.redactions
        PROVE  \E e \in Mine(r, m.key) : e.line.id = m.entry
    <3>1. PICK i \in Inserted(d, k, c) : m = [key |-> k, entry |-> c[i].id]
      BY <2>2
    <3> QED BY <1>3, <3>1
  <2> QED BY <1>2, <2>1, <2>2
<1>5. \A x \in r.fts : x \in r.artifacts \/ x \in MessageKeys(r)
  BY DEF BackedRows, MessageKeys
<1>6. ASSUME Indexable(d) \subseteq d.fts PROVE Indexable(r) \subseteq r.fts
  BY <1>6 DEF Indexable
<1> QED BY <1>4, <1>5, <1>6 DEF BackedRows

(***************************************************************************)
(* Every step keeps the rows.                                              *)
(***************************************************************************)
\* The parts of Rows that the rows of artifacts and the index leave alone.
LEMMA OtherTablesRows ==
    ASSUME NEW d, NEW e, Rows(d), e.sessions = d.sessions, e.entries = d.entries,
           e.invocations = d.invocations, e.episodes = d.episodes
    PROVE  EntryRows(e) /\ CallRows(e) /\ EpisodeRows(e) /\ \A k : Mine(e, k) = Mine(d, k)
<1>1. \A k : Mine(e, k) = Mine(d, k) /\ EpisodesOf(e, k) = EpisodesOf(d, k)
             /\ InvocationsOf(e, k) = InvocationsOf(d, k)
  BY DEF Mine, EpisodesOf, InvocationsOf
<1>2. EntryRows(e)
  BY DEF Rows, EntryRows
<1>3. CallRows(e)
  BY <1>1 DEF Rows, CallRows
<1>4. EpisodeRows(e)
  BY <1>1 DEF Rows, EpisodeRows
<1> QED BY <1>1, <1>2, <1>3, <1>4

LEMMA SameRowsKept ==
    ASSUME NEW d, NEW e, Rows(d), SameRows(d, e)
    PROVE  Rows(e) /\ (IndexCovers(d) => IndexCovers(e))
<1>1. EntryRows(e) /\ CallRows(e) /\ EpisodeRows(e) /\ \A k : Mine(e, k) = Mine(d, k)
  BY OtherTablesRows DEF SameRows
<1>2. \A k, id : Allowed(d, k, id) => Allowed(e, k, id)
  BY DEF Allowed, SameRows
<1>3. \A m \in d.messages : m.text =>
          \/ \E x \in Mine(d, m.key) : x.line.id = m.entry /\ x.line.kind # "result"
          \/ Allowed(d, m.key, m.entry)
  BY DEF Rows, PolicyRows
<1>4. \A m \in e.messages : m.text =>
          \/ \E x \in Mine(e, m.key) : x.line.id = m.entry /\ x.line.kind # "result"
          \/ Allowed(e, m.key, m.entry)
  BY <1>1, <1>2, <1>3 DEF SameRows
<1>5. \A r \in e.invocations : r.inv.sig \notin {"", "tool_error"} => Allowed(e, r.key, r.inv.entry)
  BY <1>2 DEF Rows, PolicyRows, SameRows
<1>6. \A b \in e.images : \E s \in e.snapshots : s.images /\
          \E i \in DOMAIN s.files : s.files[i].content = b
  BY DEF Rows, PolicyRows, SameRows
<1>7. BackedRows(e)
  BY <1>1 DEF Rows, BackedRows, MessageKeys, SameRows
<1>8. IndexCovers(d) => IndexCovers(e)
  BY DEF IndexCovers, Indexable, SameRows
<1> QED BY <1>1, <1>4, <1>5, <1>6, <1>7, <1>8 DEF Rows, PolicyRows

LEMMA SessionFileRows ==
    ASSUME NEW d, DOMAIN d = Tables, Rows(d), NEW s \in d.snapshots,
           NEW f \in File, f \in Listed(s.files), f.kind = "session"
    PROVE  /\ Rows(WithSessionFile(d, s, f))
           /\ IndexCovers(d) => IndexCovers(WithSessionFile(d, s, f))
<1> DEFINE k == SessionKey(s, f)
           c == f.content
           r == WithSessionFile(d, s, f)
           messages == MessagesIn(d, k, c, s)
           calls == InvocationsIn(d, k, c, s)
<1>1. /\ r.sessions = d.sessions \cup {[key |-> k]}
      /\ r.messages = d.messages \cup messages
      /\ r.fts = d.fts \cup {[key |-> m.key, entry |-> m.entry] : m \in {x \in messages : x.text}}
      /\ r.redactions = d.redactions \cup {[key |-> k, entry |-> c[i].id] :
                                              i \in {x \in Inserted(d, k, c) : c[x].secret}}
      /\ r.invocations = d.invocations \cup calls
      /\ r.entries = WithEntries(d.entries, k, c, Inserted(d, k, c))
      /\ r.images = d.images /\ r.artifacts = d.artifacts /\ r.snapshots = d.snapshots
      /\ r.episodes = {x \in d.episodes : x.key # k} \cup
                      {[key |-> k, ep |-> e] : e \in AssembleEpisodes(InvocationsOf(r, k))}
  BY SessionFileTables
<1>2. c \in Seq(Listed(c)) /\ \A i \in DOMAIN c : c[i] \in Transcript
  BY FileLines
<1>3. \A i \in DOMAIN c : Carries(s, k, c[i].id)
  <2>1. PICK n \in DOMAIN s.files : s.files[n] = f
    BY DEF Listed
  <2> QED BY <2>1 DEF Carries
<1> HIDE DEF k, c, r
<1>4. EntryRows(r)
  BY <1>1, <1>2, EntryRowsKept DEF Rows
<1>5. /\ CallRows(r)
      /\ \A x \in calls : /\ x.key = k /\ \E i \in DOMAIN c : c[i].id = x.inv.entry
                          /\ x.inv.sig \notin {"", "tool_error"} => s.output
  BY <1>1, <1>2, <1>4, CallRowsKept DEF Rows
<1>6. \A m \in messages : SaysLine(r, k, c, s, m)
  BY <1>1, <1>2, MessagesAreStored
<1> HIDE DEF messages, calls
<1>7. EpisodeRows(r)
  <2>1. d.entries \subseteq r.entries /\ \A e \in r.entries : e \in d.entries \/ e.key = k
    BY <1>1 DEF WithEntries
  <2>2. d.invocations \subseteq r.invocations /\ \A x \in r.invocations : x \in d.invocations \/ x.key = k
    BY <1>1, <1>5
  <2> QED BY <1>1, <2>1, <2>2, EpisodeRowsKept DEF Rows
<1>8. PolicyRows(r)
  <2>1. \A x \in r.invocations : x \in d.invocations \/ SaysCall(k, c, s, x)
    BY <1>1, <1>5 DEF SaysCall
  <2>2. PolicyRows(d)
    BY DEF Rows
  <2>3. r.messages = d.messages \cup messages /\ \A m \in messages : SaysLine(r, k, c, s, m)
    BY <1>1, <1>6
  <2>4. /\ r.entries = WithEntries(d.entries, k, c, Inserted(d, k, c))
        /\ r.snapshots = d.snapshots /\ r.images = d.images
    BY <1>1
  <2> QED BY <1>3, <2>1, <2>2, <2>3, <2>4, PolicyRowsKept
<1>9. BackedRows(r) /\ (IndexCovers(d) => IndexCovers(r))
  BY <1>1, <1>6, BackedRowsKept DEF Rows, IndexCovers, messages
<1> QED BY <1>4, <1>5, <1>7, <1>8, <1>9 DEF Rows, r

LEMMA ArtifactRows ==
    ASSUME NEW d, DOMAIN d = Tables, Rows(d), NEW s \in d.snapshots,
           NEW f \in Listed(s.files), f.kind = "image" => s.images
    PROVE  /\ Rows(WithArtifact(d, s, f))
           /\ IndexCovers(d) => IndexCovers(WithArtifact(d, s, f))
<1> DEFINE row == [content |-> f.content, snapshot |-> s, path |-> f.path, parent |-> SessionKey(s, f)]
           e == WithArtifact(d, s, f)
<1>1. /\ e.sessions = d.sessions /\ e.entries = d.entries /\ e.messages = d.messages
      /\ e.redactions = d.redactions /\ e.invocations = d.invocations
      /\ e.episodes = d.episodes /\ e.snapshots = d.snapshots
      /\ e.artifacts = d.artifacts \cup {row}
      /\ e.fts = IF f.kind = "image" THEN d.fts ELSE d.fts \cup {row}
      /\ e.images = IF f.kind = "image" THEN d.images \cup {f.content} ELSE d.images
  BY DEF WithArtifact, Tables
<1> HIDE DEF e
<1>2. EntryRows(e) /\ CallRows(e) /\ EpisodeRows(e) /\ \A k : Mine(e, k) = Mine(d, k)
  BY <1>1, OtherTablesRows
<1>3. \A k, id : Allowed(e, k, id) <=> Allowed(d, k, id)
  BY <1>1 DEF Allowed
<1>4. PolicyRows(e)
  <2>1. \A m \in e.messages : m.text =>
          \/ \E x \in Mine(e, m.key) : x.line.id = m.entry /\ x.line.kind # "result"
          \/ Allowed(e, m.key, m.entry)
    BY <1>1, <1>2, <1>3 DEF Rows, PolicyRows
  <2>2. \A r \in e.invocations : r.inv.sig \notin {"", "tool_error"} => Allowed(e, r.key, r.inv.entry)
    BY <1>1, <1>3 DEF Rows, PolicyRows
  <2>3. \A b \in e.images : \E t \in e.snapshots : t.images /\
          \E i \in DOMAIN t.files : t.files[i].content = b
    <3>1. \E i \in DOMAIN s.files : s.files[i].content = f.content
      BY DEF Listed
    <3>2. f.kind = "image" => s \in e.snapshots /\ s.images
      BY <1>1
    <3>3. \A b \in d.images : \E t \in e.snapshots : t.images /\
              \E i \in DOMAIN t.files : t.files[i].content = b
      BY <1>1 DEF Rows, PolicyRows
    <3>4. \A b \in e.images : b \in d.images \/ (f.kind = "image" /\ b = f.content)
      BY <1>1
    <3> QED BY <3>1, <3>2, <3>3, <3>4
  <2> QED BY <2>1, <2>2, <2>3 DEF PolicyRows
<1>5. BackedRows(e)
  <2>1. \A m \in e.messages \cup e.redactions : \E x \in Mine(e, m.key) : x.line.id = m.entry
    BY <1>1, <1>2 DEF Rows, BackedRows
  <2>2. \A x \in e.fts : x \in e.artifacts \/ x \in MessageKeys(e)
    <3>1. MessageKeys(e) = MessageKeys(d)
      BY <1>1 DEF MessageKeys
    <3> QED BY <1>1, <3>1 DEF Rows, BackedRows
  <2> QED BY <2>1, <2>2 DEF BackedRows
<1>6. ASSUME IndexCovers(d) PROVE IndexCovers(e)
  <2>1. \A m \in {x \in e.messages : x.text} : [key |-> m.key, entry |-> m.entry] \in e.fts
    BY <1>1, <1>6 DEF IndexCovers, Indexable
  <2>2. \A a \in e.artifacts : a.content \notin e.images => a \in e.fts
    <3>1. row.content = f.content
      OBVIOUS
    <3> HIDE DEF row
    <3> QED BY <1>1, <1>6, <3>1 DEF IndexCovers, Indexable
  <2> QED BY <2>1, <2>2 DEF IndexCovers, Indexable
<1> QED BY <1>2, <1>4, <1>5, <1>6 DEF Rows, e

LEMMA RowsAtInit == CorpusInit => RowsInv
<1> SUFFICES ASSUME CorpusInit PROVE RowsInv
  OBVIOUS
<1>1. work = db /\ \A t \in Tables : db[t] = {}
  BY DEF CorpusInit
<1>2. {"snapshots", "sessions", "entries", "messages", "fts", "invocations", "episodes", "artifacts",
       "images", "redactions"} \subseteq Tables
  BY DEF Tables
<1>3. /\ db.snapshots = {} /\ db.sessions = {} /\ db.entries = {} /\ db.messages = {} /\ db.fts = {}
      /\ db.invocations = {} /\ db.episodes = {} /\ db.artifacts = {} /\ db.images = {}
      /\ db.redactions = {}
  BY <1>1, <1>2
<1>4. EntryRows(db) /\ CallRows(db)
  BY <1>3, FS_EmptySet DEF EntryRows, CallRows
<1>5. EpisodeRows(db) /\ PolicyRows(db) /\ BackedRows(db)
  BY <1>3 DEF EpisodeRows, PolicyRows, BackedRows
<1>6. IndexCovers(db)
  BY <1>3 DEF IndexCovers, Indexable
<1> QED BY <1>1, <1>4, <1>5, <1>6 DEF RowsInv, Rows, IndexCovers

\* Tables that stay, or that the other set of tables had.
LEMMA RowsSettled ==
    ASSUME RowsInv, db' \in {db, work}, work' \in {db, work}, indexLost' = indexLost
    PROVE  RowsInv'
<1>1. \A d \in {db, work} : Rows(d) /\ (~indexLost => Indexable(d) \subseteq d.fts)
  BY DEF RowsInv
<1>2. Rows(db') /\ Rows(work')
  BY <1>1
<1>3. ~indexLost' => Indexable(db') \subseteq db'.fts /\ Indexable(work') \subseteq work'.fts
  BY <1>1
<1> QED BY <1>2, <1>3 DEF RowsInv

LEMMA RowsAtBegin ==
    ASSUME CorpusInv, RowsInv, NEW s \in Snapshot, Begin(s)
    PROVE  RowsInv'
<1>1. DOMAIN db = Tables /\ db' = db /\ indexLost' = indexLost
  BY DEF Begin, CorpusInv, WorkInv
<1>2. SameRows(db, work')
  BY <1>1 DEF Begin, SameRows, Tables
<1>3. Rows(db) /\ (~indexLost => IndexCovers(db))
  BY DEF RowsInv, IndexCovers
<1>4. Rows(work') /\ (~indexLost => IndexCovers(work'))
  BY <1>2, <1>3, SameRowsKept
<1>5. Rows(db)' /\ Rows(work)' /\ (~indexLost' => IndexCovers(db)' /\ IndexCovers(work)')
  BY <1>1, <1>3, <1>4
<1> QED BY <1>5 DEF RowsInv, IndexCovers

LEMMA RowsAtKnownFile ==
    ASSUME CorpusInv, RowsInv, IngestKnownFile
    PROVE  RowsInv'
<1>1. db' = db /\ indexLost' = indexLost
  BY DEF IngestKnownFile
<1>2. PICK v \in KnownVersions(work, busy, Head(todo)) : work' = WithVersion(work, v.key, busy, Head(todo))
  BY DEF IngestKnownFile
<1>3. DOMAIN work = Tables
  BY DEF CorpusInv, WorkInv, Grows
<1>4. \A t \in Tables \ {"versions"} : work'[t] = work[t]
  BY <1>2, <1>3, VersionsGrow
<1>5. {"snapshots", "sessions", "entries", "messages", "fts", "invocations", "episodes", "artifacts",
       "images", "redactions"} \subseteq Tables \ {"versions"}
  BY DEF Tables
<1>6. SameRows(work, work')
  BY <1>4, <1>5 DEF SameRows
<1>7. Rows(db) /\ Rows(work) /\ (~indexLost => IndexCovers(db) /\ IndexCovers(work))
  BY DEF RowsInv, IndexCovers
<1>8. Rows(work') /\ (~indexLost => IndexCovers(work'))
  BY <1>6, <1>7, SameRowsKept
<1> QED BY <1>1, <1>7, <1>8 DEF RowsInv, IndexCovers

LEMMA RowsAtFile ==
    ASSUME CorpusInv, RowsInv, IngestFile
    PROVE  RowsInv'
<1> DEFINE f == Head(todo)
           d == [work EXCEPT !.files = @ \cup {f.content}]
<1>1. db' = db /\ indexLost' = indexLost /\ todo # <<>>
  BY DEF IngestFile
<1>2. DOMAIN work = Tables
  BY DEF CorpusInv, WorkInv, Grows
<1>3. f \in File /\ busy \in work.snapshots /\ f \in Listed(busy.files)
  <2>1. busy \in Snapshot /\ busy # NoSnapshot
    BY <1>1, CorpusAssumption DEF CorpusInv, Progress
  <2>2. busy \in work.snapshots
    BY <2>1 DEF CorpusInv, WorkInv
  <2> DEFINE done == Len(busy.files) - Len(todo)
  <2>3. done >= 0 /\ \A i \in 1..Len(todo) : todo[i] = busy.files[done + i]
    BY <2>1 DEF CorpusInv, Progress
  <2>4. todo \in Seq(File) /\ busy.files \in Seq(Listed(busy.files))
    BY <2>1, CorpusAssumption DEF CorpusInv, Progress
  <2>5. Len(todo) \in Nat \ {0} /\ f = todo[1] /\ f \in File
    BY <1>1, <2>4
  <2>6. f = busy.files[done + 1] /\ done + 1 \in DOMAIN busy.files
    BY <2>3, <2>4, <2>5
  <2> QED BY <2>2, <2>5, <2>6 DEF Listed
<1>4. Rows(db) /\ Rows(work) /\ (~indexLost => IndexCovers(db) /\ IndexCovers(work))
  BY DEF RowsInv, IndexCovers
<1>5. Rows(work') /\ (~indexLost => IndexCovers(work'))
  <2>1. CASE f.kind = "image" /\ ~busy.images
    BY <1>4, <2>1 DEF IngestFile
  <2>2. CASE ~(f.kind = "image" /\ ~busy.images)
    <3>1. work' = IF f.kind = "session" THEN WithSessionFile(d, busy, f) ELSE WithArtifact(d, busy, f)
      BY <2>2 DEF IngestFile
    <3>2. DOMAIN d = Tables /\ d.snapshots = work.snapshots /\ SameRows(work, d)
      BY <1>2 DEF Tables, SameRows
    <3> HIDE DEF d
    <3>3. Rows(d) /\ (~indexLost => IndexCovers(d))
      BY <1>4, <3>2, SameRowsKept
    <3> HIDE DEF f
    <3>4. CASE f.kind = "session"
      <4>1. Rows(WithSessionFile(d, busy, f)) /\ (IndexCovers(d) => IndexCovers(WithSessionFile(d, busy, f)))
        BY <1>3, <3>2, <3>3, <3>4, SessionFileRows
      <4> QED BY <3>1, <3>3, <3>4, <4>1
    <3>5. CASE f.kind # "session"
      <4>1. Rows(WithArtifact(d, busy, f)) /\ (IndexCovers(d) => IndexCovers(WithArtifact(d, busy, f)))
        BY <1>3, <2>2, <3>2, <3>3, ArtifactRows
      <4> QED BY <3>1, <3>3, <3>5, <4>1
    <3> QED BY <3>4, <3>5
  <2> QED BY <2>1, <2>2
<1> QED BY <1>1, <1>4, <1>5 DEF RowsInv, IndexCovers

LEMMA RowsAtIndex ==
    ASSUME CorpusInv, RowsInv, LoseIndexRows \/ ReconcileFTS
    PROVE  RowsInv'
<1>1. work' = db' /\ DOMAIN db = Tables
  BY DEF LoseIndexRows, ReconcileFTS, CorpusInv, WorkInv
<1>2. PICK index : /\ db' = [db EXCEPT !.fts = index] /\ index \subseteq Indexable(db)
                   /\ indexLost' \/ index = Indexable(db)
  BY DEF LoseIndexRows, ReconcileFTS
<1>12. db' = [db EXCEPT !.fts = index]
  BY <1>2
<1>3. /\ db'.fts = index /\ db'.sessions = db.sessions /\ db'.entries = db.entries
      /\ db'.messages = db.messages /\ db'.redactions = db.redactions
      /\ db'.invocations = db.invocations /\ db'.episodes = db.episodes
      /\ db'.artifacts = db.artifacts /\ db'.images = db.images /\ db'.snapshots = db.snapshots
  <2>1. \A t \in Tables \ {"fts"} : db'[t] = db[t]
    BY <1>1, <1>12
  <2>2. {"snapshots", "sessions", "entries", "messages", "invocations", "episodes", "artifacts",
         "images", "redactions"} \subseteq Tables \ {"fts"}
    BY DEF Tables
  <2>3. db'.fts = index
    BY <1>1, <1>12 DEF Tables
  <2> QED BY <2>1, <2>2, <2>3
<1>4. Rows(db)
  BY DEF RowsInv
<1> DEFINE e == db'
<1> HIDE DEF e
<1>5. EntryRows(e) /\ CallRows(e) /\ EpisodeRows(e) /\ \A k : Mine(e, k) = Mine(db, k)
  BY <1>3, <1>4, OtherTablesRows DEF e
<1>6. PolicyRows(e)
  <2>1. \A k, id : Allowed(e, k, id) <=> Allowed(db, k, id)
    BY <1>3 DEF Allowed, e
  <2>2. \A m \in e.messages : m.text =>
          \/ \E x \in Mine(e, m.key) : x.line.id = m.entry /\ x.line.kind # "result"
          \/ Allowed(e, m.key, m.entry)
    BY <1>3, <1>4, <1>5, <2>1 DEF Rows, PolicyRows, e
  <2>3. \A r \in e.invocations : r.inv.sig \notin {"", "tool_error"} => Allowed(e, r.key, r.inv.entry)
    BY <1>3, <1>4, <2>1 DEF Rows, PolicyRows, e
  <2>4. \A b \in e.images : \E s \in e.snapshots : s.images /\
          \E i \in DOMAIN s.files : s.files[i].content = b
    BY <1>3, <1>4 DEF Rows, PolicyRows, e
  <2> QED BY <2>2, <2>3, <2>4 DEF PolicyRows
<1>7. Indexable(e) = Indexable(db)
  BY <1>3 DEF Indexable, e
<1>8. BackedRows(e)
  <2>1. \A m \in e.messages \cup e.redactions : \E x \in Mine(e, m.key) : x.line.id = m.entry
    BY <1>3, <1>4, <1>5 DEF Rows, BackedRows, e
  <2>2. \A x \in Indexable(db) : x \in db.artifacts \/ x \in MessageKeys(db)
    BY DEF Indexable, MessageKeys
  <2>3. MessageKeys(e) = MessageKeys(db) /\ e.artifacts = db.artifacts /\ e.fts = index
    BY <1>3 DEF MessageKeys, e
  <2>4. \A x \in e.fts : x \in e.artifacts \/ x \in MessageKeys(e)
    BY <1>2, <2>2, <2>3
  <2> QED BY <2>1, <2>4 DEF BackedRows
<1>9. Rows(e)
  BY <1>5, <1>6, <1>8 DEF Rows
<1>10. ~indexLost' => Indexable(e) \subseteq e.fts
  BY <1>2, <1>3, <1>7 DEF e
<1> QED BY <1>1, <1>9, <1>10 DEF RowsInv, e

LEMMA RowsStep ==
    ASSUME CorpusInv, RowsInv, [CorpusNext]_corpusVars
    PROVE  RowsInv'
<1>1. ASSUME NEW s \in Snapshot, Begin(s) PROVE RowsInv'
  BY <1>1, RowsAtBegin
<1>2. CASE IngestKnownFile
  BY <1>2, RowsAtKnownFile
<1>3. CASE IngestFile
  BY <1>3, RowsAtFile
<1>4. CASE IngestRottenFile
  BY <1>4, RowsSettled DEF IngestRottenFile, Rollback
<1>5. CASE Commit
  BY <1>5, RowsSettled DEF Commit
<1>6. CASE Abandon
  BY <1>6, RowsSettled DEF Abandon, Rollback
<1>7. CASE LoseIndexRows \/ ReconcileFTS
  BY <1>7, RowsAtIndex
<1>8. ASSUME NEW b \in disk, DamageBlob(b) PROVE RowsInv'
  BY <1>8, RowsSettled DEF DamageBlob
<1>9. CASE UNCHANGED corpusVars
  BY <1>9, RowsSettled DEF corpusVars
<1> QED BY <1>1, <1>2, <1>3, <1>4, <1>5, <1>6, <1>7, <1>8, <1>9 DEF CorpusNext

(***************************************************************************)
(* The theorems.                                                           *)
(***************************************************************************)
\* What the other theorems rest on: the open transaction only adds to the committed
\* rows, and both sets of tables tell, row by row, what has been ingested.
THEOREM CorpusInvariant == CorpusSpec => []CorpusInv
<1>1. CorpusInv /\ [CorpusNext]_corpusVars => CorpusInv'
  BY StepHolds
<1> QED BY InitHolds, <1>1, PTL DEF CorpusSpec

\* ingestEntry: one text per entry ID of a session, on whichever machines it exists
\* and however its versions diverged.
THEOREM OneTextEverywhere == CorpusSpec => []OneTextPerEntry
<1>1. CorpusInv => OneTextPerEntry
  BY Growth DEF CorpusInv, WorkInv, OneTextPerEntry
<1> QED BY CorpusInvariant, <1>1, PTL

\* No line of an ingested version is dropped without a conflict row that names it.
THEOREM NoLineLost == CorpusSpec => []NothingLost
<1>1. CorpusInv => NothingLost
  BY DEF CorpusInv, Committed, Kept, NothingLost
<1> QED BY CorpusInvariant, <1>1, PTL

\* A snapshot's row is in exactly when the rows of its files are, whatever was
\* cancelled, failed or killed before.
THEOREM AllOrNothing == CorpusSpec => []SnapshotsAreWhole
<1>1. CorpusInv => SnapshotsAreWhole
  <2> SUFFICES ASSUME CorpusInv PROVE SnapshotsAreWhole
    OBVIOUS
  <2>1. \A r \in db.versions \cup db.artifacts : r.snapshot \in db.snapshots
    BY DEF CorpusInv, Committed, SnapshotRows
  <2>2. \A s \in db.snapshots : \A i \in DOMAIN s.files : FileIn(db, s, s.files[i])
    BY DEF CorpusInv, Committed
  <2> QED BY <2>1, <2>2 DEF SnapshotsAreWhole, FileIn
<1> QED BY CorpusInvariant, <1>1, PTL

\* A committed files row has its blob, unless that was damaged from outside.
THEOREM BlobsAreThere == CorpusSpec => []BlobsBackRows
<1>1. CorpusInv => BlobsBackRows
  BY Growth DEF CorpusInv, WorkInv, BlobsBackRows
<1> QED BY CorpusInvariant, <1>1, PTL

\* No step updates or deletes a committed row of an append-only table.
THEOREM OnlyAppended == CorpusSpec => RowsAreKept
<1>1. CorpusInv /\ [CorpusNext]_corpusVars => [\A t \in AppendOnly : db[t] \subseteq db'[t]]_db
  <2> SUFFICES ASSUME CorpusInv, [CorpusNext]_corpusVars, db' # db
               PROVE  \A t \in AppendOnly : db[t] \subseteq db'[t]
    OBVIOUS
  <2>1. CASE Commit
    BY <2>1 DEF Commit, CorpusInv, WorkInv, Grows
  <2>2. CASE LoseIndexRows \/ ReconcileFTS
    BY <2>2 DEF LoseIndexRows, ReconcileFTS, CorpusInv, WorkInv, AppendOnly, Tables
  <2> QED BY <2>1, <2>2 DEF CorpusNext, corpusVars, Begin, IngestKnownFile, IngestFile,
             IngestRottenFile, Rollback, Abandon, DamageBlob
<1> QED BY CorpusInvariant, <1>1, PTL DEF CorpusSpec, RowsAreKept

\* Every committed row and every row of an open transaction has what it was derived
\* from: see Rows.  The later theorems read what they need off this invariant.
THEOREM RowsInvariant == CorpusSpec => []RowsInv
<1>1. CorpusInv /\ RowsInv /\ [CorpusNext]_corpusVars => RowsInv'
  BY RowsStep
<1> QED BY RowsAtInit, CorpusInvariant, <1>1, PTL DEF CorpusSpec

\* No tool output is indexed, no error text becomes a signature and no image is kept
\* that no ingested snapshot of that machine allows.
THEOREM OnlyWhatIsAllowed == CorpusSpec => []PolicyRespected
<1>1. RowsInv => PolicyRespected
  BY DEF RowsInv, Rows, PolicyRows, Allowed, Carries, PolicyRespected
<1> QED BY RowsInvariant, <1>1, PTL

\* The stored episodes of a session are the struggles its stored invocations tell.
THEOREM StruggleIsStored == CorpusSpec => []EpisodesAreStruggles
<1>1. RowsInv => EpisodesAreStruggles
  <2> SUFFICES ASSUME RowsInv, NEW r \in db.sessions
               PROVE  {ToldEpisode(x.ep) : x \in {y \in db.episodes : y.key = r.key}}
                      = {ToldStruggle(t) : t \in Struggles(InvocationsOf(db, r.key))}
    BY DEF EpisodesAreStruggles, ToldEpisode, ToldStruggle
  <2>1. {x.ep : x \in {y \in db.episodes : y.key = r.key}} = AssembleEpisodes(InvocationsOf(db, r.key))
    BY DEF RowsInv, Rows, EpisodeRows, EpisodesOf
  <2>2. Told(InvocationsOf(db, r.key))
    BY InvocationsAreTold DEF RowsInv, Rows
  <2>3. {ToldEpisode(e) : e \in AssembleEpisodes(InvocationsOf(db, r.key))}
        = {ToldStruggle(t) : t \in Struggles(InvocationsOf(db, r.key))}
    BY <2>2, EpisodesTellStruggles
  <2>4. {ToldEpisode(x.ep) : x \in {y \in db.episodes : y.key = r.key}}
        = {ToldEpisode(e) : e \in {x.ep : x \in {y \in db.episodes : y.key = r.key}}}
    OBVIOUS
  <2> QED BY <2>1, <2>3, <2>4
<1> QED BY RowsInvariant, <1>1, PTL

(***************************************************************************)
(* Resolved episodes and their arcs.                                       *)
(***************************************************************************)
\* A resolved episode: its opener and its resolving call are two places of the list.
ResolvedAt(invs, x, o, i) ==
    LET s == InOrder(invs) n == Cardinality(invs) IN
    /\ o \in 1..n /\ i \in 1..n /\ o < i
    /\ i \in ClosersOf(s, n, o) /\ o \in Standing(s, i - 1)
    /\ x = Episode(s, o, Fix(s, o, i))
    /\ s[o].error /\ ~s[i].error /\ s[i].family = s[o].family
    /\ x.entry = s[o].entry /\ x.ord = s[o].ord /\ x.family = s[o].family
    /\ x.fix.entry = s[i].entry /\ x.fix.ord = s[i].ord
    /\ x.fix.path = [j \in 1..(i - o) |-> s[o + j].family]

\* A fixed episode of an assembled list is opened at one place and resolved at a later one.
LEMMA ResolvedByPlace ==
    ASSUME NEW invs, Told(invs), NEW x \in AssembleEpisodes(invs), x.fix # NoFix
    PROVE  \E o, i \in 1..Cardinality(invs) : ResolvedAt(invs, x, o, i)
<1> DEFINE s == InOrder(invs)
           n == Cardinality(invs)
<1>1. n \in Nat
  BY InOrderSorts
<1>2. PICK o \in {j \in 1..n : StartsRun(s, j)} : x = Episode(s, o, FixOf(s, n, o))
  BY EpisodesByPlace
<1>3. x.fix = FixOf(s, n, o)
  BY <1>2 DEF Episode
<1>4. ClosersOf(s, n, o) # {}
  BY <1>3 DEF FixOf
<1> DEFINE i == AnyOf(ClosersOf(s, n, o))
<1>5. i \in ClosersOf(s, n, o) /\ FixOf(s, n, o) = Fix(s, o, i)
  BY <1>4 DEF AnyOf, FixOf
<1> HIDE DEF i, s, n
<1>6. i \in 1..n /\ ~s[i].error /\ s[i].family = s[o].family /\ o \in Standing(s, i - 1)
  BY <1>5 DEF ClosersOf, Closes, SameFamily
<1>7. o < i /\ o \in 1..n
  BY <1>1, <1>2, <1>6 DEF Standing
<1>8. x = Episode(s, o, Fix(s, o, i))
  BY <1>2, <1>5
<1>9. /\ x.entry = s[o].entry /\ x.ord = s[o].ord /\ x.family = s[o].family
      /\ x.fix = Fix(s, o, i)
  BY <1>8 DEF Episode
<1>10. /\ Fix(s, o, i).entry = s[i].entry /\ Fix(s, o, i).ord = s[i].ord
       /\ Fix(s, o, i).path = [j \in 1..(i - o) |-> s[o + j].family]
  BY <1>6, <1>7, FixIsRecord DEF s, n
<1>11. s[o].error
  BY <1>2 DEF StartsRun
<1> QED BY <1>5, <1>6, <1>7, <1>8, <1>9, <1>10, <1>11 DEF ResolvedAt, s, n

\* One place per key.
LEMMA OnePlace ==
    ASSUME NEW invs, Told(invs), NEW i \in 1..Cardinality(invs), NEW j \in 1..Cardinality(invs),
           InOrder(invs)[i].entry = InOrder(invs)[j].entry, InOrder(invs)[i].ord = InOrder(invs)[j].ord
    PROVE  i = j
<1>1. InOrder(invs)[i] \in invs /\ InOrder(invs)[j] \in invs
  BY InOrderSorts
<1>2. InOrder(invs)[i] = InOrder(invs)[j]
  BY <1>1 DEF Told
<1> QED BY <1>2, InOrderSorts

\* A resolving call resolves one episode.
LEMMA FixNamesEpisode ==
    ASSUME NEW invs, Told(invs), NEW x, NEW y, NEW o, NEW i, NEW p, NEW j,
           ResolvedAt(invs, x, o, i), ResolvedAt(invs, y, p, j),
           x.fix.entry = y.fix.entry, x.fix.ord = y.fix.ord
    PROVE  x = y
<1> DEFINE s == InOrder(invs)
           n == Cardinality(invs)
<1>1. i = j
  BY OnePlace DEF ResolvedAt
<1>2. n \in Nat /\ i \in 1..n /\ i - 1 \in 0..n
  <2>1. n \in Nat
    BY InOrderSorts
  <2>2. i \in 1..n
    BY DEF ResolvedAt
  <2> HIDE DEF n
  <2> QED BY <2>1, <2>2
<1>3. o \in Standing(s, i - 1) /\ p \in Standing(s, i - 1) /\ SameFamily(s, o, p)
  BY <1>1 DEF ResolvedAt, SameFamily
<1>4. Listing(s, n)
  BY OrderIsListing
<1>5. o = p
  <2> HIDE DEF s, n
  <2> QED BY <1>2, <1>3, <1>4, OneStanding
<1> QED BY <1>1, <1>5 DEF ResolvedAt

\* The calls between the two ends of a resolved episode are the arc the path tells.
LEMMA ArcBetween ==
    ASSUME NEW d, NEW k, Told(InvocationsOf(d, k)), NEW opener, NEW fix,
           NEW o \in 1..Cardinality(InvocationsOf(d, k)), NEW i \in 1..Cardinality(InvocationsOf(d, k)),
           o < i,
           opener.entry = InOrder(InvocationsOf(d, k))[o].entry,
           opener.ord = InOrder(InvocationsOf(d, k))[o].ord,
           fix.entry = InOrder(InvocationsOf(d, k))[i].entry,
           fix.ord = InOrder(InvocationsOf(d, k))[i].ord
    PROVE  LET s == InOrder(InvocationsOf(d, k)) arc == Arc(d, k, opener, fix) IN
           /\ arc # <<>> /\ Len(arc) = i - o + 1
           /\ \A j \in 1..(i - o + 1) : arc[j] = s[o + j - 1]
<1> DEFINE invs == InvocationsOf(d, k)
           s == InOrder(invs)
           n == Cardinality(invs)
           At(c) == {j \in DOMAIN s : s[j].entry = c.entry /\ s[j].ord = c.ord}
<1>1. n \in Nat /\ DOMAIN s = 1..n /\ s \in [1..n -> invs]
  BY InOrderSorts
<1>2. At(opener) = {o}
  BY <1>1, OnePlace
<1>3. At(fix) = {i}
  BY <1>1, OnePlace
<1>4. Arc(d, k, opener, fix) =
        IF At(opener) = {} \/ At(fix) = {} THEN <<>>
        ELSE SubSeq(s, CHOOSE j \in At(opener) : TRUE, CHOOSE j \in At(fix) : TRUE)
  BY DEF Arc, ArcOrder
<1>5. (CHOOSE j \in At(opener) : TRUE) = o /\ (CHOOSE j \in At(fix) : TRUE) = i
  BY <1>2, <1>3
<1>6. Arc(d, k, opener, fix) = SubSeq(s, o, i)
  BY <1>2, <1>3, <1>4, <1>5
<1> HIDE DEF s
<1>7. SubSeq(s, o, i) = [j \in 1..(i - o + 1) |-> s[j + o - 1]]
  <2>1. s \in Seq(invs) /\ Len(s) = n
    BY <1>1
  <2> QED BY <1>1, <2>1
<1>8. i - o + 1 \in Nat \ {0}
  BY <1>1
<1> DEFINE m == i - o + 1
           a == [j \in 1..m |-> s[j + o - 1]]
<1>9. Len(a) = m /\ a # <<>> /\ \A j \in 1..m : a[j] = s[j + o - 1]
  <2> HIDE DEF m
  <2>1. m \in Nat \ {0}
    BY <1>8 DEF m
  <2> QED BY <2>1
<1>10. \A j \in 1..m : j + o - 1 = o + j - 1
  BY <1>1
<1> QED BY <1>6, <1>7, <1>9, <1>10 DEF s

(***************************************************************************)
(* Reading while snapshots are ingested.                                   *)
(***************************************************************************)
LEMMA ReadingIsIngest == ReadingSpec => CorpusSpec
<1>1. ReadingInit => CorpusInit
  BY DEF ReadingInit
<1>2. [ReadingNext]_readingVars => [CorpusNext]_corpusVars
  BY DEF ReadingNext, readingVars, MatchEpisode, ReadArc
<1> QED BY <1>1, <1>2, PTL DEF ReadingSpec, CorpusSpec

\* What verify reports is damage: no ingest, rollback, duplicate or policy leaves a
\* row without the row it stands on, or text without its index row.
THEOREM OnlyDamageIsReported == ReadingSpec => []VerifyClean
<1>1. CorpusInv /\ RowsInv => VerifyClean
  <2> SUFFICES ASSUME CorpusInv, RowsInv, ~indexLost PROVE VerifyProblems(db) = {}
    BY DEF VerifyClean
  <2> DEFINE Backed(r) == \E e \in db.entries : e.key = r.key /\ e.line.id = r.entry
  <2>1. {m \in db.messages : ~Backed(m)} = {} /\ {r \in db.redactions : ~Backed(r)} = {}
    BY DEF RowsInv, Rows, BackedRows, Mine
  <2>2. {a \in db.artifacts : a.snapshot \notin db.snapshots} = {}
    BY DEF CorpusInv, Committed, SnapshotRows
  <2>3. {x \in db.fts : x \notin db.artifacts} \ {[key |-> m.key, entry |-> m.entry] : m \in db.messages} = {}
    BY DEF RowsInv, Rows, BackedRows, MessageKeys
  <2>4. Indexable(db) \ db.fts = {}
    BY DEF RowsInv
  <2>5. {r \in db.invocations : ~Backed([key |-> r.key, entry |-> r.inv.entry])} = {}
    BY DEF RowsInv, Rows, CallRows, TellsCall, Mine
  <2> QED BY <2>1, <2>2, <2>3, <2>4, <2>5 DEF VerifyProblems
<1> QED BY ReadingIsIngest, CorpusInvariant, RowsInvariant, <1>1, PTL

\* A committed invocation belongs to a committed entry of its session.
LEMMA InvocationHasEntry ==
    ASSUME NEW d, NEW k, NEW x \in InvocationsOf(d, k)
    PROVE  \E e \in Mine(d, k) : e.line.id = x.entry
<1> DEFINE pairs == {p \in {r \in d.invocations : r.key = k} \X Mine(d, k) :
                        p[1].inv.entry = p[2].line.id}
           tell(p) == [entry |-> p[1].inv.entry, tool |-> p[1].inv.tool, ord |-> p[1].inv.ord,
                       at |-> p[1].inv.at, family |-> p[1].inv.family, error |-> p[1].inv.error,
                       sig |-> p[1].inv.sig, no |-> p[2].no]
<1>1. InvocationsOf(d, k) = {tell(p) : p \in pairs}
  BY DEF InvocationsOf
<1>2. PICK p \in pairs : x = tell(p)
  <2> HIDE DEF tell, pairs
  <2> QED BY <1>1
<1> QED BY <1>2

\* A committed episode is one of those assembled from the invocations of its session.
LEMMA StoredEpisode ==
    ASSUME RowsInv, NEW r \in Fixed(db.episodes)
    PROVE  /\ r = [key |-> r.key, ep |-> r.ep] /\ r.ep.fix # NoFix
           /\ Told(InvocationsOf(db, r.key))
           /\ \E o, i \in 1..Cardinality(InvocationsOf(db, r.key)) :
                 ResolvedAt(InvocationsOf(db, r.key), r.ep, o, i)
<1>1. r \in db.episodes /\ r.ep.fix # NoFix /\ EpisodeRows(db)
  BY DEF Fixed, RowsInv, Rows
<1>2. r = [key |-> r.key, ep |-> r.ep] /\ [key |-> r.key] \in db.sessions
  BY <1>1 DEF EpisodeRows
<1>3. {x.ep : x \in EpisodesOf(db, r.key)} = AssembleEpisodes(InvocationsOf(db, r.key))
  <2> DEFINE q == [key |-> r.key]
  <2>1. q \in db.sessions /\ q.key = r.key
    BY <1>2
  <2> HIDE DEF q
  <2> QED BY <1>1, <2>1 DEF EpisodeRows
<1>4. r.ep \in AssembleEpisodes(InvocationsOf(db, r.key))
  BY <1>1, <1>3 DEF EpisodesOf
<1>5. Told(InvocationsOf(db, r.key))
  BY InvocationsAreTold DEF RowsInv, Rows
<1> QED BY <1>1, <1>2, <1>4, <1>5, ResolvedByPlace

(***************************************************************************)
(* The reader.  What he holds are the keys of two stored invocations.      *)
(***************************************************************************)
ArcEnds(invs, opener, fix, a, b) ==
    /\ a \in invs /\ a.entry = opener.entry /\ a.ord = opener.ord /\ a.error
    /\ b \in invs /\ b.entry = fix.entry /\ b.ord = fix.ord /\ ~b.error
    /\ a.family = b.family /\ Before(a, b)

ReaderInv ==
    reading # NoReader =>
        \E a, b : ArcEnds(InvocationsOf(db, reading.key), reading.opener, reading.fix, a, b)

\* The rows InvocationsOf joins are never taken away.
LEMMA InvocationsGrow ==
    ASSUME CorpusInv, [CorpusNext]_corpusVars, NEW k
    PROVE  InvocationsOf(db, k) \subseteq InvocationsOf(db, k)'
<1>1. \A t \in AppendOnly : db[t] \subseteq db'[t]
  <2>1. CASE Commit
    BY <2>1 DEF Commit, CorpusInv, WorkInv, Grows
  <2>2. CASE LoseIndexRows \/ ReconcileFTS
    BY <2>2 DEF LoseIndexRows, ReconcileFTS, CorpusInv, WorkInv, AppendOnly, Tables
  <2> QED BY <2>1, <2>2 DEF CorpusNext, corpusVars, Begin, IngestKnownFile, IngestFile,
             IngestRottenFile, Rollback, Abandon, DamageBlob
<1>2. {"entries", "invocations"} \subseteq AppendOnly
  BY DEF AppendOnly, Tables
<1>3. db.entries \subseteq db'.entries /\ db.invocations \subseteq db'.invocations
  BY <1>1, <1>2
<1> QED BY <1>3 DEF InvocationsOf, Mine

\* A step of ingest or of a reader keeps what the reader holds true.
LEMMA ReaderStep ==
    ASSUME CorpusInv, RowsInv, ReaderInv, [ReadingNext]_readingVars
    PROVE  ReaderInv'
<1>1. CASE CorpusNext /\ UNCHANGED reading
  <2> SUFFICES ASSUME reading # NoReader
               PROVE  \E a, b : ArcEnds(InvocationsOf(db, reading.key)', reading.opener, reading.fix, a, b)
    BY <1>1 DEF ReaderInv
  <2>1. PICK a, b : ArcEnds(InvocationsOf(db, reading.key), reading.opener, reading.fix, a, b)
    BY DEF ReaderInv
  <2> DEFINE k == reading.key
  <2>2. k' = k
    BY <1>1
  <2>3. InvocationsOf(db, k) \subseteq InvocationsOf(db', k)
    BY <1>1, InvocationsGrow
  <2>4. ArcEnds(InvocationsOf(db', k), reading.opener, reading.fix, a, b)
    BY <2>1, <2>3 DEF ArcEnds
  <2> QED BY <2>2, <2>4
<1>2. CASE MatchEpisode
  <2>1. PICK r \in Fixed(db.episodes) :
          reading' = [key |-> r.key, opener |-> [entry |-> r.ep.entry, ord |-> r.ep.ord],
                      fix |-> [entry |-> r.ep.fix.entry, ord |-> r.ep.fix.ord]]
    BY <1>2 DEF MatchEpisode
  <2> DEFINE invs == InvocationsOf(db, r.key)
             s == InOrder(invs)
  <2>2. Told(invs)
    BY StoredEpisode
  <2>3. PICK o, i \in 1..Cardinality(invs) : ResolvedAt(invs, r.ep, o, i)
    BY StoredEpisode
  <2>4. s[o] \in invs /\ s[i] \in invs /\ Before(s[o], s[i])
    BY <2>2, <2>3, InOrderSorts DEF ResolvedAt
  <2>5. ArcEnds(invs, reading'.opener, reading'.fix, s[o], s[i])
    BY <2>1, <2>3, <2>4 DEF ArcEnds, ResolvedAt
  <2>6. db' = db /\ reading'.key = r.key
    BY <1>2, <2>1 DEF MatchEpisode, corpusVars
  <2> QED BY <2>5, <2>6 DEF ReaderInv
<1>3. CASE ReadArc
  BY <1>3 DEF ReadArc, ReaderInv
<1>4. CASE UNCHANGED readingVars
  BY <1>4 DEF readingVars, corpusVars, ReaderInv
<1> QED BY <1>1, <1>2, <1>3, <1>4 DEF ReadingNext

\* A reader who matched an episode before a commit and reads its calls after it still
\* gets an arc from a failure to a success of the same family.
THEOREM ArcsOutliveCommits == ReadingSpec => []ArcsHold
<1>1. ReadingInit => ReaderInv
  BY DEF ReadingInit, ReaderInv
<1>2. CorpusInv /\ RowsInv /\ ReaderInv /\ [ReadingNext]_readingVars => ReaderInv'
  BY ReaderStep
<1>3. RowsInv /\ ReaderInv => ArcsHold
  <2> SUFFICES ASSUME RowsInv, ReaderInv, reading # NoReader
               PROVE  LET arc == Arc(db, reading.key, reading.opener, reading.fix) IN
                      /\ arc # <<>> /\ arc[1].error /\ ~arc[Len(arc)].error
                      /\ arc[1].family = arc[Len(arc)].family
    BY DEF ArcsHold
  <2> DEFINE k == reading.key
             invs == InvocationsOf(db, k)
             s == InOrder(invs)
             n == Cardinality(invs)
             arc == Arc(db, k, reading.opener, reading.fix)
  <2>1. PICK a, b : ArcEnds(invs, reading.opener, reading.fix, a, b)
    BY DEF ReaderInv
  <2>2. Told(invs)
    BY InvocationsAreTold DEF RowsInv, Rows
  <2>3. PICK o \in 1..n : s[o] = a
    BY <2>1, <2>2, InOrderSorts DEF ArcEnds
  <2>4. PICK i \in 1..n : s[i] = b
    BY <2>1, <2>2, InOrderSorts DEF ArcEnds
  <2>5. o < i /\ n \in Nat
    BY <2>1, <2>2, <2>3, <2>4, InOrderSorts DEF ArcEnds
  <2>6. /\ arc # <<>> /\ Len(arc) = i - o + 1
        /\ \A j \in 1..(i - o + 1) : arc[j] = s[o + j - 1]
    BY <2>1, <2>2, <2>3, <2>4, <2>5, ArcBetween DEF ArcEnds
  <2> HIDE DEF arc, n, s
  <2>7. arc[1] = s[o] /\ arc[Len(arc)] = s[i]
    <3>1. /\ 1 \in 1..(i - o + 1) /\ i - o + 1 \in 1..(i - o + 1)
          /\ o + 1 - 1 = o /\ o + (i - o + 1) - 1 = i
      BY <2>5
    <3> QED BY <2>6, <3>1
  <2> QED BY <2>1, <2>3, <2>4, <2>6, <2>7 DEF ArcEnds, arc
<1> QED BY ReadingIsIngest, CorpusInvariant, RowsInvariant, <1>1, <1>2, <1>3, PTL DEF ReadingSpec

\* An incident opens on episodes of one committed moment, with both ends of every arc.
LEMMA EpisodeOpens ==
    ASSUME RowsInv, NEW m \in Fixed(db.episodes)
    PROVE  LET arc == Arc(db, m.key, m.ep, m.ep.fix) IN
           /\ Matches(db, m.key, m.ep.fix.entry, m.ep.fix.ord) = {m}
           /\ \E e \in ReadWindow(db, m.key, m.ep.fix.entry, 0, 0) : e.line.id = m.ep.fix.entry
           /\ arc # <<>> /\ arc[1].error /\ arc[1].family = m.ep.family
           /\ m.ep.fix.path = [i \in 1..(Len(arc) - 1) |-> arc[i + 1].family]
<1> DEFINE invs == InvocationsOf(db, m.key)
           s == InOrder(invs)
           n == Cardinality(invs)
           arc == Arc(db, m.key, m.ep, m.ep.fix)
<1>1. m \in Matches(db, m.key, m.ep.fix.entry, m.ep.fix.ord)
  BY DEF Matches, Fixed
<1>2. PICK o, i \in 1..n : ResolvedAt(invs, m.ep, o, i)
  BY StoredEpisode
<1>3. Told(invs) /\ n \in Nat
  BY StoredEpisode, InOrderSorts
<1>4. ASSUME NEW r \in Matches(db, m.key, m.ep.fix.entry, m.ep.fix.ord) PROVE r = m
  <2>1. /\ r \in Fixed(db.episodes) /\ r.key = m.key
        /\ r.ep.fix.entry = m.ep.fix.entry /\ r.ep.fix.ord = m.ep.fix.ord
    BY DEF Matches, Fixed
  <2>2. PICK q, j \in 1..n : ResolvedAt(invs, r.ep, q, j)
    BY <2>1, StoredEpisode
  <2>3. r.ep = m.ep
    BY <1>2, <1>3, <2>1, <2>2, FixNamesEpisode
  <2>4. r = [key |-> r.key, ep |-> r.ep] /\ m = [key |-> m.key, ep |-> m.ep]
    BY <2>1, StoredEpisode
  <2> QED BY <2>1, <2>3, <2>4
<1>5. \E e \in ReadWindow(db, m.key, m.ep.fix.entry, 0, 0) : e.line.id = m.ep.fix.entry
  <2>1. s[i] \in invs /\ s[i].entry = m.ep.fix.entry
    BY <1>2, <1>3, InOrderSorts DEF ResolvedAt
  <2> HIDE DEF s, n
  <2>2. PICK e \in Mine(db, m.key) : e.line.id = s[i].entry
    BY <2>1, InvocationHasEntry
  <2>3. e.no \in Nat
    BY DEF RowsInv, Rows, EntryRows, Mine
  <2>4. e \in Window(db, m.key, e.no, 0, 0)
    <3>1. \A c \in Nat : c \in (c - 0)..(c + 0)
      OBVIOUS
    <3> QED BY <2>2, <2>3, <3>1 DEF Window
  <2>5. e \in {y \in Mine(db, m.key) : y.line.id = m.ep.fix.entry}
    BY <2>1, <2>2
  <2>6. e \in ReadWindow(db, m.key, m.ep.fix.entry, 0, 0)
    BY <2>4, <2>5 DEF ReadWindow
  <2> QED BY <2>5, <2>6
<1>6. /\ arc # <<>> /\ Len(arc) = i - o + 1
      /\ \A j \in 1..(i - o + 1) : arc[j] = s[o + j - 1]
  <2> DEFINE run == Arc(db, m.key, m.ep, m.ep.fix)
  <2>1. /\ m.ep.entry = s[o].entry /\ m.ep.ord = s[o].ord /\ o < i
        /\ m.ep.fix.entry = s[i].entry /\ m.ep.fix.ord = s[i].ord
        /\ o \in 1..n /\ i \in 1..n
    BY <1>2 DEF ResolvedAt
  <2>2. /\ run # <<>> /\ Len(run) = i - o + 1
        /\ \A j \in 1..(i - o + 1) : run[j] = s[o + j - 1]
    BY <1>2, <1>3, <2>1, ArcBetween
  <2> QED BY <2>2
<1>7. o \in Nat \ {0} /\ i \in Nat
  <2>1. o \in 1..n /\ i \in 1..n
    BY <1>2 DEF ResolvedAt
  <2> HIDE DEF n
  <2> QED BY <1>3, <2>1
<1>8. /\ o < i /\ s[o].error /\ m.ep.family = s[o].family
      /\ m.ep.fix.path = [j \in 1..(i - o) |-> s[o + j].family]
  BY <1>2 DEF ResolvedAt
<1> HIDE DEF arc, s, n, invs
<1>9. arc[1] = s[o]
  <2>1. 1 \in 1..(i - o + 1) /\ o + 1 - 1 = o
    BY <1>3, <1>8, <1>7
  <2> QED BY <1>6, <2>1
<1>10. [j \in 1..(i - o) |-> s[o + j].family] = [j \in 1..(Len(arc) - 1) |-> arc[j + 1].family]
  <2>1. Len(arc) - 1 = i - o
    BY <1>3, <1>6, <1>7
  <2>2. ASSUME NEW j \in 1..(i - o) PROVE arc[j + 1] = s[o + j]
    <3>1. j + 1 \in 1..(i - o + 1) /\ o + (j + 1) - 1 = o + j
      BY <1>3, <1>8, <1>7
    <3> QED BY <1>6, <3>1
  <2> QED BY <2>1, <2>2
<1>11. /\ arc # <<>> /\ arc[1].error /\ arc[1].family = m.ep.family
       /\ m.ep.fix.path = [j \in 1..(Len(arc) - 1) |-> arc[j + 1].family]
  BY <1>6, <1>8, <1>9, <1>10
<1>12. Matches(db, m.key, m.ep.fix.entry, m.ep.fix.ord) = {m}
  BY <1>1, <1>4
<1> QED BY <1>5, <1>11, <1>12 DEF arc

\* Every sample an incident offers names the resolving call of one episode, and its
\* arc runs from the failing call over the families of the offered path.
THEOREM EverySampleLeads == ReadingSpec => []SamplesLead
<1>1. RowsInv => SamplesLead
  <2> SUFFICES ASSUME RowsInv,
                      NEW x \in Incidents(db, {}, ""), NEW p \in x.paths, NEW sm \in p.samples
               PROVE  \E m \in Matches(db, sm.key, sm.entry, sm.ord) :
                        /\ Matches(db, sm.key, sm.entry, sm.ord) = {m}
                        /\ \E e \in ReadWindow(db, sm.key, sm.entry, 0, 0) : e.line.id = sm.entry
                        /\ LET arc == Arc(db, sm.key, m.ep, m.ep.fix) IN
                           /\ arc # <<>> /\ arc[1].error /\ arc[1].family = x.cluster.family
                           /\ p.path = [i \in 1..(Len(arc) - 1) |-> arc[i + 1].family]
    BY DEF SamplesLead
  <2>1. PICK m \in Fixed(db.episodes) :
          /\ sm = [key |-> m.key, entry |-> m.ep.fix.entry, ord |-> m.ep.fix.ord]
          /\ p.path = m.ep.fix.path /\ x.cluster.family = m.ep.family
    <3> DEFINE scope == {r \in db.episodes : InFacet(r, {})}
               Of(cl) == {r \in scope : Cluster(r) = cl}
    <3>1. PICK cl : x.cluster = cl /\ x.paths = ResolutionPaths(Of(cl))
      <4> DEFINE Having(rows) == IncidentHaving("", Cardinality(Fixed(rows)), Cardinality(rows))
                 row(cl) ==
                   [cluster  |-> cl, episodes |-> Cardinality(Of(cl)), resolved |-> Cardinality(Fixed(Of(cl))),
                    sessions |-> Cardinality({r.key : r \in Of(cl)}),
                    state    |-> IncidentState(Cardinality(Fixed(Of(cl))), Cardinality(Of(cl))),
                    tier     |-> IF Fixed(Of(cl)) = {} THEN ""
                                 ELSE CandidateTier(Cardinality(Fixed(Of(cl))),
                                                    Cardinality({r.key : r \in Fixed(Of(cl))})),
                    paths    |-> ResolutionPaths(Of(cl)),
                    failures |-> {[key |-> r.key, entry |-> r.ep.entry] : r \in Of(cl)}]
                 shown == {c \in {Cluster(r) : r \in scope} : Having(Of(c))}
      <4>1. Incidents(db, {}, "") = {row(cl) : cl \in shown}
        BY DEF Incidents
      <4>2. \A cl : row(cl).cluster = cl /\ row(cl).paths = ResolutionPaths(Of(cl))
        <5> HIDE DEF Of
        <5> QED OBVIOUS
      <4> HIDE DEF row, shown, Of
      <4> QED BY <4>1, <4>2
    <3>2. p.path \in {r.ep.fix.path : r \in Fixed(Of(cl))} /\
          p.samples = {[key |-> r.key, entry |-> r.ep.fix.entry, ord |-> r.ep.fix.ord] :
                         r \in {y \in Fixed(Of(cl)) : y.ep.fix.path = p.path}}
      <4> HIDE DEF Of
      <4>1. PICK path \in {r.ep.fix.path : r \in Fixed(Of(cl))} :
              p = [path |-> path, support |-> Cardinality({r \in Fixed(Of(cl)) : r.ep.fix.path = path}),
                   samples |-> {[key |-> r.key, entry |-> r.ep.fix.entry, ord |-> r.ep.fix.ord] :
                                   r \in {y \in Fixed(Of(cl)) : y.ep.fix.path = path}}]
        BY <3>1 DEF ResolutionPaths
      <4> QED BY <4>1
    <3>3. PICK m \in Fixed(Of(cl)) :
            m.ep.fix.path = p.path /\ sm = [key |-> m.key, entry |-> m.ep.fix.entry, ord |-> m.ep.fix.ord]
      <4> HIDE DEF Of
      <4> QED BY <3>2
    <3>4. m \in Fixed(db.episodes) /\ Cluster(m) = cl
      BY <3>3 DEF Fixed
    <3>5. x.cluster.family = m.ep.family
      <4> HIDE DEF Of
      <4>1. Cluster(m).family = m.ep.family
        BY DEF Cluster
      <4>2. x.cluster = cl
        BY <3>1
      <4>3. Cluster(m) = cl
        BY <3>4
      <4> QED BY <4>1, <4>2, <4>3
    <3> QED BY <3>3, <3>4, <3>5
  <2>2. sm.key = m.key /\ sm.entry = m.ep.fix.entry /\ sm.ord = m.ep.fix.ord
    BY <2>1
  <2> DEFINE Offers(k, entry, ord, mm) ==
               /\ Matches(db, k, entry, ord) = {mm}
               /\ \E e \in ReadWindow(db, k, entry, 0, 0) : e.line.id = entry
               /\ LET arc == Arc(db, k, mm.ep, mm.ep.fix) IN
                  /\ arc # <<>> /\ arc[1].error /\ arc[1].family = x.cluster.family
                  /\ p.path = [i \in 1..(Len(arc) - 1) |-> arc[i + 1].family]
  <2>3. Offers(m.key, m.ep.fix.entry, m.ep.fix.ord, m)
    <3>1. p.path = m.ep.fix.path /\ x.cluster.family = m.ep.family
      BY <2>1
    <3> QED BY <3>1, EpisodeOpens
  <2>4. Offers(sm.key, sm.entry, sm.ord, m)
    <3> HIDE DEF Offers
    <3> QED BY <2>2, <2>3
  <2> QED BY <2>4
<1> QED BY ReadingIsIngest, RowsInvariant, <1>1, PTL

(***************************************************************************)
(* Branches.                                                               *)
(***************************************************************************)
\* The lines of a source session on all machines.
SessionLines(d, t) == {e.line : e \in {x \in d.entries : x.key.session = t}}

Circle(S) == S # {} /\ \A l \in S : l.parent # RootEntry /\ \E m \in S : m.id = l.parent

\* A parent is stored on some machine, and on this one unless a conflict names it;
\* no lines of a session are each other's parents, whichever machines they are from.
BranchRows(d) ==
    /\ \A e \in d.entries : e.line.parent # RootEntry =>
          /\ \E x \in d.entries : x.key.session = e.key.session /\ x.line.id = e.line.parent
          /\ \/ \E x \in Mine(d, e.key) : x.line.id = e.line.parent
             \/ \E r \in d.conflicts : r.key = e.key /\ r.entry = e.line.parent
    /\ \A t : \A S \in SUBSET SessionLines(d, t) : ~Circle(S)

BranchInv == BranchRows(db) /\ BranchRows(work)

\* A conflict row names a line of the file by its ID, under which some machine
\* has an entry.
LEMMA ConflictsAreNamed ==
    ASSUME NEW d, NEW k, NEW c, NEW s, NEW r \in ConflictsIn(d, k, c, s)
    PROVE  /\ r.key = k /\ r.entry = r.second.id
           /\ \E x \in WithEntries(d.entries, k, c, Inserted(d, k, c)) :
                 x.key.session = k.session /\ x.line.id = r.entry
<1> DEFINE all == WithEntries(d.entries, k, c, Inserted(d, k, c))
<1>1. PICK i \in DOMAIN c : \E l :
          /\ r = [key |-> k, entry |-> c[i].id, first |-> l, second |-> c[i], snapshot |-> s]
          /\ l \in Existing(d, k, c, i) \/ Blocked(d, k, c[i]) # {}
  BY DEF ConflictsIn
<1>2. PICK l : /\ r = [key |-> k, entry |-> c[i].id, first |-> l, second |-> c[i], snapshot |-> s]
               /\ l \in Existing(d, k, c, i) \/ Blocked(d, k, c[i]) # {}
  BY <1>1
<1>3. CASE l \in Existing(d, k, c, i)
  <2>1. CASE l \in {e.line : e \in {x \in Mine(d, k) : x.line.id = c[i].id}}
    <3>1. PICK e \in d.entries : e.key = k /\ e.line.id = c[i].id
      BY <2>1 DEF Mine
    <3>2. e \in all
      BY DEF WithEntries
    <3> HIDE DEF all
    <3>3. e.key.session = k.session /\ e.line.id = r.entry
      BY <1>2, <3>1
    <3> QED BY <1>2, <3>2, <3>3 DEF all
  <2>2. CASE l \notin {e.line : e \in {x \in Mine(d, k) : x.line.id = c[i].id}}
    <3>1. PICK j \in Inserted(d, k, c) : c[j].id = c[i].id
      BY <1>3, <2>2 DEF Existing
    <3> DEFINE e == [key |-> k, line |-> c[j], no |-> j]
    <3>2. e \in all
      BY DEF WithEntries
    <3>3. e.key.session = k.session /\ e.line.id = r.entry
      BY <1>2, <3>1
    <3> HIDE DEF all, e
    <3> QED BY <1>2, <3>2, <3>3 DEF all
  <2> QED BY <2>1, <2>2
<1>4. CASE Blocked(d, k, c[i]) # {}
  <2>1. PICK e \in d.entries : e.key.session = k.session /\ e.line.id = c[i].id
    BY <1>4 DEF Blocked, Elsewhere
  <2>2. e \in all
    BY DEF WithEntries
  <2> HIDE DEF all
  <2> QED BY <1>2, <2>1, <2>2 DEF all
<1> QED BY <1>2, <1>3, <1>4

\* A file whose lines follow their parents keeps BranchRows: of new lines that were
\* each other's parents, the first would have its parent before it.
LEMMA FileBranches ==
    ASSUME NEW d, NEW k, IsKey(k), NEW c, c \in Seq(Listed(c)), NEW s,
           Keyed(d.entries), OneText(d.entries), BranchRows(d),
           \A i \in DOMAIN c : c[i].parent # RootEntry => \E j \in 1..(i - 1) : c[j].id = c[i].parent,
           NEW e, e.entries = WithEntries(d.entries, k, c, Inserted(d, k, c)),
           e.conflicts = d.conflicts \cup ConflictsIn(d, k, c, s)
    PROVE  BranchRows(e)
<1> DEFINE row(i) == [key |-> k, line |-> c[i], no |-> i]
<1>1. /\ OneText(e.entries) /\ d.entries \subseteq e.entries
      /\ \A x \in e.entries : x \in d.entries \/ \E i \in Inserted(d, k, c) : x = row(i)
      /\ \A i \in Inserted(d, k, c) : row(i) \in e.entries
  <2>1. OneText(WithEntries(d.entries, k, c, Inserted(d, k, c)))
    BY InsertedKeepOneText
  <2>2. e.entries = d.entries \cup {row(i) : i \in Inserted(d, k, c)}
    BY DEF WithEntries
  <2> HIDE DEF row
  <2> QED BY <2>1, <2>2
<1>2. DOMAIN c \subseteq Nat \ {0} /\ Inserted(d, k, c) \subseteq DOMAIN c
      /\ \A i \in DOMAIN c : \A j \in 1..(i - 1) : j \in DOMAIN c
  BY DEF Inserted
<1> DEFINE Parents(x) ==
        /\ \E y \in e.entries : y.key.session = x.key.session /\ y.line.id = x.line.parent
        /\ \/ \E y \in Mine(e, x.key) : y.line.id = x.line.parent
           \/ \E r \in e.conflicts : r.key = x.key /\ r.entry = x.line.parent
<1>3. ASSUME NEW x \in d.entries, x.line.parent # RootEntry PROVE Parents(x)
  BY <1>1, <1>3 DEF BranchRows, Mine
<1>4. ASSUME NEW i \in Inserted(d, k, c), c[i].parent # RootEntry PROVE Parents(row(i))
  <2> DEFINE x == row(i)
  <2>1. x.key = k /\ x.line = c[i]
    OBVIOUS
  <2>2. PICK j \in 1..(i - 1) : c[j].id = c[i].parent
    BY <1>2, <1>4
  <2>3. j \in DOMAIN c
    BY <1>2
  <2> HIDE DEF x
  <2>4. ASSUME \E y \in e.entries : y.key = k /\ y.line = c[j] PROVE Parents(x)
    <3>1. PICK y \in e.entries : y.key = k /\ y.line = c[j]
      BY <2>4
    <3>2. y.key.session = x.key.session /\ y.line.id = x.line.parent /\ y \in Mine(e, x.key)
      BY <2>1, <2>2, <3>1 DEF Mine
    <3> QED BY <3>2
  <2>5. ASSUME \E r \in ConflictsIn(d, k, c, s) : r.key = k /\ r.second = c[j] PROVE Parents(x)
    <3>1. PICK r \in ConflictsIn(d, k, c, s) : r.key = k /\ r.second = c[j]
      BY <2>5
    <3>2. /\ r.entry = c[j].id
          /\ \E y \in e.entries : y.key.session = k.session /\ y.line.id = r.entry
      BY <3>1, ConflictsAreNamed
    <3>3. r \in e.conflicts
      OBVIOUS
    <3> QED BY <2>1, <2>2, <3>1, <3>2, <3>3
  <2>6. (\E y \in e.entries : y.key = k /\ y.line = c[j])
          \/ (\E r \in ConflictsIn(d, k, c, s) : r.key = k /\ r.second = c[j])
    BY <2>3, LinesAreKept
  <2>7. Parents(x)
    <3> HIDE DEF Parents
    <3> QED BY <2>4, <2>5, <2>6
  <2> QED BY <2>7 DEF x
<1>5. \A x \in e.entries : x.line.parent # RootEntry => Parents(x)
  <2> HIDE DEF Parents
  <2>1. \A i \in Inserted(d, k, c) : row(i).line = c[i]
    OBVIOUS
  <2> HIDE DEF row
  <2> QED BY <1>1, <1>3, <1>4, <2>1
<1>6. ASSUME NEW t, NEW S \in SUBSET SessionLines(e, t), Circle(S) PROVE FALSE
  <2> DEFINE T == S \cap SessionLines(d, t)
  <2>1. \A l \in S : l.parent # RootEntry /\ \E m \in S : m.id = l.parent
    BY <1>6 DEF Circle
  <2>2. CASE T # {}
    <3>1. ASSUME NEW l \in T PROVE l.parent # RootEntry /\ \E m \in T : m.id = l.parent
      <4>1. PICK y \in d.entries : y.key.session = t /\ y.line = l
        BY DEF SessionLines
      <4>2. PICK m \in S : m.id = l.parent
        BY <2>1
      <4>3. PICK z \in e.entries : z.key.session = t /\ z.line = m
        BY DEF SessionLines
      <4>4. l.parent # RootEntry
        BY <2>1
      <4>5. PICK x \in d.entries : x.key.session = t /\ x.line.id = l.parent
        BY <4>1, <4>4 DEF BranchRows
      <4>6. x.line = m
        BY <1>1, <4>2, <4>3, <4>5 DEF OneText
      <4> QED BY <4>2, <4>4, <4>5, <4>6 DEF SessionLines
    <3>2. Circle(T)
      BY <2>2, <3>1 DEF Circle
    <3> QED BY <3>2 DEF BranchRows
  <2>3. CASE T = {}
    <3> DEFINE I == {i \in Inserted(d, k, c) : c[i] \in S}
    <3>1. ASSUME NEW l \in S PROVE t = k.session /\ \E i \in I : c[i] = l
      <4>1. PICK z \in e.entries : z.key.session = t /\ z.line = l
        BY DEF SessionLines
      <4>2. z \notin d.entries
        BY <2>3, <4>1 DEF SessionLines
      <4>3. PICK i \in Inserted(d, k, c) : z = row(i)
        BY <1>1, <4>2
      <4> QED BY <4>1, <4>3
    <3>2. I \in SUBSET Nat /\ I # {}
      BY <1>2, <1>6, <3>1 DEF Circle
    <3>3. PICK i \in I : \A n \in I : ~(n < i)
      <4> HIDE DEF I
      <4> QED BY <3>2, Least
    <3>4. PICK m \in S : m.id = c[i].parent
      BY <2>1
    <3>5. PICK n \in I : c[n] = m
      BY <3>1
    <3>6. PICK j \in 1..(i - 1) : c[j].id = c[i].parent
      BY <1>2, <2>1
    <3>7. Blocked(d, k, c[j]) = {}
      <4> SUFFICES ASSUME NEW y \in Blocked(d, k, c[j]) PROVE FALSE
        OBVIOUS
      <4>1. y \in d.entries /\ y.key.session = k.session /\ y.line.id = m.id
        BY <3>4, <3>6 DEF Blocked, Elsewhere
      <4>2. PICK z \in e.entries : z.key.session = t /\ z.line = m
        BY DEF SessionLines
      <4>3. y.line = m /\ t = k.session
        BY <1>1, <3>1, <4>1, <4>2 DEF OneText
      <4> QED BY <2>3, <4>1, <4>3 DEF SessionLines
    <3>8. j \notin 1..(n - 1)
      BY <3>4, <3>5, <3>6, <3>7 DEF Inserted
    <3>9. n \in Nat \ {0} /\ i \in Nat \ {0} /\ j \in Nat \ {0} /\ j < i /\ ~(n < i)
      BY <1>2, <3>3
    <3> QED BY <3>8, <3>9
  <2> QED BY <2>2, <2>3
<1> HIDE DEF row
<1> QED BY <1>5, <1>6 DEF BranchRows


LEMMA SameBranches ==
    ASSUME NEW d, NEW e, BranchRows(d), e.entries = d.entries, e.conflicts = d.conflicts
    PROVE  BranchRows(e)
<1>1. \A k : Mine(e, k) = Mine(d, k)
  BY DEF Mine
<1>2. \A t : SessionLines(e, t) = SessionLines(d, t)
  BY DEF SessionLines
<1> QED BY <1>1, <1>2 DEF BranchRows

LEMMA BranchesAtInit == CorpusInit => BranchInv
<1> SUFFICES ASSUME CorpusInit PROVE BranchInv
  OBVIOUS
<1>1. work = db /\ db.entries = {}
  BY DEF CorpusInit, Tables
<1>2. \A t : SessionLines(db, t) = {}
  BY <1>1 DEF SessionLines
<1>3. \A t : \A S \in SUBSET SessionLines(db, t) : ~Circle(S)
  BY <1>2 DEF Circle
<1>4. BranchRows(db)
  BY <1>1, <1>3 DEF BranchRows
<1> QED BY <1>1, <1>4 DEF BranchInv

LEMMA BranchesSettled ==
    ASSUME BranchInv, db' \in {db, work}, work' \in {db, work}
    PROVE  BranchInv'
<1>1. BranchRows(db) /\ BranchRows(work)
  BY DEF BranchInv
<1>2. BranchRows(db') /\ BranchRows(work')
  BY <1>1
<1> QED BY <1>2 DEF BranchInv

LEMMA BranchesAtFile ==
    ASSUME WellFormed, CorpusInv, BranchInv, IngestFile
    PROVE  BranchInv'
<1> DEFINE f == Head(todo)
           d == [work EXCEPT !.files = @ \cup {f.content}]
<1>1. db' = db /\ todo # <<>> /\ BranchRows(db) /\ BranchRows(work)
  BY DEF IngestFile, BranchInv
<1>2. DOMAIN work = Tables /\ Keyed(work.entries) /\ OneText(work.entries)
  BY DEF CorpusInv, WorkInv, Grows
<1>3. f \in File
  BY <1>1 DEF CorpusInv, Progress
<1>4. /\ DOMAIN d = Tables /\ d.entries = work.entries /\ d.conflicts = work.conflicts
  BY <1>2 DEF Tables
<1>5. BranchRows(d)
  <2> HIDE DEF d
  <2> QED BY <1>1, <1>4, SameBranches
<1>6. BranchRows(work')
  <2>1. CASE f.kind = "image" /\ ~busy.images
    <3>1. work' = work
      BY <2>1 DEF IngestFile
    <3> QED BY <1>1, <3>1
  <2>2. CASE ~(f.kind = "image" /\ ~busy.images)
    <3>1. work' = IF f.kind = "session" THEN WithSessionFile(d, busy, f) ELSE WithArtifact(d, busy, f)
      BY <2>2 DEF IngestFile
    <3> HIDE DEF d, f
    <3>2. CASE f.kind = "session"
      <4> DEFINE k == SessionKey(busy, f)
                 c == f.content
                 e == WithSessionFile(d, busy, f)
      <4>1. /\ e.entries = WithEntries(d.entries, k, c, Inserted(d, k, c))
            /\ e.conflicts = d.conflicts \cup ConflictsIn(d, k, c, busy)
        BY <1>4, SessionFileGrows
      <4>2. IsKey(k)
        BY DEF IsKey, SessionKey
      <4>3. c \in Seq(Listed(c))
        BY <1>3, <3>2, FileLines
      <4>4. \A i \in DOMAIN c : c[i].parent # RootEntry => \E j \in 1..(i - 1) : c[j].id = c[i].parent
        BY <1>3, <3>2 DEF WellFormed
      <4>5. Keyed(d.entries) /\ OneText(d.entries)
        BY <1>2, <1>4
      <4>6. work' = e
        BY <3>1, <3>2
      <4> HIDE DEF e, k, c
      <4>7. BranchRows(e)
        BY <1>5, <4>1, <4>2, <4>3, <4>4, <4>5, FileBranches
      <4> QED BY <4>6, <4>7
    <3>3. CASE f.kind # "session"
      <4> DEFINE e == WithArtifact(d, busy, f)
      <4>1. e.entries = d.entries /\ e.conflicts = d.conflicts
        BY <1>4 DEF WithArtifact, Tables
      <4>2. work' = e
        BY <3>1, <3>3
      <4> HIDE DEF e
      <4> QED BY <1>5, <4>1, <4>2, SameBranches
    <3> QED BY <3>2, <3>3
  <2> QED BY <2>1, <2>2
<1> QED BY <1>1, <1>6 DEF BranchInv

LEMMA BranchesStep ==
    ASSUME WellFormed, CorpusInv, BranchInv, [CorpusNext]_corpusVars
    PROVE  BranchInv'
<1>1. DOMAIN db = Tables /\ DOMAIN work = Tables
  BY DEF CorpusInv, WorkInv, Grows
<1>2. BranchRows(db) /\ BranchRows(work)
  BY DEF BranchInv
<1>3. ASSUME NEW s \in Snapshot, Begin(s) PROVE BranchInv'
  <2>1. db' = db /\ work'.entries = db.entries /\ work'.conflicts = db.conflicts
    BY <1>1, <1>3 DEF Begin, Tables
  <2>2. BranchRows(work')
    BY <1>2, <2>1, SameBranches
  <2> QED BY <1>2, <2>1, <2>2 DEF BranchInv
<1>4. CASE IngestKnownFile
  <2>1. PICK v : work' = WithVersion(work, v.key, busy, Head(todo))
    BY <1>4 DEF IngestKnownFile
  <2>2. \A t \in Tables \ {"versions"} : work'[t] = work[t]
    BY <1>1, <2>1, VersionsGrow
  <2>3. work'.entries = work.entries /\ work'.conflicts = work.conflicts
    BY <2>2 DEF Tables
  <2>4. BranchRows(work')
    BY <1>2, <2>3, SameBranches
  <2> QED BY <1>2, <1>4, <2>4 DEF BranchInv, IngestKnownFile
<1>5. CASE IngestFile
  BY <1>5, BranchesAtFile
<1>6. CASE LoseIndexRows \/ ReconcileFTS
  <2>1. work' = db' /\ \E index : db' = [db EXCEPT !.fts = index]
    BY <1>6 DEF LoseIndexRows, ReconcileFTS
  <2>2. db'.entries = db.entries /\ db'.conflicts = db.conflicts
    BY <1>1, <2>1 DEF Tables
  <2>3. BranchRows(db')
    BY <1>2, <2>2, SameBranches
  <2> QED BY <2>1, <2>3 DEF BranchInv
<1>7. CASE Commit
  BY <1>7, BranchesSettled DEF Commit
<1>8. CASE IngestRottenFile \/ Abandon
  BY <1>8, BranchesSettled DEF IngestRottenFile, Abandon, Rollback
<1>9. ASSUME NEW b \in disk, DamageBlob(b) PROVE BranchInv'
  BY <1>9, BranchesSettled DEF DamageBlob
<1>10. CASE UNCHANGED corpusVars
  BY <1>10, BranchesSettled DEF corpusVars
<1> QED BY <1>3, <1>4, <1>5, <1>6, <1>7, <1>8, <1>9, <1>10 DEF CorpusNext

\* Ingest leaves every stored parent resolvable or accounted for, and no circle.
THEOREM BranchInvariant == CorpusSpec => []BranchInv
<1>1. CorpusInv /\ BranchInv /\ [CorpusNext]_corpusVars => BranchInv'
  BY BranchesStep, ReadingAssumption
<1> QED BY BranchesAtInit, CorpusInvariant, <1>1, PTL DEF CorpusSpec

(***************************************************************************)
(* The walk of Chain.                                                      *)
(***************************************************************************)
Onward(d, k, c) ==
    IF c[Len(c)].parent = RootEntry THEN {} ELSE Held(d, k, c[Len(c)].parent) \ Range(c)

StepUp(d, k, c) ==
    IF Onward(d, k, c) = {} THEN c ELSE Append(c, CHOOSE l \in Onward(d, k, c) : TRUE)

Climb(d, k, leaf, n, g) ==
    [m \in 0..n |-> IF m = 0 THEN <<leaf>> ELSE StepUp(d, k, g[m - 1])]

LinesOf(d, k) == {e.line : e \in Mine(d, k)}

\* A path of parents, none met twice, that ends where no new parent is stored.
Path(d, k, leaf, c) ==
    /\ c \in Seq(LinesOf(d, k)) /\ Len(c) >= 1 /\ c[1] = leaf
    /\ \A i \in 1..(Len(c) - 1) : c[i].parent # RootEntry /\ c[i + 1].id = c[i].parent
    /\ \A i, j \in 1..Len(c) : c[i] = c[j] => i = j

LEMMA ClimbExists ==
    ASSUME NEW d, NEW k, NEW leaf, NEW n \in Nat
    PROVE  \E g : g = Climb(d, k, leaf, n, g)
<1> DEFINE Has(m) == \E g : g = Climb(d, k, leaf, m, g)
           bad == {m \in Nat : ~Has(m)}
<1>1. SUFFICES ASSUME bad # {} PROVE FALSE
  OBVIOUS
<1>2. PICK m \in bad : \A i \in bad : ~(i < m)
  <2>1. bad \in SUBSET Nat
    OBVIOUS
  <2> HIDE DEF bad
  <2> QED BY <1>1, <2>1, Least
<1>3. CASE m = 0
  <2> DEFINE g == [i \in 0..0 |-> <<leaf>>]
  <2>1. \A i \in 0..0 : i = 0
    OBVIOUS
  <2>2. g = Climb(d, k, leaf, 0, g)
    BY <2>1 DEF Climb
  <2>3. Has(0)
    BY <2>2
  <2> HIDE DEF Has
  <2> QED BY <1>2, <1>3, <2>3
<1>4. CASE m # 0
  <2>1. m \in Nat /\ m - 1 \in Nat /\ m - 1 < m
    BY <1>2, <1>4
  <2>2. Has(m - 1)
    BY <1>2, <2>1
  <2>3. PICK g : g = Climb(d, k, leaf, m - 1, g)
    BY <2>2
  <2> DEFINE h == Climb(d, k, leaf, m, g)
  <2>4. \A i \in 0..(m - 1) : g[i] = IF i = 0 THEN <<leaf>> ELSE StepUp(d, k, g[i - 1])
    BY <2>3 DEF Climb
  <2>5. \A i \in 0..m : h[i] = IF i = 0 THEN <<leaf>> ELSE StepUp(d, k, g[i - 1])
    BY DEF Climb
  <2>6. \A i \in 0..(m - 1) : h[i] = g[i]
    BY <2>1, <2>4, <2>5
  <2>7. ASSUME NEW i \in 0..m
        PROVE  h[i] = IF i = 0 THEN <<leaf>> ELSE StepUp(d, k, h[i - 1])
    <3>1. i # 0 => i - 1 \in 0..(m - 1)
      BY <2>1
    <3>2. i # 0 => h[i - 1] = g[i - 1]
      BY <2>6, <3>1
    <3> HIDE DEF h
    <3> QED BY <2>5, <3>2
  <2>8. h = [i \in 0..m |-> h[i]]
    BY DEF Climb
  <2>9. h = Climb(d, k, leaf, m, h)
    <3> HIDE DEF h
    <3>1. Climb(d, k, leaf, m, h) = [i \in 0..m |-> IF i = 0 THEN <<leaf>> ELSE StepUp(d, k, h[i - 1])]
      BY DEF Climb
    <3> QED BY <2>7, <2>8, <3>1
  <2>10. Has(m)
    <3> HIDE DEF h
    <3> QED BY <2>9
  <2> HIDE DEF Has, h
  <2> QED BY <1>2, <2>10
<1> QED BY <1>3, <1>4

\* One step up extends a path by a line not met before, or finds none.
LEMMA PathGrows ==
    ASSUME NEW d, NEW k, NEW leaf, NEW c, Path(d, k, leaf, c)
    PROVE  /\ Path(d, k, leaf, StepUp(d, k, c))
           /\ Onward(d, k, c) # {} => Len(StepUp(d, k, c)) = Len(c) + 1
           /\ Onward(d, k, c) = {} => StepUp(d, k, c) = c
<1>1. CASE Onward(d, k, c) = {}
  BY <1>1 DEF StepUp
<1>2. CASE Onward(d, k, c) # {}
  <2> DEFINE l == CHOOSE x \in Onward(d, k, c) : TRUE
  <2>1. l \in Onward(d, k, c)
    BY <1>2
  <2>2. StepUp(d, k, c) = Append(c, l)
    BY <1>2 DEF StepUp
  <2> HIDE DEF l
  <2>3. /\ c \in Seq(LinesOf(d, k)) /\ Len(c) \in Nat /\ Len(c) >= 1 /\ DOMAIN c = 1..Len(c)
    BY DEF Path
  <2>4. /\ c[Len(c)].parent # RootEntry /\ l \in Held(d, k, c[Len(c)].parent) /\ l \notin Range(c)
    BY <2>1 DEF Onward
  <2>5. l \in LinesOf(d, k) /\ l.id = c[Len(c)].parent
    BY <2>4 DEF Held, LinesOf
  <2>6. \A i \in 1..Len(c) : c[i] # l
    BY <2>3, <2>4 DEF Range
  <2> DEFINE e == Append(c, l)
  <2>7. /\ e \in Seq(LinesOf(d, k)) /\ Len(e) = Len(c) + 1 /\ e[Len(c) + 1] = l
        /\ \A i \in 1..Len(c) : e[i] = c[i]
    BY <2>3, <2>5
  <2> HIDE DEF e
  <2>8. \A i \in 1..(Len(e) - 1) : e[i].parent # RootEntry /\ e[i + 1].id = e[i].parent
    <3> SUFFICES ASSUME NEW i \in 1..(Len(e) - 1)
                 PROVE  e[i].parent # RootEntry /\ e[i + 1].id = e[i].parent
      OBVIOUS
    <3>1. CASE i = Len(c)
      BY <2>3, <2>4, <2>5, <2>7, <3>1
    <3>2. CASE i # Len(c)
      <4>1. i \in 1..(Len(c) - 1) /\ i \in 1..Len(c) /\ i + 1 \in 1..Len(c)
        <5> DEFINE n == Len(c)
        <5>1. n \in Nat /\ i \in 1..n /\ i # n
          <6>1. Len(e) - 1 = n
            BY <2>3, <2>7
          <6> QED BY <2>3, <3>2, <6>1
        <5> HIDE DEF n
        <5>2. i \in 1..(n - 1) /\ i \in 1..n /\ i + 1 \in 1..n
          BY <5>1
        <5> QED BY <5>2 DEF n
      <4> QED BY <2>7, <4>1 DEF Path
    <3> QED BY <3>1, <3>2
  <2>9. \A i, j \in 1..Len(e) : e[i] = e[j] => i = j
    <3>1. \A i \in 1..Len(e) : i \in 1..Len(c) \/ i = Len(c) + 1
      BY <2>3, <2>7
    <3> QED BY <2>6, <2>7, <3>1 DEF Path
  <2>10. Len(e) >= 1 /\ e[1] = leaf
    BY <2>3, <2>7 DEF Path
  <2>11. Path(d, k, leaf, e)
    BY <2>7, <2>8, <2>9, <2>10 DEF Path
  <2> QED BY <1>2, <2>2, <2>7, <2>11 DEF e
<1> QED BY <1>1, <1>2

\* Chain is a path, and it goes on until there is no new parent: a path cannot be
\* longer than the session has lines.
LEMMA ChainIsPath ==
    ASSUME NEW d, NEW k, NEW leaf, IsFiniteSet(Mine(d, k)), leaf \in LinesOf(d, k)
    PROVE  Path(d, k, leaf, Chain(d, k, leaf)) /\ Onward(d, k, Chain(d, k, leaf)) = {}
<1> DEFINE N == Cardinality(Mine(d, k))
<1>1. N \in Nat
  BY FS_CardinalityType
<1> DEFINE up == CHOOSE g : g = Climb(d, k, leaf, N, g)
<1>2. Chain(d, k, leaf) = up[N]
  BY DEF Chain, Climb, StepUp, Onward
<1> HIDE DEF N
<1>3. up = Climb(d, k, leaf, N, up)
  BY <1>1, ClimbExists
<1> HIDE DEF up
<1>4. up[0] = <<leaf>> /\ \A n \in 1..N : up[n] = StepUp(d, k, up[n - 1])
  <2>1. \A n \in 0..N : up[n] = IF n = 0 THEN <<leaf>> ELSE StepUp(d, k, up[n - 1])
    BY <1>3 DEF Climb
  <2> QED BY <1>1, <2>1
<1> DEFINE Good(n) == /\ Path(d, k, leaf, up[n])
                      /\ Len(up[n]) = n + 1 \/ Onward(d, k, up[n]) = {}
           bad == {n \in 0..N : ~Good(n)}
<1>5. bad = {}
  <2>1. SUFFICES ASSUME bad # {} PROVE FALSE
    OBVIOUS
  <2>2. PICK n \in bad : \A i \in bad : ~(i < n)
    <3>1. bad \in SUBSET Nat
      BY <1>1
    <3> HIDE DEF bad
    <3> QED BY <2>1, <3>1, Least
  <2>3. CASE n = 0
    <3>1. <<leaf>> \in Seq(LinesOf(d, k)) /\ Len(<<leaf>>) = 1 /\ <<leaf>>[1] = leaf
      OBVIOUS
    <3>2. Path(d, k, leaf, <<leaf>>)
      BY <3>1 DEF Path
    <3> QED BY <1>4, <2>2, <2>3, <3>1, <3>2
  <2>4. CASE n # 0
    <3>1. n \in 1..N /\ n - 1 \in 0..N /\ n - 1 < n
      BY <1>1, <2>2, <2>4
    <3>2. Good(n - 1)
      BY <2>2, <3>1
    <3> DEFINE c == up[n - 1]
    <3>3. up[n] = StepUp(d, k, c)
      BY <1>4, <3>1
    <3>4. Path(d, k, leaf, c) /\ (Len(c) = n \/ Onward(d, k, c) = {})
      BY <3>1, <3>2
    <3> HIDE DEF c
    <3>5. /\ Path(d, k, leaf, StepUp(d, k, c))
          /\ Onward(d, k, c) # {} => Len(StepUp(d, k, c)) = Len(c) + 1
          /\ Onward(d, k, c) = {} => StepUp(d, k, c) = c
      BY <3>4, PathGrows
    <3>6. Good(n)
      BY <3>3, <3>4, <3>5
    <3> HIDE DEF Good
    <3> QED BY <2>2, <3>6
  <2> QED BY <2>3, <2>4
<1>6. Good(N)
  <2> HIDE DEF Good
  <2> QED BY <1>1, <1>5
<1> DEFINE c == up[N]
<1>7. Path(d, k, leaf, c) /\ (Len(c) = N + 1 \/ Onward(d, k, c) = {})
  BY <1>6
<1> HIDE DEF c, Good
<1>8. ASSUME Len(c) = N + 1 PROVE FALSE
  <2>1. c \in Seq(LinesOf(d, k)) /\ \A i \in 1..(N + 1) : c[i] \in LinesOf(d, k)
    BY <1>1, <1>7, <1>8 DEF Path
  <2>2. \A i \in 1..(N + 1) : \E e \in Mine(d, k) : e.line = c[i]
    BY <2>1 DEF LinesOf
  <2> DEFINE row == [i \in 1..(N + 1) |-> CHOOSE e \in Mine(d, k) : e.line = c[i]]
  <2>3. \A i \in 1..(N + 1) : row[i] \in Mine(d, k) /\ row[i].line = c[i]
    BY <2>2
  <2>4. row \in [1..(N + 1) -> Mine(d, k)]
    BY <2>3
  <2> HIDE DEF row
  <2>5. IsFiniteSet(1..(N + 1)) /\ Cardinality(1..(N + 1)) = N + 1
    <3>1. /\ IsFiniteSet(1..(N + 1))
          /\ Cardinality(1..(N + 1)) = IF 1 > N + 1 THEN 0 ELSE (N + 1) - 1 + 1
      BY <1>1, FS_Interval
    <3> QED BY <1>1, <3>1
  <2>6. Cardinality(Mine(d, k)) < Cardinality(1..(N + 1))
    BY <1>1, <2>5 DEF N
  <2>7. PICK i, j \in 1..(N + 1) : i # j /\ row[i] = row[j]
    BY <2>4, <2>5, <2>6, FS_PigeonHole
  <2>8. c[i] = c[j]
    BY <2>3, <2>7
  <2> QED BY <1>7, <1>8, <2>7, <2>8 DEF Path
<1> QED BY <1>2, <1>7, <1>8 DEF c

\* A branch of a stored line leads to its root, or to a parent a conflict row of
\* its session names: the walk of ReadBranch and LiveContext never runs in a circle.
THEOREM BranchesLead == ReadingSpec => []BranchesReach
<1>1. RowsInv /\ BranchInv => BranchesReach
  <2> SUFFICES ASSUME RowsInv, BranchInv, NEW e \in db.entries
               PROVE  LET c == Chain(db, e.key, e.line) IN
                      \/ ReadBranch(db, e.key, e.line).ok
                      \/ /\ ChainEnd(db, e.key, c) = "dangling"
                         /\ \E x \in db.conflicts : x.key = e.key /\ x.entry = c[Len(c)].parent
    BY DEF BranchesReach
  <2> DEFINE k == e.key
             c == Chain(db, k, e.line)
             last == c[Len(c)]
  <2>1. IsFiniteSet(Mine(db, k))
    <3>1. IsFiniteSet(db.entries) /\ Mine(db, k) \in SUBSET db.entries
      BY DEF RowsInv, Rows, EntryRows, Mine
    <3> QED BY <3>1, FS_Subset
  <2>2. e.line \in LinesOf(db, k)
    BY DEF LinesOf, Mine
  <2>3. Path(db, k, e.line, c) /\ Onward(db, k, c) = {}
    BY <2>1, <2>2, ChainIsPath
  <2> HIDE DEF c
  <2>4. /\ c \in Seq(LinesOf(db, k)) /\ Len(c) \in Nat \ {0} /\ DOMAIN c = 1..Len(c)
        /\ Len(c) \in DOMAIN c
    BY <2>3 DEF Path
  <2>5. PICK y \in db.entries : y.key = k /\ y.line = last
    BY <2>4 DEF LinesOf, Mine
  <2>6. CASE last.parent = RootEntry
    <3>1. ChainEnd(db, k, c) = "root"
      BY <2>6 DEF ChainEnd
    <3>2. ReadBranch(db, k, e.line).ok
      BY <3>1 DEF ReadBranch, c
    <3> QED BY <3>2
  <2>7. CASE last.parent # RootEntry /\ Held(db, k, last.parent) = {}
    <3>1. ChainEnd(db, k, c) = "dangling"
      BY <2>7 DEF ChainEnd
    <3>2. \/ \E x \in Mine(db, y.key) : x.line.id = y.line.parent
          \/ \E r \in db.conflicts : r.key = y.key /\ r.entry = y.line.parent
      BY <2>5, <2>7 DEF BranchInv, BranchRows
    <3>3. ~\E x \in Mine(db, k) : x.line.id = last.parent
      BY <2>7 DEF Held
    <3>4. \E r \in db.conflicts : r.key = k /\ r.entry = last.parent
      BY <2>5, <3>2, <3>3
    <3> QED BY <3>1, <3>4 DEF c
  <2>8. CASE last.parent # RootEntry /\ Held(db, k, last.parent) # {}
    <3> DEFINE S == Range(c)
    <3>1. S \subseteq SessionLines(db, k.session)
      <4>1. ASSUME NEW i \in DOMAIN c PROVE c[i] \in SessionLines(db, k.session)
        BY <2>4 DEF LinesOf, Mine, SessionLines
      <4> QED BY <4>1 DEF Range
    <3>2. PICK h \in Held(db, k, last.parent) : h \in S
      BY <2>3, <2>8 DEF Onward
    <3>3. ASSUME NEW i \in DOMAIN c
          PROVE  c[i].parent # RootEntry /\ \E m \in S : m.id = c[i].parent
      <4>1. CASE i = Len(c)
        BY <2>8, <3>2, <4>1 DEF Held
      <4>2. CASE i # Len(c)
        <5>1. i \in 1..(Len(c) - 1) /\ i + 1 \in DOMAIN c
          BY <2>4, <4>2
        <5>2. c[i].parent # RootEntry /\ c[i + 1].id = c[i].parent
          BY <2>3, <5>1 DEF Path
        <5> QED BY <5>1, <5>2 DEF Range
      <4> QED BY <4>1, <4>2
    <3>4. Circle(S)
      <4>1. \A l \in S : \E i \in DOMAIN c : l = c[i]
        BY DEF Range
      <4>2. S # {}
        BY <3>2
      <4> HIDE DEF S
      <4> QED BY <3>3, <4>1, <4>2 DEF Circle
    <3> HIDE DEF S
    <3> QED BY <3>1, <3>4 DEF BranchInv, BranchRows
  <2> QED BY <2>6, <2>7, <2>8
<1> QED BY <1>1, RowsInvariant, BranchInvariant, ReadingIsIngest, PTL

(***************************************************************************)
(* Listings by line number: one that begins another.                       *)
(***************************************************************************)
ByNumber(es, S) ==
    /\ \E n \in Nat : DOMAIN es = 1..n
    /\ \A i \in DOMAIN es : es[i] \in S
    /\ \A x \in S : x.no \in Nat /\ \E i \in DOMAIN es : es[i] = x
    /\ \A i, j \in DOMAIN es : i < j => es[i].no < es[j].no

\* The entries of S are those of T with the least line numbers.
Starts(S, T) ==
    /\ \A x \in S : \E y \in T : y.line = x.line /\ y.no = x.no
    /\ \A y \in T : (\E x \in S : x.no = y.no) \/ \A x \in S : x.no < y.no

Begins(es, fs) ==
    \A i \in DOMAIN es : i \in DOMAIN fs /\ fs[i].line = es[i].line

LEMMA ListingsBegin ==
    ASSUME NEW es, NEW fs, NEW S, NEW T, ByNumber(es, S), ByNumber(fs, T), Starts(S, T)
    PROVE  Begins(es, fs)
<1> DEFINE Same(i) == i \in DOMAIN fs /\ fs[i].no = es[i].no
           bad == {i \in DOMAIN es : ~Same(i)}
<1>1. PICK m \in Nat : DOMAIN es = 1..m
  BY DEF ByNumber
<1>2. PICK n \in Nat : DOMAIN fs = 1..n
  BY DEF ByNumber
<1>3. /\ \A i \in DOMAIN es : es[i] \in S /\ es[i].no \in Nat
      /\ \A i, j \in DOMAIN es : i < j => es[i].no < es[j].no
      /\ \A x \in S : \E i \in DOMAIN es : es[i] = x
  BY DEF ByNumber
<1>4. /\ \A i \in DOMAIN fs : fs[i] \in T /\ fs[i].no \in Nat
      /\ \A i, j \in DOMAIN fs : i < j => fs[i].no < fs[j].no
      /\ \A y \in T : \E i \in DOMAIN fs : fs[i] = y
  BY DEF ByNumber
<1>5. \A i \in DOMAIN es : \E j \in DOMAIN fs : fs[j].no = es[i].no /\ fs[j].line = es[i].line
  <2> TAKE i \in DOMAIN es
  <2>1. PICK y \in T : y.line = es[i].line /\ y.no = es[i].no
    BY <1>3 DEF Starts
  <2>2. PICK j \in DOMAIN fs : fs[j] = y
    BY <1>4
  <2> QED BY <2>1, <2>2
<1>6. ASSUME bad # {} PROVE FALSE
  <2>1. bad \in SUBSET Nat
    BY <1>1
  <2>2. PICK i \in bad : \A q \in bad : ~(q < i)
    <3> HIDE DEF bad
    <3> QED BY <1>6, <2>1, Least
  <2>3. i \in DOMAIN es /\ i \in Nat /\ ~Same(i)
    BY <1>1
  <2>4. \A q \in DOMAIN es : q < i => Same(q)
    BY <2>2
  <2> HIDE DEF bad
  <2>5. PICK j \in DOMAIN fs : fs[j].no = es[i].no
    BY <1>5, <2>3
  <2>6. j # i
    BY <2>3, <2>5
  <2>7. ~(j < i)
    <3> SUFFICES ASSUME j < i PROVE FALSE
      OBVIOUS
    <3>1. j \in DOMAIN es
      BY <1>1, <1>2, <2>3
    <3>2. fs[j].no = es[j].no
      BY <2>4, <3>1
    <3>3. es[j].no < es[i].no /\ es[i].no \in Nat /\ es[j].no \in Nat
      BY <1>3, <2>3, <3>1
    <3> QED BY <2>5, <3>2, <3>3
  <2>8. i < j /\ i \in DOMAIN fs
    BY <1>1, <1>2, <2>3, <2>6, <2>7
  <2>9. fs[i].no < es[i].no /\ fs[i] \in T /\ fs[i].no \in Nat
    BY <1>4, <2>5, <2>8
  <2>10. PICK x \in S : x.no = fs[i].no
    <3>1. es[i] \in S /\ es[i].no \in Nat
      BY <1>3, <2>3
    <3>2. ~(es[i].no < fs[i].no)
      BY <2>9, <3>1
    <3> QED BY <2>9, <3>1, <3>2 DEF Starts
  <2>11. PICK p \in DOMAIN es : es[p] = x
    BY <1>3
  <2>12. p < i
    <3>1. es[p].no < es[i].no /\ es[p].no \in Nat /\ es[i].no \in Nat /\ p \in Nat
      BY <1>1, <1>3, <2>3, <2>9, <2>10, <2>11
    <3>2. i < p => es[i].no < es[p].no
      BY <1>3, <2>3
    <3>3. p # i
      BY <3>1
    <3> QED BY <2>3, <3>1, <3>2, <3>3
  <2>13. p \in DOMAIN fs /\ fs[p].no = fs[i].no
    BY <2>4, <2>10, <2>11, <2>12
  <2>14. fs[p].no < fs[i].no
    BY <1>4, <2>8, <2>12, <2>13
  <2> QED BY <2>9, <2>13, <2>14
<1>7. ASSUME NEW i \in DOMAIN es PROVE i \in DOMAIN fs /\ fs[i].line = es[i].line
  <2>1. i \in DOMAIN fs /\ fs[i].no = es[i].no
    BY <1>6
  <2>2. PICK j \in DOMAIN fs : fs[j].no = es[i].no /\ fs[j].line = es[i].line
    BY <1>5
  <2>3. i = j
    <3>1. i \in Nat /\ j \in Nat /\ fs[i].no \in Nat
      BY <1>2, <1>4, <2>1
    <3>2. ~(i < j) /\ ~(j < i)
      BY <1>4, <2>1, <2>2, <3>1
    <3> QED BY <3>1, <3>2
  <2> QED BY <2>1, <2>2, <2>3
<1> QED BY <1>7 DEF Begins

\* What is paired in a beginning is paired in the whole.
LEMMA BeginningsPair ==
    ASSUME NEW es, NEW fs, Parsed(es), Parsed(fs), Begins(es, fs),
           \A i, j \in DOMAIN fs : fs[i].line.id = fs[j].line.id => i = j
    PROVE  BuildToolInvocations(es) \subseteq BuildToolInvocations(fs)
<1>1. PICK m \in Nat : DOMAIN es = 1..m
  BY DEF Parsed
<1>2. PICK n \in Nat : DOMAIN fs = 1..n
  BY DEF Parsed
<1>3. \A p \in CallsIn(es) : p \in CallsIn(fs) /\ Call(fs, p) = Call(es, p)
  BY DEF CallsIn, Begins, Call
<1>4. \A p \in CallsIn(fs) : p[1] \in DOMAIN es => p \in CallsIn(es)
  BY DEF CallsIn, Begins
<1>5. \A r \in ResultsIn(es) : r \in ResultsIn(fs) /\ Outcome(fs, r) = Outcome(es, r)
  BY DEF ResultsIn, Begins, Outcome
<1>6. \A r \in ResultsIn(fs) : r[1] \in DOMAIN es => r \in ResultsIn(es)
  BY DEF ResultsIn, Begins
<1>7. /\ \A p \in CallsIn(fs) : p = <<p[1], p[2]>> /\ p[1] \in DOMAIN fs /\ p[1] \in Nat /\ p[2] \in Nat
      /\ \A r \in ResultsIn(fs) : r = <<r[1], r[2]>> /\ r[1] \in DOMAIN fs /\ r[1] \in Nat /\ r[2] \in Nat
      /\ \A p \in CallsIn(es) : p[1] \in DOMAIN es
      /\ \A r \in ResultsIn(es) : r[1] \in DOMAIN es
  BY CallPlaces
<1>8. \A p, q : q[1] \in Nat /\ p[1] \in DOMAIN es /\ q[1] \in DOMAIN fs /\ Sooner(q, p) => q[1] \in DOMAIN es
  BY <1>1, <1>2 DEF Sooner
<1>9. ASSUME NEW c \in CallsIn(es) PROVE OutcomesOf(es, c) \subseteq OutcomesOf(fs, c)
  <2> DEFINE tool == Call(es, c).tool
             givenE == {r \in ResultsIn(es) : Outcome(es, r).for = tool}
             givenF == {r \in ResultsIn(fs) : Outcome(fs, r).for = tool}
             callsE == {d \in CallsIn(es) : Call(es, d).tool = Anonymous}
             callsF == {d \in CallsIn(fs) : Call(fs, d).tool = Anonymous}
  <2>1. c \in CallsIn(fs) /\ Call(fs, c).tool = tool
    BY <1>3
  <2>2. {q \in callsE : Sooner(q, c)} = {q \in callsF : Sooner(q, c)}
    <3>1. \A q \in callsF : Sooner(q, c) => q \in callsE
      BY <1>3, <1>4, <1>7, <1>8
    <3>2. callsE \subseteq callsF
      BY <1>3
    <3> QED BY <3>1, <3>2
  <2>3. Rank(c, callsE) = Rank(c, callsF)
    BY <2>2 DEF Rank
  <2>4. ASSUME NEW r \in givenE PROVE r \in givenF /\ Rank(r, givenE) = Rank(r, givenF)
    <3>1. \A q \in givenF : Sooner(q, r) => q \in givenE
      BY <1>5, <1>6, <1>7, <1>8
    <3>2. givenE \subseteq givenF
      BY <1>5
    <3>3. {q \in givenE : Sooner(q, r)} = {q \in givenF : Sooner(q, r)}
      BY <3>1, <3>2
    <3> QED BY <3>2, <3>3 DEF Rank
  <2> HIDE DEF tool, givenE, givenF, callsE, callsF
  <2>5. OutcomesOf(es, c) = {r \in givenE : Rank(r, givenE) = IF tool = Anonymous THEN Rank(c, callsE) ELSE 0}
    BY DEF OutcomesOf, tool, givenE, callsE
  <2>6. OutcomesOf(fs, c) = {r \in givenF : Rank(r, givenF) = IF tool = Anonymous THEN Rank(c, callsF) ELSE 0}
    BY <2>1 DEF OutcomesOf, givenF, callsF
  <2> QED BY <2>3, <2>4, <2>5, <2>6
<1>10. ASSUME NEW c \in CallsIn(fs) PROVE FirstOfItsKey(fs, c)
  <2> SUFFICES ASSUME NEW d \in CallsIn(fs), Sooner(d, c), fs[d[1]].line.id = fs[c[1]].line.id, d[2] = c[2]
               PROVE  FALSE
    BY DEF FirstOfItsKey
  <2>1. d[1] = c[1]
    BY <1>7
  <2> QED BY <1>7, <2>1 DEF Sooner
<1>11. ASSUME NEW x \in BuildToolInvocations(es) PROVE x \in BuildToolInvocations(fs)
  <2>1. PICK c \in CallsIn(es) : \E r \in OutcomesOf(es, c) : r \in ResultsIn(es) /\ x = Invocation(es, c, r)
    BY InvocationsTellCalls
  <2>2. PICK r \in OutcomesOf(es, c) : r \in ResultsIn(es) /\ x = Invocation(es, c, r)
    BY <2>1
  <2>3. c \in CallsIn(fs) /\ r \in OutcomesOf(fs, c) /\ FirstOfItsKey(fs, c)
    BY <1>3, <1>9, <1>10, <2>2
  <2>4. Call(fs, c) = Call(es, c) /\ Outcome(fs, r) = Outcome(es, r) /\ fs[c[1]].line = es[c[1]].line
    BY <1>3, <1>5, <1>7, <2>2 DEF Begins
  <2>5. x = Invocation(fs, c, r)
    BY <2>2, <2>4 DEF Invocation
  <2> QED BY <2>3, <2>5 DEF BuildToolInvocations
<1> QED BY <1>11

\* Choosing by rank gives a listing.
LEMMA RankListing ==
    ASSUME NEW S, IsFiniteSet(S), \A x \in S : x.no \in Nat, NEW R, Orders(R, S),
           \A x, y \in S : <<x, y>> \in R <=> x.no < y.no,
           NEW es, DOMAIN es = 1..Cardinality(S),
           \A n \in 1..Cardinality(S) : es[n] \in S /\ Cardinality(Below(S, R, es[n])) = n - 1
    PROVE  ByNumber(es, S)
<1>1. /\ Cardinality(S) \in Nat
      /\ \A x \in S : Cardinality(Below(S, R, x)) \in 0..(Cardinality(S) - 1)
      /\ \A x, y \in S : <<x, y>> \in R <=> Cardinality(Below(S, R, x)) < Cardinality(Below(S, R, y))
      /\ \A x, y \in S : Cardinality(Below(S, R, x)) = Cardinality(Below(S, R, y)) => x = y
  BY RanksAreOrdered
<1>2. ASSUME NEW x \in S PROVE \E i \in DOMAIN es : es[i] = x
  <2> DEFINE i == Cardinality(Below(S, R, x)) + 1
  <2>1. i \in 1..Cardinality(S) /\ i - 1 = Cardinality(Below(S, R, x))
    BY <1>1
  <2>2. es[i] \in S /\ Cardinality(Below(S, R, es[i])) = Cardinality(Below(S, R, x))
    BY <2>1
  <2> QED BY <1>1, <2>1, <2>2
<1>3. ASSUME NEW i \in DOMAIN es, NEW j \in DOMAIN es, i < j PROVE es[i].no < es[j].no
  <2>1. i \in Nat /\ j \in Nat
    BY <1>1
  <2>2. /\ es[i] \in S /\ Cardinality(Below(S, R, es[i])) = i - 1
        /\ es[j] \in S /\ Cardinality(Below(S, R, es[j])) = j - 1
    OBVIOUS
  <2>3. <<es[i], es[j]>> \in R
    BY <1>1, <1>3, <2>1, <2>2
  <2> QED BY <2>2, <2>3
<1> QED BY <1>1, <1>2, <1>3 DEF ByNumber

\* The lines of c with numbers in I, as parsed entries.
PlacesOf(c, I) == {[line |-> c[i], no |-> i] : i \in I}

LEMMA NumberedListing ==
    ASSUME NEW c, c \in Seq(Listed(c)), NEW I \in SUBSET (DOMAIN c)
    PROVE  ByNumber(Numbered(c, I), PlacesOf(c, I))
<1> DEFINE R == {p \in I \X I : p[1] < p[2]}
           place(n) == CHOOSE x \in I : Cardinality({y \in I : y < x}) = n - 1
           es == Numbered(c, I)
<1>1. IsFiniteSet(I) /\ I \subseteq Nat
  <2>1. IsFiniteSet(DOMAIN c) /\ DOMAIN c \subseteq Nat
    <3>1. DOMAIN c = 1..Len(c) /\ Len(c) \in Nat
      OBVIOUS
    <3> QED BY <3>1, FS_Interval
  <2> QED BY <2>1, FS_Subset
<1>2. Orders(R, I)
  BY <1>1 DEF Orders
<1>3. \A x \in I : Below(I, R, x) = {y \in I : y < x}
  BY DEF Below
<1>4. Cardinality(I) \in Nat
  BY <1>1, FS_CardinalityType
<1>5. es = [n \in 1..Cardinality(I) |-> [line |-> c[place(n)], no |-> place(n)]]
  BY DEF Numbered
<1>6. ASSUME NEW n \in 1..Cardinality(I)
      PROVE  place(n) \in I /\ Cardinality(Below(I, R, place(n))) = n - 1
  <2>1. n - 1 \in 0..(Cardinality(I) - 1)
    BY <1>4
  <2>2. \E x \in I : Cardinality(Below(I, R, x)) = n - 1
    <3> HIDE DEF R
    <3> QED BY <1>1, <1>2, <2>1, RanksAreAll
  <2>3. \E x \in I : Cardinality({y \in I : y < x}) = n - 1
    BY <1>3, <2>2
  <2>4. place(n) \in I /\ Cardinality({y \in I : y < place(n)}) = n - 1
    BY <2>3
  <2> HIDE DEF place, R
  <2> QED BY <1>3, <2>4
<1>7. \A x, y \in I : <<x, y>> \in R <=> x < y
  OBVIOUS
<1> HIDE DEF place, es, R
<1>8. /\ \A x \in I : Cardinality(Below(I, R, x)) \in 0..(Cardinality(I) - 1)
      /\ \A x, y \in I : <<x, y>> \in R <=> Cardinality(Below(I, R, x)) < Cardinality(Below(I, R, y))
      /\ \A x, y \in I : Cardinality(Below(I, R, x)) = Cardinality(Below(I, R, y)) => x = y
  BY <1>1, <1>2, RanksAreOrdered
<1>9. ASSUME NEW i \in I PROVE \E n \in DOMAIN es : es[n] = [line |-> c[i], no |-> i]
  <2> DEFINE n == Cardinality(Below(I, R, i)) + 1
  <2>1. n \in 1..Cardinality(I) /\ n - 1 = Cardinality(Below(I, R, i))
    BY <1>4, <1>8
  <2> HIDE DEF n
  <2>2. place(n) = i
    BY <1>6, <1>8, <2>1
  <2> QED BY <1>5, <2>1, <2>2
<1>10. ASSUME NEW m \in DOMAIN es, NEW n \in DOMAIN es, m < n PROVE es[m].no < es[n].no
  <2>1. m \in 1..Cardinality(I) /\ n \in 1..Cardinality(I)
    BY <1>5
  <2>2. /\ place(m) \in I /\ Cardinality(Below(I, R, place(m))) = m - 1
        /\ place(n) \in I /\ Cardinality(Below(I, R, place(n))) = n - 1
    BY <1>6, <2>1
  <2>3. m - 1 < n - 1
    BY <1>4, <1>10, <2>1
  <2>4. <<place(m), place(n)>> \in R
    BY <1>8, <2>2, <2>3
  <2>5. place(m) < place(n)
    BY <1>7, <2>2, <2>4
  <2> QED BY <1>5, <2>1, <2>5
<1>11. \A n \in DOMAIN es : es[n] \in PlacesOf(c, I)
  BY <1>5, <1>6 DEF PlacesOf
<1>12. \A x \in PlacesOf(c, I) : x.no \in Nat /\ \E n \in DOMAIN es : es[n] = x
  BY <1>1, <1>9 DEF PlacesOf
<1>13. DOMAIN es = 1..Cardinality(I)
  BY <1>5
<1> QED BY <1>4, <1>10, <1>11, <1>12, <1>13 DEF ByNumber, es

\* Entries of one session with line numbers of their own: the rebuild reads them in order.
LEMMA StoredListing ==
    ASSUME NEW d, NEW k, EntryRows(d), \A x, y \in Mine(d, k) : x.no = y.no => x = y
    PROVE  ByNumber(StoredEntries(d, k), Mine(d, k))
<1> DEFINE S == Mine(d, k)
           Earlier(x, y) == x.no < y.no \/ (x.no = y.no /\ x.line.id < y.line.id)
           R == {p \in S \X S : p[1].no < p[2].no}
           es == StoredEntries(d, k)
           place(n) == CHOOSE e \in S : Cardinality({x \in S : Earlier(x, e)}) = n - 1
<1>1. IsFiniteSet(S) /\ \A x \in S : x.no \in Nat /\ x.line.id \in Nat
  <2>1. \A x \in S : x.line \in Transcript /\ x.no \in Nat
    BY DEF Mine, EntryRows
  <2>2. S \subseteq d.entries
    BY DEF Mine
  <2>3. IsFiniteSet(S)
    BY <2>2, FS_Subset DEF EntryRows
  <2> QED BY <2>1, <2>3, Lines
<1>2. es = [n \in 1..Cardinality(S) |-> place(n)]
  BY DEF StoredEntries
<1> HIDE DEF S
<1>3. \A x, y \in S : <<x, y>> \in R <=> x.no < y.no
  OBVIOUS
<1>4. \A x, y \in S : x.no = y.no => x = y
  BY DEF S
<1>5. Orders(R, S)
  BY <1>1, <1>4 DEF Orders
<1>6. ASSUME NEW e \in S PROVE Below(S, R, e) = {x \in S : Earlier(x, e)}
  <2>1. \A x \in S : Earlier(x, e) <=> x.no < e.no
    BY <1>1, <1>4
  <2> QED BY <1>3, <2>1 DEF Below
<1>7. Cardinality(S) \in Nat
  BY <1>1, FS_CardinalityType
<1>8. ASSUME NEW n \in 1..Cardinality(S)
      PROVE  place(n) \in S /\ Cardinality(Below(S, R, place(n))) = n - 1
  <2>1. n - 1 \in 0..(Cardinality(S) - 1)
    BY <1>7
  <2>2. PICK e \in S : Cardinality(Below(S, R, e)) = n - 1
    <3> HIDE DEF R
    <3> QED BY <1>1, <1>5, <2>1, RanksAreAll
  <2>3. Cardinality({x \in S : Earlier(x, e)}) = n - 1
    BY <1>6, <2>2
  <2>4. place(n) \in S /\ Cardinality({x \in S : Earlier(x, place(n))}) = n - 1
    BY <2>3
  <2> HIDE DEF place, R
  <2> QED BY <1>6, <2>4
<1>9. DOMAIN es = 1..Cardinality(S) /\ \A n \in 1..Cardinality(S) : es[n] = place(n)
  BY <1>2
<1> HIDE DEF es, place, R, Earlier
<1>10. ByNumber(es, S)
  BY <1>1, <1>3, <1>5, <1>8, <1>9, RankListing
<1> QED BY <1>10 DEF es, S

(***************************************************************************)
(* The rows of tool invocations against the entries they are rebuilt from. *)
(***************************************************************************)
StoredLines(d, k, c) == {i \in DOMAIN c : \E e \in Mine(d, k) : e.line = c[i]}
PairedOf(d, k, c) == BuildToolInvocations(Numbered(c, StoredLines(d, k, c)))

\* An entry has the number it has in some version.
NumberedByVersion(d) ==
    \A e \in d.entries : \E v \in d.versions :
        v.key = e.key /\ e.no \in DOMAIN v.content /\ v.content[e.no] = e.line

\* What is stored of a version is final: no line of it can be inserted any more.
VersionsSettled(d) ==
    \A v \in d.versions : \A i \in DOMAIN v.content :
        (\E e \in Mine(d, v.key) : e.line.id = v.content[i].id) \/ Blocked(d, v.key, v.content[i]) # {}

\* Every row was paired in some version, and, where the session only grew, every
\* pairing of a version is a row.
RowsPaired(d) ==
    /\ \A r \in d.invocations : \E v \in d.versions : v.key = r.key /\
          \E x \in PairedOf(d, r.key, v.content) : Bare(r.inv) = Bare(x)
    /\ \A v \in d.versions : OnlyGrew(d, v.key) =>
          \A x \in PairedOf(d, v.key, v.content) :
              \E r \in d.invocations : r.key = v.key /\ Bare(r.inv) = Bare(x)

PairRows(d) == NumberedByVersion(d) /\ VersionsSettled(d) /\ RowsPaired(d)

VersionFiles(d) == \A v \in d.versions : VersionOfFile(v)

PairInv == PairRows(db) /\ PairRows(work)

LEMMA VersionLines ==
    ASSUME NEW d, VersionFiles(d), NEW v \in d.versions
    PROVE  /\ v.content \in Seq(Listed(v.content))
           /\ \A i \in DOMAIN v.content : v.content[i] \in Transcript
           /\ \E n \in Nat : DOMAIN v.content = 1..n
<1>1. PICK f \in File : f.kind = "session" /\ f.content = v.content
  BY DEF VersionFiles, VersionOfFile
<1>2. f.content \in Seq(Listed(f.content)) /\ \A i \in DOMAIN f.content : f.content[i] \in Transcript
  BY <1>1, FileLines
<1>3. DOMAIN f.content = 1..Len(f.content) /\ Len(f.content) \in Nat
  BY <1>2
<1> QED BY <1>1, <1>2, <1>3

\* A session that only grew: one line per number, over all its versions.
LEMMA NumbersAreLines ==
    ASSUME NEW d, NEW k, EntryRows(d), NumberedByVersion(d), VersionFiles(d), OnlyGrew(d, k),
           NEW v \in d.versions, v.key = k
    PROVE  /\ \A e \in Mine(d, k) : e.no \in DOMAIN v.content => v.content[e.no] = e.line
           /\ \A e \in Mine(d, k) : \A i \in DOMAIN v.content : v.content[i] = e.line => e.no = i
           /\ \A x, y \in Mine(d, k) : x.no = y.no => x = y
<1>1. ASSUME NEW e \in Mine(d, k)
      PROVE  \E w \in d.versions : w.key = k /\ e.no \in DOMAIN w.content /\ w.content[e.no] = e.line
  BY DEF Mine, NumberedByVersion
<1>2. /\ \A u, w \in {x \in d.versions : x.key = k} : \A i \in DOMAIN u.content \cap DOMAIN w.content :
             u.content[i] = w.content[i]
      /\ \A w \in {x \in d.versions : x.key = k} : \A i, j \in DOMAIN w.content :
             w.content[i] = w.content[j] => i = j
  BY DEF OnlyGrew
<1>3. ASSUME NEW e \in Mine(d, k), e.no \in DOMAIN v.content PROVE v.content[e.no] = e.line
  BY <1>1, <1>2, <1>3
<1>4. ASSUME NEW e \in Mine(d, k), NEW i \in DOMAIN v.content, v.content[i] = e.line PROVE e.no = i
  <2>1. CASE e.no \in DOMAIN v.content
    BY <1>2, <1>3, <1>4, <2>1
  <2>2. CASE e.no \notin DOMAIN v.content
    <3>1. PICK w \in d.versions : w.key = k /\ e.no \in DOMAIN w.content /\ w.content[e.no] = e.line
      BY <1>1
    <3>2. PICK m \in Nat : DOMAIN v.content = 1..m
      BY VersionLines
    <3>3. PICK n \in Nat : DOMAIN w.content = 1..n
      BY VersionLines
    <3>4. i \in DOMAIN w.content
      BY <2>2, <3>1, <3>2, <3>3
    <3>5. w.content[i] = v.content[i]
      BY <1>2, <3>1, <3>4
    <3> QED BY <1>2, <1>4, <3>1, <3>4, <3>5
  <2> QED BY <2>1, <2>2
<1>5. ASSUME NEW x \in Mine(d, k), NEW y \in Mine(d, k), x.no = y.no PROVE x = y
  <2>1. PICK u \in d.versions : u.key = k /\ x.no \in DOMAIN u.content /\ u.content[x.no] = x.line
    BY <1>1
  <2>2. PICK w \in d.versions : w.key = k /\ y.no \in DOMAIN w.content /\ w.content[y.no] = y.line
    BY <1>1
  <2>3. x.line = y.line
    BY <1>2, <1>5, <2>1, <2>2
  <2> QED BY <2>3 DEF EntryRows, Mine
<1> QED BY <1>3, <1>4, <1>5

\* The entries of a session, listed by number, are parsed lines with IDs of their own.
LEMMA StoredParsed ==
    ASSUME NEW d, NEW k, EntryRows(d), \A x, y \in Mine(d, k) : x.no = y.no => x = y
    PROVE  LET fs == StoredEntries(d, k) IN
           /\ ByNumber(fs, Mine(d, k)) /\ Parsed(fs)
           /\ \A i, j \in DOMAIN fs : fs[i].line.id = fs[j].line.id => i = j
<1> DEFINE fs == StoredEntries(d, k)
<1>1. ByNumber(fs, Mine(d, k))
  BY StoredListing
<1> HIDE DEF fs
<1>2. \A i \in DOMAIN fs : fs[i] \in Mine(d, k) /\ fs[i].line \in Transcript /\ fs[i].no \in Nat
  BY <1>1 DEF ByNumber, Mine, EntryRows
<1>3. Parsed(fs)
  BY <1>1, <1>2 DEF ByNumber, Parsed
<1>4. ASSUME NEW i \in DOMAIN fs, NEW j \in DOMAIN fs, fs[i].line.id = fs[j].line.id PROVE i = j
  <2>1. fs[i] = fs[j]
    BY <1>2, <1>4 DEF EntryRows, Mine
  <2>2. i \in Nat /\ j \in Nat
    BY <1>1 DEF ByNumber
  <2>3. ~(i < j) /\ ~(j < i)
    BY <1>1, <1>2, <2>1 DEF ByNumber
  <2> QED BY <2>2, <2>3
<1> QED BY <1>1, <1>3, <1>4 DEF fs

\* What is paired of a version is what is paired of all entries, from the first on; of a
\* version that has the last entry it is everything.
LEMMA VersionsPair ==
    ASSUME NEW d, NEW k, EntryRows(d), NumberedByVersion(d), VersionFiles(d), OnlyGrew(d, k),
           NEW v \in d.versions, v.key = k
    PROVE  /\ PairedOf(d, k, v.content) \subseteq BuildToolInvocations(StoredEntries(d, k))
           /\ (\A e \in Mine(d, k) : e.no \in DOMAIN v.content) =>
                BuildToolInvocations(StoredEntries(d, k)) \subseteq PairedOf(d, k, v.content)
<1> DEFINE c == v.content
           I == StoredLines(d, k, c)
           S == PlacesOf(c, I)
           T == Mine(d, k)
           es == Numbered(c, I)
           fs == StoredEntries(d, k)
<1>1. /\ c \in Seq(Listed(c)) /\ \A i \in DOMAIN c : c[i] \in Transcript
      /\ \E n \in Nat : DOMAIN c = 1..n
  BY VersionLines
<1>2. /\ \A e \in T : e.no \in DOMAIN c => c[e.no] = e.line
      /\ \A e \in T : \A i \in DOMAIN c : c[i] = e.line => e.no = i
      /\ \A x, y \in T : x.no = y.no => x = y
  BY NumbersAreLines
<1>3. /\ ByNumber(fs, T) /\ Parsed(fs)
      /\ \A i, j \in DOMAIN fs : fs[i].line.id = fs[j].line.id => i = j
  BY <1>2, StoredParsed
<1>4. I \subseteq DOMAIN c /\ \A i \in I : \E e \in T : e.line = c[i] /\ e.no = i
  BY <1>2 DEF StoredLines
<1>5. \A e \in T : e.no \in DOMAIN c => e.no \in I
  BY <1>2 DEF StoredLines
<1>6. \A e \in T : e.no \in Nat
  BY DEF Mine, EntryRows
<1> HIDE DEF c, I, T, fs, S
<1>7. ByNumber(es, S)
  BY <1>1, <1>4, NumberedListing DEF S
<1> HIDE DEF es
<1>8. \A x \in S : x.no \in I /\ x.line = c[x.no]
  BY DEF S, PlacesOf
<1>9. \A i \in I : [line |-> c[i], no |-> i] \in S
  BY DEF S, PlacesOf
<1>10. Parsed(es)
  <2>1. \A i \in DOMAIN es : es[i].line \in Transcript
    BY <1>1, <1>4, <1>7, <1>8 DEF ByNumber
  <2> QED BY <1>7, <2>1 DEF ByNumber, Parsed
<1>11. ASSUME NEW e \in T PROVE e.no \in DOMAIN c \/ \A x \in S : x.no < e.no
  <2>1. PICK n \in Nat : DOMAIN c = 1..n
    BY <1>1
  <2>2. PICK w \in d.versions : w.key = e.key /\ e.no \in DOMAIN w.content
    BY DEF NumberedByVersion, Mine, T
  <2>3. e.no # 0
    BY <2>2, VersionLines
  <2>4. \A x \in S : x.no \in 1..n
    BY <1>4, <1>8, <2>1
  <2> QED BY <1>6, <2>1, <2>3, <2>4
<1>12. Starts(S, T)
  <2>1. \A x \in S : \E y \in T : y.line = x.line /\ y.no = x.no
    BY <1>4, <1>8
  <2>2. \A y \in T : (\E x \in S : x.no = y.no) \/ \A x \in S : x.no < y.no
    BY <1>5, <1>9, <1>11
  <2> QED BY <2>1, <2>2 DEF Starts
<1>13. Begins(es, fs)
  BY <1>3, <1>7, <1>12, ListingsBegin
<1>14. BuildToolInvocations(es) \subseteq BuildToolInvocations(fs)
  BY <1>3, <1>10, <1>13, BeginningsPair
<1>15. ASSUME \A e \in T : e.no \in DOMAIN c
       PROVE  BuildToolInvocations(fs) \subseteq BuildToolInvocations(es)
  <2>1. \A y \in T : \E x \in S : x.line = y.line /\ x.no = y.no
    <3> TAKE y \in T
    <3>1. y.no \in I /\ c[y.no] = y.line
      BY <1>2, <1>5, <1>15 DEF c, T
    <3> QED BY <1>9, <3>1
  <2>2. Starts(T, S)
    <3>1. \A y \in S : \E x \in T : x.no = y.no
      BY <1>12 DEF Starts
    <3> QED BY <2>1, <3>1 DEF Starts
  <2>3. Begins(fs, es)
    BY <1>3, <1>7, <2>2, ListingsBegin
  <2>4. ASSUME NEW i \in DOMAIN es, NEW j \in DOMAIN es, es[i].line.id = es[j].line.id PROVE i = j
    BY <1>3, <1>13, <2>4 DEF Begins
  <2> QED BY <1>3, <1>10, <2>3, <2>4, BeginningsPair
<1>16. PairedOf(d, k, v.content) = BuildToolInvocations(es)
  BY DEF PairedOf, es, I, c
<1> QED BY <1>14, <1>15, <1>16 DEF fs, T, c

IsInvocation(x) ==
    x = [entry |-> x.entry, tool |-> x.tool, ord |-> x.ord, family |-> x.family,
         at |-> x.at, error |-> x.error, sig |-> x.sig]

LEMMA BareKeys ==
    ASSUME NEW a, NEW x, IsInvocation(x), Bare(a) = Bare(x)
    PROVE  a.entry = x.entry /\ a.ord = x.ord
<1>1. /\ "entry" \in DOMAIN x /\ "ord" \in DOMAIN x
  BY DEF IsInvocation
<1>2. Bare(x).entry = x.entry /\ Bare(x).ord = x.ord /\ DOMAIN Bare(x) = DOMAIN x
  BY <1>1 DEF Bare
<1>3. DOMAIN Bare(a) = DOMAIN a
  BY DEF Bare
<1>4. "entry" \in DOMAIN a /\ "ord" \in DOMAIN a
  BY <1>1, <1>2, <1>3
<1>5. Bare(a).entry = a.entry /\ Bare(a).ord = a.ord
  BY <1>4 DEF Bare
<1> QED BY <1>2, <1>5

LEMMA BareSignature ==
    ASSUME NEW x, IsInvocation(x), NEW t
    PROVE  Bare([x EXCEPT !.sig = t]) = Bare(x)
BY DEF IsInvocation, Bare

LEMMA PairedAreInvocations ==
    ASSUME NEW d, NEW k, NEW c, NEW r, c \in Seq(Listed(c)),
           \A i \in DOMAIN c : c[i] \in Transcript, EntryRows(r),
           r.entries = WithEntries(d.entries, k, c, Inserted(d, k, c))
    PROVE  \A x \in BuildToolInvocations(Numbered(c, HeldLines(d, k, c))) : IsInvocation(x)
<1> DEFINE paired == BuildToolInvocations(Numbered(c, HeldLines(d, k, c)))
<1>1. /\ IsFiniteSet(paired)
      /\ \A x, y \in paired : x.entry = y.entry /\ x.ord = y.ord => x = y
      /\ \A x \in paired :
            /\ x = [entry |-> x.entry, tool |-> x.tool, ord |-> x.ord, family |-> x.family,
                    at |-> x.at, error |-> x.error, sig |-> x.sig]
            /\ \E i \in DOMAIN c : c[i].id = x.entry
            /\ \E e \in Mine(r, k) : TellsCall(e, [inv |-> x])
  BY PairedAreStored
<1> HIDE DEF paired
<1>2. \A x \in paired : IsInvocation(x)
  BY <1>1 DEF IsInvocation
<1> QED BY <1>2 DEF paired

LEMMA FilePairs ==
    ASSUME NEW d, NEW r, NEW k, NEW c, NEW s, PairRows(d), EntryRows(r), VersionFiles(r),
           d.versions \subseteq r.versions,
           \A v \in r.versions : v \in d.versions \/ (v.key = k /\ v.content = c),
           NEW new \in r.versions, new.key = k, new.content = c,
           r.entries = WithEntries(d.entries, k, c, Inserted(d, k, c)),
           r.invocations = d.invocations \cup InvocationsIn(d, k, c, s)
    PROVE  PairRows(r)
<1> DEFINE held == HeldLines(d, k, c)
           paired == BuildToolInvocations(Numbered(c, held))
<1>1. /\ c \in Seq(Listed(c)) /\ \A i \in DOMAIN c : c[i] \in Transcript
      /\ \E n \in Nat : DOMAIN c = 1..n
  BY VersionLines
<1>2. /\ d.entries \subseteq r.entries
      /\ \A e \in r.entries : e \in d.entries \/ \E i \in Inserted(d, k, c) : e = [key |-> k, line |-> c[i], no |-> i]
      /\ \A i \in Inserted(d, k, c) : [key |-> k, line |-> c[i], no |-> i] \in r.entries
  BY DEF WithEntries
<1>3. /\ Inserted(d, k, c) \subseteq DOMAIN c
      /\ \A i \in Inserted(d, k, c) :
            Blocked(d, k, c[i]) = {} /\ ~\E e \in Mine(d, k) : e.line.id = c[i].id
  BY DEF Inserted
<1>4. /\ \A q : Mine(d, q) \subseteq Mine(r, q)
      /\ \A q : q # k => Mine(r, q) = Mine(d, q)
      /\ \A q, l : Blocked(d, q, l) \subseteq Blocked(r, q, l)
  <2>1. \A e \in r.entries : e \in d.entries \/ e.key = k
    BY <1>2
  <2> QED BY <1>2, <2>1 DEF Mine, Blocked, Elsewhere
<1>5. NumberedByVersion(r)
  <2> SUFFICES ASSUME NEW e \in r.entries
               PROVE  \E v \in r.versions : v.key = e.key /\ e.no \in DOMAIN v.content /\ v.content[e.no] = e.line
    BY DEF NumberedByVersion
  <2>1. CASE e \in d.entries
    BY <2>1 DEF PairRows, NumberedByVersion
  <2>2. CASE e \notin d.entries
    <3>1. PICK i \in Inserted(d, k, c) : e = [key |-> k, line |-> c[i], no |-> i]
      BY <1>2, <2>2
    <3>2. new.key = e.key /\ e.no \in DOMAIN new.content /\ new.content[e.no] = e.line
      BY <1>3, <3>1
    <3> QED BY <3>2
  <2> QED BY <2>1, <2>2
<1>6. ASSUME NEW i \in DOMAIN c
      PROVE  (\E e \in Mine(r, k) : e.line.id = c[i].id) \/ Blocked(r, k, c[i]) # {}
  <2>1. CASE Blocked(d, k, c[i]) # {}
    BY <1>4, <2>1
  <2>2. CASE \E e \in Mine(d, k) : e.line.id = c[i].id
    BY <1>4, <2>2
  <2>3. CASE Blocked(d, k, c[i]) = {} /\ ~\E e \in Mine(d, k) : e.line.id = c[i].id
    <3> DEFINE same == {j \in DOMAIN c : c[j].id = c[i].id /\ Blocked(d, k, c[j]) = {}}
    <3>1. same \in SUBSET Nat /\ same # {}
      BY <1>1, <2>3
    <3>2. PICK m \in same : \A j \in same : ~(j < m)
      <4> HIDE DEF same
      <4> QED BY <3>1, Least
    <3>3. m \in DOMAIN c /\ c[m].id = c[i].id /\ Blocked(d, k, c[m]) = {}
      OBVIOUS
    <3>4. ~\E j \in 1..(m - 1) : c[j].id = c[m].id /\ Blocked(d, k, c[j]) = {}
      <4>1. \A j \in 1..(m - 1) : j \in DOMAIN c /\ j < m
        BY <1>1, <3>3
      <4> QED BY <3>2, <3>3, <4>1
    <3>5. m \in Inserted(d, k, c)
      BY <2>3, <3>3, <3>4 DEF Inserted
    <3>6. [key |-> k, line |-> c[m], no |-> m] \in Mine(r, k)
      BY <1>2, <3>5 DEF Mine
    <3> QED BY <3>3, <3>6
  <2> QED BY <2>1, <2>2, <2>3
<1>7. VersionsSettled(r)
  <2> SUFFICES ASSUME NEW v \in r.versions, NEW i \in DOMAIN v.content
               PROVE  (\E e \in Mine(r, v.key) : e.line.id = v.content[i].id) \/ Blocked(r, v.key, v.content[i]) # {}
    BY DEF VersionsSettled
  <2>1. CASE v \in d.versions
    <3>1. (\E e \in Mine(d, v.key) : e.line.id = v.content[i].id) \/ Blocked(d, v.key, v.content[i]) # {}
      BY <2>1 DEF PairRows, VersionsSettled
    <3> QED BY <1>4, <3>1
  <2>2. CASE v.key = k /\ v.content = c
    BY <1>6, <2>2
  <2> QED BY <2>1, <2>2
<1>8. ASSUME NEW v \in d.versions PROVE PairedOf(r, v.key, v.content) = PairedOf(d, v.key, v.content)
  <2>1. ASSUME NEW i \in DOMAIN v.content, NEW e \in Mine(r, v.key), e.line = v.content[i]
        PROVE  e \in Mine(d, v.key)
    <3>1. CASE e \in d.entries
      BY <3>1 DEF Mine
    <3>2. CASE e \notin d.entries
      <4>1. PICK j \in Inserted(d, k, c) : e = [key |-> k, line |-> c[j], no |-> j]
        BY <1>2, <3>2 DEF Mine
      <4>2. v.key = k /\ v.content[i] = c[j]
        BY <2>1, <4>1 DEF Mine
      <4>3. (\E x \in Mine(d, k) : x.line.id = c[j].id) \/ Blocked(d, k, c[j]) # {}
        BY <4>2 DEF PairRows, VersionsSettled
      <4> QED BY <1>3, <4>3
    <3> QED BY <3>1, <3>2
  <2>2. StoredLines(r, v.key, v.content) = StoredLines(d, v.key, v.content)
    BY <1>4, <2>1 DEF StoredLines
  <2> QED BY <2>2 DEF PairedOf
<1>9. PairedOf(r, k, c) = paired
  <2>1. \A i \in DOMAIN c : (\E e \in Mine(r, k) : e.line = c[i]) => i \in held
    <3> SUFFICES ASSUME NEW i \in DOMAIN c, NEW e \in Mine(r, k), e.line = c[i] PROVE i \in held
      OBVIOUS
    <3>1. CASE e \in d.entries
      BY <3>1 DEF HeldLines, Mine
    <3>2. CASE e \notin d.entries
      <4>1. PICK j \in Inserted(d, k, c) : e = [key |-> k, line |-> c[j], no |-> j]
        BY <1>2, <3>2 DEF Mine
      <4>2. c[j] = c[i]
        BY <4>1
      <4> QED BY <4>2 DEF HeldLines
    <3> QED BY <3>1, <3>2
  <2>2. \A i \in held : i \in DOMAIN c /\ \E e \in Mine(r, k) : e.line = c[i]
    <3>1. held \subseteq DOMAIN c
      BY DEF HeldLines
    <3> HIDE DEF held
    <3> QED BY <3>1, HeldAreStored DEF held
  <2>3. StoredLines(r, k, c) = held
    <3> HIDE DEF held
    <3> QED BY <2>1, <2>2 DEF StoredLines
  <2> QED BY <2>3 DEF PairedOf
<1>10. \A x \in paired : IsInvocation(x)
  <2>1. c \in Seq(Listed(c)) /\ \A i \in DOMAIN c : c[i] \in Transcript
    BY <1>1
  <2> QED BY <2>1, PairedAreInvocations
<1> HIDE DEF paired, held
<1>11. InvocationsIn(d, k, c, s) =
         {[key |-> k, inv |-> [x EXCEPT !.sig = StoredSignature(x, s)]] :
             x \in {y \in paired : ~\E q \in d.invocations : /\ q.key = k /\ q.inv.entry = y.entry
                                                              /\ q.inv.tool = y.tool /\ q.inv.ord = y.ord}}
  BY DEF InvocationsIn, paired, held
<1>12. ASSUME NEW q \in r.invocations
       PROVE  \E v \in r.versions : v.key = q.key /\ \E x \in PairedOf(r, q.key, v.content) : Bare(q.inv) = Bare(x)
  <2>1. CASE q \in d.invocations
    <3>1. PICK v \in d.versions : v.key = q.key /\ \E x \in PairedOf(d, q.key, v.content) : Bare(q.inv) = Bare(x)
      BY <2>1 DEF PairRows, RowsPaired
    <3>2. PairedOf(r, q.key, v.content) = PairedOf(d, q.key, v.content)
      BY <1>8, <3>1
    <3> QED BY <3>1, <3>2
  <2>2. CASE q \in InvocationsIn(d, k, c, s)
    <3>1. PICK x \in paired : q = [key |-> k, inv |-> [x EXCEPT !.sig = StoredSignature(x, s)]]
      BY <1>11, <2>2
    <3>2. Bare(q.inv) = Bare(x)
      BY <1>10, <3>1, BareSignature
    <3>3. q.key = k
      BY <3>1
    <3> QED BY <1>9, <3>2, <3>3
  <2> QED BY <2>1, <2>2
<1>13. ASSUME NEW v \in r.versions, OnlyGrew(r, v.key), NEW x \in PairedOf(r, v.key, v.content)
       PROVE  \E q \in r.invocations : q.key = v.key /\ Bare(q.inv) = Bare(x)
  <2>1. CASE v \in d.versions
    <3>1. OnlyGrew(d, v.key)
      BY <1>13 DEF OnlyGrew
    <3>2. x \in PairedOf(d, v.key, v.content)
      BY <1>8, <2>1
    <3>3. PICK q \in d.invocations : q.key = v.key /\ Bare(q.inv) = Bare(x)
      BY <2>1, <3>1, <3>2 DEF PairRows, RowsPaired
    <3> QED BY <3>3
  <2>2. CASE v.key = k /\ v.content = c
    <3> DEFINE all == BuildToolInvocations(StoredEntries(r, k))
    <3>1. x \in paired /\ OnlyGrew(r, k)
      BY <1>9, <1>13, <2>2
    <3>2. ASSUME NEW w \in r.versions, w.key = k PROVE PairedOf(r, k, w.content) \subseteq all
      BY <1>5, <3>1, <3>2, VersionsPair
    <3>3. ASSUME NEW q \in d.invocations, q.key = k, q.inv.entry = x.entry, q.inv.ord = x.ord
          PROVE  Bare(q.inv) = Bare(x)
      <4>1. PICK w \in d.versions : w.key = k /\ \E y \in PairedOf(d, k, w.content) : Bare(q.inv) = Bare(y)
        BY <3>3 DEF PairRows, RowsPaired
      <4>2. PICK y \in PairedOf(d, k, w.content) : Bare(q.inv) = Bare(y)
        BY <4>1
      <4>3. y \in all
        BY <1>8, <3>2, <4>1
      <4>4. x \in all
        BY <1>9, <3>1, <3>2
      <4>5. /\ Parsed(StoredEntries(r, k))
            /\ \A i, j \in DOMAIN StoredEntries(r, k) :
                  StoredEntries(r, k)[i].line.id = StoredEntries(r, k)[j].line.id => i = j
        BY <1>5, <3>1, NumbersAreLines, StoredParsed
      <4>6. PICK p \in CallsIn(StoredEntries(r, k)) : \E o \in OutcomesOf(StoredEntries(r, k), p) :
                   y = Invocation(StoredEntries(r, k), p, o)
        BY <4>3, <4>5, InvocationsTellCalls
      <4>7. IsInvocation(y)
        BY <4>6 DEF Invocation, IsInvocation
      <4>8. x.entry = y.entry /\ x.ord = y.ord
        BY <3>3, <4>2, <4>7, BareKeys
      <4>9. x = y
        BY <4>3, <4>4, <4>5, <4>8, InvocationsHaveKeys
      <4> QED BY <4>2, <4>9
    <3>4. CASE \E q \in d.invocations : q.key = k /\ q.inv.entry = x.entry /\ q.inv.tool = x.tool /\ q.inv.ord = x.ord
      BY <2>2, <3>3, <3>4
    <3>5. CASE ~\E q \in d.invocations : q.key = k /\ q.inv.entry = x.entry /\ q.inv.tool = x.tool /\ q.inv.ord = x.ord
      <4> DEFINE q == [key |-> k, inv |-> [x EXCEPT !.sig = StoredSignature(x, s)]]
      <4>1. q \in r.invocations
        BY <1>11, <3>1, <3>5
      <4>2. Bare(q.inv) = Bare(x)
        BY <1>10, <3>1, BareSignature
      <4> QED BY <2>2, <4>1, <4>2
    <3> QED BY <3>4, <3>5
  <2> QED BY <2>1, <2>2
<1>14. RowsPaired(r)
  BY <1>12, <1>13 DEF RowsPaired
<1> QED BY <1>5, <1>7, <1>14 DEF PairRows

\* Provenance rows for versions that are there change no pairing.
LEMMA SamePairs ==
    ASSUME NEW d, NEW e, PairRows(d), e.entries = d.entries, e.invocations = d.invocations,
           d.versions \subseteq e.versions,
           \A v \in e.versions : \E w \in d.versions : w.key = v.key /\ w.content = v.content
    PROVE  PairRows(e)
<1>1. \A k : Mine(e, k) = Mine(d, k)
  BY DEF Mine
<1>2. \A k, l : Blocked(e, k, l) = Blocked(d, k, l)
  BY DEF Blocked, Elsewhere
<1>3. \A k, c : PairedOf(e, k, c) = PairedOf(d, k, c)
  BY <1>1 DEF PairedOf, StoredLines
<1>4. \A k : OnlyGrew(e, k) => OnlyGrew(d, k)
  BY DEF OnlyGrew
<1>5. NumberedByVersion(e)
  BY DEF PairRows, NumberedByVersion
<1>6. VersionsSettled(e)
  <2> SUFFICES ASSUME NEW v \in e.versions, NEW i \in DOMAIN v.content
               PROVE  (\E x \in Mine(e, v.key) : x.line.id = v.content[i].id) \/ Blocked(e, v.key, v.content[i]) # {}
    BY DEF VersionsSettled
  <2>1. PICK w \in d.versions : w.key = v.key /\ w.content = v.content
    OBVIOUS
  <2>2. (\E x \in Mine(d, w.key) : x.line.id = w.content[i].id) \/ Blocked(d, w.key, w.content[i]) # {}
    BY <2>1 DEF PairRows, VersionsSettled
  <2> QED BY <1>1, <1>2, <2>1, <2>2
<1>7. RowsPaired(e)
  <2>1. ASSUME NEW r \in e.invocations
        PROVE  \E v \in e.versions : v.key = r.key /\ \E x \in PairedOf(e, r.key, v.content) : Bare(r.inv) = Bare(x)
    BY <1>3 DEF PairRows, RowsPaired
  <2>2. ASSUME NEW v \in e.versions, OnlyGrew(e, v.key), NEW x \in PairedOf(e, v.key, v.content)
        PROVE  \E r \in e.invocations : r.key = v.key /\ Bare(r.inv) = Bare(x)
    <3>1. PICK w \in d.versions : w.key = v.key /\ w.content = v.content
      OBVIOUS
    <3>2. OnlyGrew(d, w.key) /\ x \in PairedOf(d, w.key, w.content)
      BY <1>3, <1>4, <2>2, <3>1
    <3>3. PICK r \in d.invocations : r.key = w.key /\ Bare(r.inv) = Bare(x)
      BY <3>2 DEF PairRows, RowsPaired
    <3> QED BY <3>1, <3>3
  <2> QED BY <2>1, <2>2 DEF RowsPaired
<1> QED BY <1>5, <1>6, <1>7 DEF PairRows

LEMMA PairsAtInit == CorpusInit => PairInv
<1> SUFFICES ASSUME CorpusInit PROVE PairInv
  OBVIOUS
<1>1. work = db /\ db.entries = {} /\ db.versions = {} /\ db.invocations = {}
  BY DEF CorpusInit, Tables
<1>2. PairRows(db)
  BY <1>1 DEF PairRows, NumberedByVersion, VersionsSettled, RowsPaired
<1> QED BY <1>1, <1>2 DEF PairInv

LEMMA PairsSettled ==
    ASSUME PairInv, db' \in {db, work}, work' \in {db, work}
    PROVE  PairInv'
<1>1. PairRows(db) /\ PairRows(work)
  BY DEF PairInv
<1>2. PairRows(db') /\ PairRows(work')
  BY <1>1
<1> QED BY <1>2 DEF PairInv

LEMMA PairsAtKnownFile ==
    ASSUME CorpusInv, PairInv, IngestKnownFile
    PROVE  PairInv'
<1> DEFINE f == Head(todo)
<1>1. DOMAIN work = Tables /\ db' = db /\ PairRows(db) /\ PairRows(work)
  BY DEF CorpusInv, WorkInv, Grows, IngestKnownFile, PairInv
<1>2. PICK v \in KnownVersions(work, busy, f) : work' = WithVersion(work, v.key, busy, f)
  BY DEF IngestKnownFile
<1>3. v \in work.versions /\ v.content = f.content
  BY DEF KnownVersions
<1> DEFINE e == WithVersion(work, v.key, busy, f)
<1>4. /\ Grows(work, e) /\ \A t \in Tables \ {"versions"} : e[t] = work[t]
      /\ \A w \in e.versions :
            \/ w \in work.versions
            \/ w = [key |-> v.key, content |-> f.content, snapshot |-> busy, path |-> f.path]
  BY <1>1, VersionsGrow
<1> HIDE DEF e, f
<1>5. e.entries = work.entries /\ e.invocations = work.invocations /\ work.versions \subseteq e.versions
  BY <1>4, TableNames DEF Grows, Tables
<1>6. \A w \in e.versions : \E u \in work.versions : u.key = w.key /\ u.content = w.content
  BY <1>3, <1>4
<1>7. PairRows(e)
  BY <1>1, <1>5, <1>6, SamePairs
<1> QED BY <1>1, <1>2, <1>7 DEF PairInv, e

LEMMA PairsAtFile ==
    ASSUME CorpusInv, CorpusInv', RowsInv', PairInv, IngestFile
    PROVE  PairInv'
<1> DEFINE f == Head(todo)
           d == [work EXCEPT !.files = @ \cup {f.content}]
<1>1. db' = db /\ PairRows(db) /\ PairRows(work) /\ DOMAIN work = Tables
  BY DEF IngestFile, PairInv, CorpusInv, WorkInv, Grows
<1>2. EntryRows(work') /\ VersionFiles(work')
  BY DEF RowsInv, Rows, CorpusInv, WorkInv, VersionFiles
<1>3. /\ DOMAIN d = Tables /\ d.entries = work.entries /\ d.invocations = work.invocations
      /\ d.versions = work.versions
  BY <1>1 DEF Tables
<1>4. PairRows(d)
  <2> HIDE DEF d
  <2> QED BY <1>1, <1>3, SamePairs
<1>5. PairRows(work')
  <2>1. CASE f.kind = "image" /\ ~busy.images
    <3>1. work' = work
      BY <2>1 DEF IngestFile
    <3> QED BY <1>1, <3>1
  <2>2. CASE ~(f.kind = "image" /\ ~busy.images)
    <3>1. work' = IF f.kind = "session" THEN WithSessionFile(d, busy, f) ELSE WithArtifact(d, busy, f)
      BY <2>2 DEF IngestFile
    <3> HIDE DEF d, f
    <3>2. CASE f.kind = "session"
      <4> DEFINE k == SessionKey(busy, f)
                 c == f.content
                 e == WithSessionFile(d, busy, f)
                 v == WithVersion(d, k, busy, f)
      <4>1. /\ e.versions = v.versions
            /\ e.entries = WithEntries(d.entries, k, c, Inserted(d, k, c))
        BY <1>3, SessionFileGrows
      <4>2. e.invocations = d.invocations \cup InvocationsIn(d, k, c, busy)
        BY <1>3, SessionFileTables
      <4>3. /\ Grows(d, v)
            /\ \A w \in v.versions :
                  \/ w \in d.versions
                  \/ w = [key |-> k, content |-> c, snapshot |-> busy, path |-> f.path]
            /\ \E w \in v.versions : w.key = k /\ w.content = c /\ w.snapshot = busy
        BY <1>3, VersionsGrow
      <4>4. work' = e
        BY <3>1, <3>2
      <4> HIDE DEF e, k, c, v
      <4>5. d.versions \subseteq e.versions
        BY <4>1, <4>3, TableNames DEF Grows
      <4>6. \A w \in e.versions : w \in d.versions \/ (w.key = k /\ w.content = c)
        BY <4>1, <4>3
      <4>7. PICK w \in e.versions : w.key = k /\ w.content = c
        BY <4>1, <4>3
      <4>8. EntryRows(e) /\ VersionFiles(e)
        BY <1>2, <4>4
      <4>9. PairRows(e)
        BY <1>4, <4>1, <4>2, <4>5, <4>6, <4>7, <4>8, FilePairs
      <4> QED BY <4>4, <4>9
    <3>3. CASE f.kind # "session"
      <4> DEFINE e == WithArtifact(d, busy, f)
      <4>1. e.entries = d.entries /\ e.invocations = d.invocations /\ e.versions = d.versions
        BY <1>3 DEF WithArtifact, Tables
      <4>2. work' = e
        BY <3>1, <3>3
      <4> HIDE DEF e
      <4> QED BY <1>4, <4>1, <4>2, SamePairs
    <3> QED BY <3>2, <3>3
  <2> QED BY <2>1, <2>2
<1> QED BY <1>1, <1>5 DEF PairInv

LEMMA PairsStep ==
    ASSUME CorpusInv, CorpusInv', RowsInv', PairInv, [CorpusNext]_corpusVars
    PROVE  PairInv'
<1>1. DOMAIN db = Tables /\ PairRows(db) /\ PairRows(work)
  BY DEF CorpusInv, WorkInv, PairInv
<1>2. ASSUME NEW s \in Snapshot, Begin(s) PROVE PairInv'
  <2>1. /\ db' = db /\ work'.entries = db.entries /\ work'.invocations = db.invocations
        /\ work'.versions = db.versions
    BY <1>1, <1>2 DEF Begin, Tables
  <2>2. PairRows(work')
    BY <1>1, <2>1, SamePairs
  <2> QED BY <1>1, <2>1, <2>2 DEF PairInv
<1>3. CASE IngestKnownFile
  BY <1>3, PairsAtKnownFile
<1>4. CASE IngestFile
  BY <1>4, PairsAtFile
<1>5. CASE LoseIndexRows \/ ReconcileFTS
  <2>1. work' = db' /\ \E index : db' = [db EXCEPT !.fts = index]
    BY <1>5 DEF LoseIndexRows, ReconcileFTS
  <2>2. db'.entries = db.entries /\ db'.invocations = db.invocations /\ db'.versions = db.versions
    BY <1>1, <2>1 DEF Tables
  <2>3. PairRows(db')
    BY <1>1, <2>2, SamePairs
  <2> QED BY <2>1, <2>3 DEF PairInv
<1>6. CASE Commit
  BY <1>6, PairsSettled DEF Commit
<1>7. CASE IngestRottenFile \/ Abandon
  BY <1>7, PairsSettled DEF IngestRottenFile, Abandon, Rollback
<1>8. ASSUME NEW b \in disk, DamageBlob(b) PROVE PairInv'
  BY <1>8, PairsSettled DEF DamageBlob
<1>9. CASE UNCHANGED corpusVars
  BY <1>9, PairsSettled DEF corpusVars
<1> QED BY <1>2, <1>3, <1>4, <1>5, <1>6, <1>7, <1>8, <1>9 DEF CorpusNext

\* Ingest keeps entries numbered as in a version, versions settled, and rows of
\* invocations and pairings of versions told by each other.
THEOREM PairInvariant == CorpusSpec => []PairInv
<1>1. CorpusInv /\ CorpusInv' /\ RowsInv' /\ PairInv /\ [CorpusNext]_corpusVars => PairInv'
  BY PairsStep
<1> QED BY PairsAtInit, CorpusInvariant, RowsInvariant, <1>1, PTL DEF CorpusSpec

LEMMA RowsRebuilt ==
    ASSUME NEW d, NEW k, EntryRows(d), VersionFiles(d), PairRows(d), OnlyGrew(d, k)
    PROVE  {Bare(x.inv) : x \in {y \in d.invocations : y.key = k}}
         = {Bare(x) : x \in BuildToolInvocations(StoredEntries(d, k))}
<1> DEFINE fs == StoredEntries(d, k)
           all == BuildToolInvocations(fs)
<1>1. NumberedByVersion(d) /\ RowsPaired(d)
  BY DEF PairRows
<1>2. ASSUME NEW v \in d.versions, v.key = k
      PROVE  /\ PairedOf(d, k, v.content) \subseteq all
             /\ (\A e \in Mine(d, k) : e.no \in DOMAIN v.content) => all \subseteq PairedOf(d, k, v.content)
  BY <1>1, <1>2, VersionsPair
<1>3. ASSUME NEW r \in d.invocations, r.key = k PROVE \E x \in all : Bare(r.inv) = Bare(x)
  <2>1. PICK v \in d.versions : v.key = k /\ \E x \in PairedOf(d, k, v.content) : Bare(r.inv) = Bare(x)
    BY <1>1, <1>3 DEF RowsPaired
  <2> QED BY <1>2, <2>1
<1>4. ASSUME NEW x \in all PROVE \E r \in d.invocations : r.key = k /\ Bare(r.inv) = Bare(x)
  <2>1. PICK c \in CallsIn(fs) : TRUE
    BY DEF BuildToolInvocations
  <2>2. DOMAIN fs # {}
    BY <2>1 DEF CallsIn
  <2>3. DOMAIN fs = 1..Cardinality(Mine(d, k))
    BY DEF StoredEntries
  <2>4. PICK e \in Mine(d, k) : TRUE
    <3>1. Mine(d, k) # {}
      BY <2>2, <2>3, FS_EmptySet
    <3> QED BY <3>1
  <2>5. PICK u \in d.versions : u.key = k
    BY <1>1, <2>4 DEF NumberedByVersion, Mine
  <2>6. \A y, z \in Mine(d, k) : y.no = z.no => y = z
    BY <1>1, <2>5, NumbersAreLines
  <2>7. ByNumber(fs, Mine(d, k))
    BY <2>6, StoredListing
  <2> HIDE DEF fs
  <2>8. PICK n \in Nat : DOMAIN fs = 1..n
    BY <2>7 DEF ByNumber
  <2>9. n \in DOMAIN fs /\ fs[n] \in Mine(d, k)
    BY <2>2, <2>7, <2>8 DEF ByNumber
  <2>10. PICK v \in d.versions : v.key = k /\ fs[n].no \in DOMAIN v.content
    BY <1>1, <2>9 DEF NumberedByVersion, Mine
  <2>11. ASSUME NEW y \in Mine(d, k) PROVE y.no \in DOMAIN v.content
    <3>1. PICK i \in DOMAIN fs : fs[i] = y
      BY <2>7 DEF ByNumber
    <3>2. y.no <= fs[n].no /\ y.no \in Nat /\ fs[n].no \in Nat
      <4>1. y.no \in Nat /\ fs[n].no \in Nat
        BY <2>7, <2>9 DEF ByNumber
      <4>2. i < n => fs[i].no < fs[n].no
        BY <2>7, <2>9, <3>1 DEF ByNumber
      <4>3. i \in Nat /\ i <= n
        BY <2>8, <3>1
      <4> QED BY <2>8, <3>1, <4>1, <4>2, <4>3
    <3>3. PICK m \in Nat : DOMAIN v.content = 1..m
      BY VersionLines
    <3>4. PICK w \in d.versions : y.no \in DOMAIN w.content
      BY <1>1 DEF NumberedByVersion, Mine
    <3>5. y.no # 0
      BY <3>4, VersionLines
    <3> QED BY <2>10, <3>2, <3>3, <3>5
  <2>12. x \in PairedOf(d, k, v.content)
    BY <1>2, <2>10, <2>11
  <2> QED BY <1>1, <2>10, <2>12 DEF RowsPaired
<1> HIDE DEF all
<1>5. {Bare(x.inv) : x \in {y \in d.invocations : y.key = k}} = {Bare(x) : x \in all}
  BY <1>3, <1>4
<1> QED BY <1>5 DEF all

\* Pairing each file as it came gives the rows that pairing the stored entries at once
\* gives, for a session whose versions only ever grew.
THEOREM RowsCanBeRebuilt == CorpusSpec => []InvocationsRebuild
<1>1. CorpusInv /\ RowsInv /\ PairInv => InvocationsRebuild
  <2> SUFFICES ASSUME CorpusInv, RowsInv, PairInv, NEW r \in db.sessions, OnlyGrew(db, r.key)
               PROVE  {Bare(x.inv) : x \in {y \in db.invocations : y.key = r.key}}
                    = {Bare(x) : x \in BuildToolInvocations(StoredEntries(db, r.key))}
    BY DEF InvocationsRebuild
  <2>1. EntryRows(db) /\ VersionFiles(db) /\ PairRows(db)
    BY DEF CorpusInv, Committed, RowsInv, Rows, PairInv, VersionFiles
  <2> QED BY <2>1, RowsRebuilt
<1> QED BY CorpusInvariant, RowsInvariant, PairInvariant, <1>1, PTL

(***************************************************************************)
(* A branch as the line numbers of one file, and the context along it.     *)
(***************************************************************************)
\* What WellFormed says of one file; its lines told apart by ID; all of them stored,
\* and nothing else under one ID.
ParentsFirst(file) ==
    \A i \in DOMAIN file : file[i].parent # RootEntry =>
        \E p \in 1..(i - 1) : file[p].id = file[i].parent

IdsApart(file) == \A i, j \in DOMAIN file : file[i].id = file[j].id => i = j

AllStored(d, k, file) ==
    /\ \A i \in DOMAIN file : file[i] \in LinesOf(d, k)
    /\ \A x, y \in LinesOf(d, k) : x.id = y.id => x = y

\* The line numbers of a branch: leaf first, so they fall.
Trail(file, c, at) ==
    /\ DOMAIN at = 1..Len(c)
    /\ \A n \in 1..Len(c) : at[n] \in DOMAIN file /\ c[n] = file[at[n]]
    /\ \A m, n \in 1..Len(c) : m < n => at[n] < at[m]

LEMMA TrailExists ==
    ASSUME NEW d, NEW k, NEW file, file \in Seq(Listed(file)), NEW j \in DOMAIN file,
           ParentsFirst(file), IdsApart(file), AllStored(d, k, file),
           NEW c, Path(d, k, file[j], c)
    PROVE  \E at : Trail(file, c, at) /\ at[1] = j
<1>1. c \in Seq(LinesOf(d, k)) /\ Len(c) \in Nat \ {0} /\ DOMAIN c = 1..Len(c) /\ c[1] = file[j]
  BY DEF Path
<1>2. DOMAIN file = 1..Len(file) /\ Len(file) \in Nat
  OBVIOUS
<1> DEFINE L == Len(c)
<1>3. \A n \in 1..L : c[n] \in LinesOf(d, k)
  BY <1>1
<1>4. \A n \in 1..(L - 1) : c[n].parent # RootEntry /\ c[n + 1].id = c[n].parent
  BY DEF Path
<1>5. L \in Nat \ {0}
  BY <1>1
<1> HIDE DEF L
<1>6. ASSUME NEW n \in 1..L, n # 1, NEW i \in DOMAIN file, c[n - 1] = file[i]
      PROVE  \E p \in DOMAIN file : p < i /\ c[n] = file[p]
  <2>1. n - 1 \in 1..(L - 1) /\ (n - 1) + 1 = n
    BY <1>5, <1>6
  <2>2. c[n - 1].parent # RootEntry /\ c[n].id = c[n - 1].parent
    BY <1>4, <2>1
  <2>3. PICK p \in 1..(i - 1) : file[p].id = file[i].parent
    BY <1>6, <2>2 DEF ParentsFirst
  <2>4. p \in DOMAIN file /\ p < i
    BY <1>2
  <2>5. c[n] = file[p]
    BY <1>3, <1>6, <2>2, <2>3, <2>4 DEF AllStored
  <2> QED BY <2>4, <2>5
<1> DEFINE Has(n) == \E i \in DOMAIN file : c[n] = file[i]
           bad == {n \in 1..L : ~Has(n)}
<1>7. bad = {}
  <2>1. SUFFICES ASSUME bad # {} PROVE FALSE
    OBVIOUS
  <2>2. PICK n \in bad : \A i \in bad : ~(i < n)
    <3>1. bad \in SUBSET Nat
      BY <1>5
    <3> HIDE DEF bad
    <3> QED BY <2>1, <3>1, Least
  <2>3. n \in 1..L /\ n # 1
    BY <1>1, <1>5, <2>2
  <2>4. n - 1 \in 1..L /\ n - 1 < n
    BY <1>5, <2>3
  <2>5. PICK i \in DOMAIN file : c[n - 1] = file[i]
    BY <2>2, <2>4
  <2> QED BY <1>6, <2>2, <2>3, <2>5
<1> DEFINE at == [n \in 1..L |-> CHOOSE i \in DOMAIN file : c[n] = file[i]]
<1>8. \A n \in 1..L : at[n] \in DOMAIN file /\ c[n] = file[at[n]]
  BY <1>7
<1>9. DOMAIN at = 1..L
  OBVIOUS
<1> HIDE DEF at, bad
<1>10. \A p, i \in DOMAIN file : file[p] = file[i] => p = i
  BY DEF IdsApart
<1>11. ASSUME NEW n \in 1..L, n # 1 PROVE at[n] < at[n - 1]
  <2>1. n - 1 \in 1..L
    BY <1>5, <1>11
  <2>2. at[n - 1] \in DOMAIN file /\ c[n - 1] = file[at[n - 1]]
    BY <1>8, <2>1
  <2>3. PICK p \in DOMAIN file : p < at[n - 1] /\ c[n] = file[p]
    BY <1>6, <1>11, <2>2
  <2> QED BY <1>8, <1>10, <2>3
<1> DEFINE Falls(n) == \A m \in 1..L : m < n => at[n] < at[m]
           late == {n \in 1..L : ~Falls(n)}
<1>12. late = {}
  <2>1. SUFFICES ASSUME late # {} PROVE FALSE
    OBVIOUS
  <2>2. PICK n \in late : \A i \in late : ~(i < n)
    <3>1. late \in SUBSET Nat
      BY <1>5
    <3> HIDE DEF late
    <3> QED BY <2>1, <3>1, Least
  <2>3. n \in 1..L /\ ~Falls(n)
    OBVIOUS
  <2>4. PICK m \in 1..L : m < n /\ ~(at[n] < at[m])
    BY <2>3
  <2>5. n # 1 /\ n - 1 \in 1..L /\ n - 1 < n
    BY <1>5, <2>3, <2>4
  <2>6. Falls(n - 1)
    BY <2>2, <2>5
  <2>7. at[n] < at[n - 1]
    BY <1>11, <2>3, <2>5
  <2>8. m = n - 1 \/ m < n - 1
    BY <2>3, <2>4
  <2>9. m < n - 1 => at[n - 1] < at[m]
    BY <2>6
  <2>10. at[n] \in Nat /\ at[m] \in Nat /\ at[n - 1] \in Nat
    BY <1>2, <1>8, <2>3, <2>5
  <2> QED BY <2>4, <2>7, <2>8, <2>9, <2>10
<1>13. at[1] = j
  BY <1>1, <1>5, <1>8, <1>10
<1>14. Trail(file, c, at)
  <2>1. \A m, n \in 1..L : m < n => at[n] < at[m]
    BY <1>12
  <2> QED BY <1>8, <1>9, <2>1 DEF Trail, L
<1> QED BY <1>13, <1>14

\* With every line of the file stored, the walk of its line only ends at a root.
LEMMA TrailEnds ==
    ASSUME NEW d, NEW k, NEW file, file \in Seq(Listed(file)),
           ParentsFirst(file), IdsApart(file), AllStored(d, k, file),
           NEW c, NEW at, Len(c) \in Nat \ {0}, DOMAIN c = 1..Len(c), Trail(file, c, at),
           Onward(d, k, c) = {}
    PROVE  c[Len(c)].parent = RootEntry
<1>1. SUFFICES ASSUME c[Len(c)].parent # RootEntry PROVE FALSE
  OBVIOUS
<1> DEFINE L == Len(c)
<1>2. L \in 1..L /\ at[L] \in DOMAIN file /\ c[L] = file[at[L]]
  BY DEF Trail
<1>3. PICK p \in 1..(at[L] - 1) : file[p].id = c[L].parent
  BY <1>1, <1>2 DEF ParentsFirst
<1>4. DOMAIN file = 1..Len(file) /\ Len(file) \in Nat
  OBVIOUS
<1>5. p \in DOMAIN file /\ p < at[L] /\ p \in Nat /\ at[L] \in Nat
  BY <1>2, <1>4
<1>6. file[p] \in LinesOf(d, k)
  BY <1>5 DEF AllStored
<1>7. file[p] \in Held(d, k, c[L].parent)
  BY <1>3, <1>6 DEF Held, LinesOf
<1>8. file[p] \in Range(c)
  BY <1>1, <1>7 DEF Onward
<1>9. PICK n \in 1..L : c[n] = file[p]
  BY <1>8 DEF Range
<1>10. file[at[n]] = file[p] /\ at[n] \in DOMAIN file /\ at[n] \in Nat
  BY <1>4, <1>9 DEF Trail
<1> QED
  <2>1. n = L \/ n < L
    <3>1. L \in Nat /\ n \in 1..L
      OBVIOUS
    <3> HIDE DEF L
    <3> QED BY <3>1
  <2>2. n < L => at[L] < at[n]
    BY <1>2 DEF Trail
  <2>3. at[n] = p
    BY <1>5, <1>10 DEF IdsApart
  <2>4. CASE n = L
    <3>1. at[L] = p
      BY <2>3, <2>4
    <3> QED BY <1>5, <3>1
  <2>5. CASE n < L
    <3>1. at[L] < p
      BY <2>2, <2>3, <2>5
    <3> QED BY <1>5, <3>1
  <2> QED BY <2>1, <2>4, <2>5

(***************************************************************************)
(* The lines above a line, in the file.                                    *)
(***************************************************************************)
ParentOf(file, i) == {p \in DOMAIN file : file[i].parent # RootEntry /\ file[p].id = file[i].parent}

Ascend(file, j, n, g) ==
    [m \in 0..n |-> IF m = 0 THEN {j} ELSE g[m - 1] \cup UNION {ParentOf(file, i) : i \in g[m - 1]}]

LEMMA NumbersTo ==
    ASSUME NEW n \in Nat
    PROVE  IsFiniteSet(1..n) /\ Cardinality(1..n) = n
<1>1. 1 \in Int /\ n \in Int
  OBVIOUS
<1>2. IsFiniteSet(1..n) /\ Cardinality(1..n) = IF 1 > n THEN 0 ELSE n - 1 + 1
  BY <1>1, FS_Interval
<1> QED BY <1>2

\* Those of a branch that ends at a root are the lines it runs over.
LEMMA TrailIsAncestors ==
    ASSUME NEW file, file \in Seq(Listed(file)), NEW j \in DOMAIN file, IdsApart(file),
           NEW c, NEW at, Len(c) \in Nat \ {0}, Trail(file, c, at), at[1] = j,
           \A n \in 1..(Len(c) - 1) : c[n].parent # RootEntry /\ c[n + 1].id = c[n].parent,
           c[Len(c)].parent = RootEntry
    PROVE  Ancestors(file, j) = {at[n] : n \in 1..Len(c)}
<1> DEFINE L == Len(c)
           M == Len(file)
           up == CHOOSE g : g = Ascend(file, j, M, g)
           UpTo(n) == {at[m] : m \in {x \in 1..L : x <= n + 1}}
<1>1. DOMAIN file = 1..M /\ M \in Nat /\ L \in Nat \ {0}
  OBVIOUS
<1>2. Ancestors(file, j) = up[M]
  BY DEF Ancestors, Ascend, ParentOf
<1>3. /\ \A n \in 1..L : at[n] \in DOMAIN file /\ c[n] = file[at[n]]
      /\ \A m, n \in 1..L : m < n => at[n] < at[m]
  BY DEF Trail
<1>4. \A n \in 1..(L - 1) : c[n].parent # RootEntry /\ c[n + 1].id = c[n].parent
  OBVIOUS
<1>5. c[L].parent = RootEntry
  OBVIOUS
<1> HIDE DEF L, M
<1>6. ASSUME NEW n \in 1..L
      PROVE  ParentOf(file, at[n]) = IF n = L THEN {} ELSE {at[n + 1]}
  <2>1. CASE n = L
    BY <1>3, <1>5, <2>1 DEF ParentOf
  <2>2. CASE n # L
    <3>1. n \in 1..(L - 1) /\ n + 1 \in 1..L
      BY <1>1, <2>2
    <3>2. /\ at[n + 1] \in DOMAIN file /\ file[at[n + 1]].id = file[at[n]].parent
          /\ file[at[n]].parent # RootEntry
      BY <1>3, <1>4, <3>1
    <3> QED BY <2>2, <3>2 DEF ParentOf, IdsApart
  <2> QED BY <2>1, <2>2
<1>7. ASSUME NEW n \in Nat
      PROVE  UpTo(n + 1) = UpTo(n) \cup UNION {ParentOf(file, i) : i \in UpTo(n)}
  <2>1. ASSUME NEW x \in UpTo(n + 1)
        PROVE  x \in UpTo(n) \cup UNION {ParentOf(file, i) : i \in UpTo(n)}
    <3>1. PICK m \in 1..L : m <= n + 2 /\ x = at[m]
      BY <1>7
    <3>2. CASE m <= n + 1
      BY <3>1, <3>2
    <3>3. CASE ~(m <= n + 1)
      <4>1. m - 1 \in 1..L /\ m - 1 <= n + 1 /\ m - 1 # L /\ (m - 1) + 1 = m
        BY <1>1, <1>7, <3>1, <3>3
      <4>2. x \in ParentOf(file, at[m - 1])
        BY <1>6, <3>1, <4>1
      <4>3. at[m - 1] \in UpTo(n)
        BY <4>1
      <4> HIDE DEF UpTo
      <4> QED BY <4>2, <4>3
    <3> QED BY <3>2, <3>3
  <2>2. ASSUME NEW i \in UpTo(n), NEW x \in ParentOf(file, i) PROVE x \in UpTo(n + 1)
    <3>1. PICK m \in 1..L : m <= n + 1 /\ i = at[m]
      OBVIOUS
    <3>2. m # L /\ x = at[m + 1]
      BY <1>6, <2>2, <3>1
    <3>3. m + 1 \in 1..L /\ m + 1 <= (n + 1) + 1
      BY <1>1, <1>7, <3>1, <3>2
    <3> QED BY <3>2, <3>3
  <2>3. UpTo(n) \subseteq UpTo(n + 1)
    BY <1>1, <1>7
  <2> HIDE DEF UpTo
  <2> QED BY <2>1, <2>2, <2>3
<1>8. UpTo(0) = {j}
  <2>1. \A x \in 1..L : x <= 0 + 1 <=> x = 1
    BY <1>1
  <2>2. 1 \in 1..L
    BY <1>1
  <2> QED BY <2>1, <2>2
<1> DEFINE w == [m \in 0..M |-> UpTo(m)]
<1>9. w = Ascend(file, j, M, w)
  <2>1. ASSUME NEW m \in 0..M
        PROVE  w[m] = IF m = 0 THEN {j}
                      ELSE w[m - 1] \cup UNION {ParentOf(file, i) : i \in w[m - 1]}
    <3>1. CASE m = 0
      <4>1. w[m] = UpTo(0)
        BY <3>1
      <4> HIDE DEF w, UpTo
      <4> QED BY <1>8, <3>1, <4>1
    <3>2. CASE m # 0
      <4>1. m - 1 \in Nat /\ m - 1 \in 0..M /\ (m - 1) + 1 = m
        BY <1>1, <3>2
      <4>2. UpTo(m) = UpTo(m - 1) \cup UNION {ParentOf(file, i) : i \in UpTo(m - 1)}
        <5> HIDE DEF UpTo
        <5>1. UpTo((m - 1) + 1) = UpTo(m - 1) \cup UNION {ParentOf(file, i) : i \in UpTo(m - 1)}
          BY <1>7, <4>1
        <5> QED BY <4>1, <5>1
      <4>3. w[m] = UpTo(m) /\ w[m - 1] = UpTo(m - 1)
        BY <4>1
      <4> HIDE DEF w, UpTo
      <4> QED BY <3>2, <4>2, <4>3
    <3> QED BY <3>1, <3>2
  <2>2. w = [m \in 0..M |-> w[m]]
    OBVIOUS
  <2> HIDE DEF w
  <2>3. Ascend(file, j, M, w) = [m \in 0..M |-> IF m = 0 THEN {j}
                                   ELSE w[m - 1] \cup UNION {ParentOf(file, i) : i \in w[m - 1]}]
    BY DEF Ascend
  <2> QED BY <2>1, <2>2, <2>3
<1>10. up = Ascend(file, j, M, up)
  <2> HIDE DEF w
  <2> QED BY <1>9
<1> HIDE DEF up, w
<1>11. \A m \in 0..M : up[m] = IF m = 0 THEN {j}
                               ELSE up[m - 1] \cup UNION {ParentOf(file, i) : i \in up[m - 1]}
  <2> DEFINE F(m) == IF m = 0 THEN {j} ELSE up[m - 1] \cup UNION {ParentOf(file, i) : i \in up[m - 1]}
  <2>1. up = [m \in 0..M |-> F(m)]
    BY <1>10 DEF Ascend
  <2> HIDE DEF F
  <2>2. \A m \in 0..M : up[m] = F(m)
    BY <2>1
  <2> QED BY <2>2 DEF F
<1> HIDE DEF UpTo
<1> DEFINE bad == {m \in 0..M : up[m] # UpTo(m)}
<1>12. bad = {}
  <2>1. SUFFICES ASSUME bad # {} PROVE FALSE
    OBVIOUS
  <2>2. PICK m \in bad : \A i \in bad : ~(i < m)
    <3>1. bad \in SUBSET Nat
      BY <1>1
    <3> HIDE DEF bad
    <3> QED BY <2>1, <3>1, Least
  <2>3. m # 0
    BY <1>8, <1>11, <2>2
  <2>4. m - 1 \in 0..M /\ m - 1 < m /\ m - 1 \in Nat /\ (m - 1) + 1 = m
    BY <1>1, <2>2, <2>3
  <2>5. up[m - 1] = UpTo(m - 1)
    BY <2>2, <2>4
  <2>6. up[m] = UpTo(m - 1) \cup UNION {ParentOf(file, i) : i \in UpTo(m - 1)}
    BY <1>11, <2>2, <2>3, <2>5
  <2>7. UpTo((m - 1) + 1) = UpTo(m - 1) \cup UNION {ParentOf(file, i) : i \in UpTo(m - 1)}
    BY <1>7, <2>4
  <2> QED BY <2>2, <2>4, <2>6, <2>7
<1>13. up[M] = UpTo(M)
  BY <1>1, <1>12
<1>14. L <= M
  <2>1. SUFFICES ASSUME M < L PROVE FALSE
    BY <1>1
  <2>2. /\ IsFiniteSet(1..L) /\ Cardinality(1..L) = L
        /\ IsFiniteSet(1..M) /\ Cardinality(1..M) = M
    <3>1. L \in Nat /\ M \in Nat
      BY <1>1
    <3> QED BY <3>1, NumbersTo
  <2> DEFINE row == [n \in 1..L |-> at[n]]
  <2>3. row \in [1..L -> 1..M]
    BY <1>1, <1>3
  <2>4. \A n \in 1..L : row[n] = at[n]
    OBVIOUS
  <2> HIDE DEF row
  <2>5. PICK m, n \in 1..L : m # n /\ row[m] = row[n]
    <3>1. Cardinality(1..M) < Cardinality(1..L)
      BY <1>1, <2>1, <2>2
    <3>2. \E m, n \in 1..L : m # n /\ row[m] = row[n]
      <4> DEFINE S == 1..L
                 T == 1..M
      <4>1. IsFiniteSet(S) /\ IsFiniteSet(T) /\ Cardinality(T) < Cardinality(S) /\ row \in [S -> T]
        BY <2>2, <2>3, <3>1
      <4> HIDE DEF S, T
      <4>2. \E m, n \in S : m # n /\ row[m] = row[n]
        BY <4>1, FS_PigeonHole
      <4> QED BY <4>2 DEF S
    <3> QED BY <3>2
  <2>6. at[m] = at[n] /\ at[m] \in Nat
    BY <1>1, <1>3, <2>4, <2>5
  <2>7. m < n \/ n < m
    BY <1>1, <2>5
  <2> QED BY <1>3, <2>6, <2>7
<1>15. UpTo(M) = {at[n] : n \in 1..L}
  <2>1. \A x \in 1..L : x <= M + 1
    BY <1>1, <1>14
  <2> QED BY <2>1 DEF UpTo
<1> QED BY <1>2, <1>13, <1>15 DEF up, L

(***************************************************************************)
(* Two sequences that hold the same lines at numbers that fall in one as   *)
(* they rise in the other list them in mirror order.                       *)
(***************************************************************************)
LEMMA Mirrored ==
    ASSUME NEW s, s \in Seq(Listed(s)), NEW I \in SUBSET (DOMAIN s),
           NEW t, t \in Seq(Listed(t)), NEW at,
           \A i \in I : at[i] \in DOMAIN t /\ t[at[i]] = s[i],
           \A i, m \in I : i < m => at[m] < at[i]
    PROVE  /\ LinesAt(s, I) = Reverse(LinesAt(t, {at[i] : i \in I}))
           /\ Reverse(LinesAt(s, I)) = LinesAt(t, {at[i] : i \in I})
<1> DEFINE J == {at[i] : i \in I}
           es == Numbered(s, I)
           fs == Numbered(t, J)
           N == Cardinality(I)
           K == Cardinality(J)
           P == PlacesOf(t, J)
<1>1. J \in SUBSET (DOMAIN t)
  OBVIOUS
<1>2. ByNumber(es, PlacesOf(s, I)) /\ ByNumber(fs, P)
  <2> HIDE DEF J, es
  <2> QED BY <1>1, NumberedListing DEF es
<1>3. /\ N \in Nat /\ DOMAIN es = 1..N /\ K \in Nat /\ DOMAIN fs = 1..K
      /\ \A n \in 1..N : \E i \in I : es[n] = [line |-> s[i], no |-> i]
  <2> HIDE DEF J
  <2>1. /\ N \in Nat /\ DOMAIN es = 1..N
        /\ \A n \in 1..N : \E i \in I : es[n] = [line |-> s[i], no |-> i]
    BY NumberedLines
  <2>2. K \in Nat /\ DOMAIN fs = 1..K
    BY <1>1, NumberedLines
  <2> QED BY <2>1, <2>2
<1>4. /\ LinesAt(s, I) = [n \in 1..N |-> es[n].line]
      /\ LinesAt(t, J) = [n \in 1..K |-> fs[n].line]
  BY DEF LinesAt
<1> DEFINE gs == [n \in 1..N |-> [line |-> es[N + 1 - n].line, no |-> at[es[N + 1 - n].no]]]
<1> HIDE DEF J, es, fs, N, K, P
<1>5. \A n \in 1..N : es[n].no \in I /\ es[n].line = s[es[n].no]
  BY <1>3
<1>6. \A n \in 1..N : N + 1 - n \in 1..N /\ N + 1 - (N + 1 - n) = n
  BY <1>3
<1>7. \A m, n \in 1..N : m < n => es[m].no < es[n].no
  BY <1>2, <1>3 DEF ByNumber
<1>8. \A i \in I : \E n \in 1..N : es[n].no = i
  <2> TAKE i \in I
  <2>1. [line |-> s[i], no |-> i] \in PlacesOf(s, I)
    BY DEF PlacesOf
  <2>2. PICK n \in DOMAIN es : es[n] = [line |-> s[i], no |-> i]
    BY <1>2, <2>1 DEF ByNumber
  <2> QED BY <1>3, <2>2
<1>9. ByNumber(gs, P)
  <2>1. DOMAIN gs = 1..N /\ N \in Nat
    BY <1>3
  <2>2. \A n \in 1..N : /\ gs[n] = [line |-> es[N + 1 - n].line, no |-> at[es[N + 1 - n].no]]
                        /\ gs[n].no = at[es[N + 1 - n].no]
    OBVIOUS
  <2> HIDE DEF gs
  <2>3. ASSUME NEW n \in 1..N PROVE gs[n] \in P
    <3> DEFINE i == es[N + 1 - n].no
    <3>1. i \in I /\ es[N + 1 - n].line = s[i]
      BY <1>5, <1>6
    <3>2. gs[n] = [line |-> s[i], no |-> at[i]]
      BY <2>2, <3>1
    <3> HIDE DEF i
    <3>3. at[i] \in J /\ t[at[i]] = s[i]
      BY <3>1 DEF J
    <3> QED BY <3>2, <3>3 DEF P, PlacesOf
  <2>4. ASSUME NEW x \in P PROVE x.no \in Nat /\ \E n \in 1..N : gs[n] = x
    <3>1. PICK i \in I : x = [line |-> t[at[i]], no |-> at[i]]
      BY DEF P, PlacesOf, J
    <3>2. x = [line |-> s[i], no |-> at[i]] /\ at[i] \in DOMAIN t
      BY <3>1
    <3>3. PICK m \in 1..N : es[m].no = i
      BY <1>8
    <3>4. N + 1 - m \in 1..N /\ gs[N + 1 - m] = [line |-> es[m].line, no |-> at[i]]
      BY <1>6, <2>2, <3>3
    <3>5. es[m].line = s[i]
      BY <1>5, <3>3
    <3>6. at[i] \in Nat
      <4>1. DOMAIN t = 1..Len(t)
        OBVIOUS
      <4> QED BY <3>2, <4>1
    <3> QED BY <3>2, <3>4, <3>5, <3>6
  <2>5. ASSUME NEW m \in 1..N, NEW n \in 1..N, m < n PROVE gs[m].no < gs[n].no
    <3>1. N + 1 - m \in 1..N /\ N + 1 - n \in 1..N /\ N + 1 - n < N + 1 - m
      BY <1>3, <2>5
    <3>2. es[N + 1 - n].no < es[N + 1 - m].no /\ es[N + 1 - n].no \in I /\ es[N + 1 - m].no \in I
      BY <1>5, <1>7, <3>1
    <3>3. at[es[N + 1 - m].no] < at[es[N + 1 - n].no]
      BY <3>2
    <3>4. gs[m].no = at[es[N + 1 - m].no] /\ gs[n].no = at[es[N + 1 - n].no]
      BY <2>2
    <3> QED BY <3>3, <3>4
  <2> QED BY <2>1, <2>3, <2>4, <2>5 DEF ByNumber
<1>10. \A x \in P : x.no \in Nat
  BY <1>9 DEF ByNumber
<1>11. Starts(P, P)
  BY DEF Starts
<1>12. Begins(gs, fs) /\ Begins(fs, gs)
  <2> HIDE DEF gs
  <2> QED BY <1>2, <1>9, <1>11, ListingsBegin
<1>13. DOMAIN gs = 1..N /\ \A n \in 1..N : gs[n].line = es[N + 1 - n].line
  OBVIOUS
<1> HIDE DEF gs
<1>14. N = K
  <2>1. \A n \in 1..N : n \in 1..K
    BY <1>3, <1>12, <1>13 DEF Begins
  <2>2. \A n \in 1..K : n \in 1..N
    BY <1>3, <1>12, <1>13 DEF Begins
  <2>3. N # 0 => N <= K
    BY <1>3, <2>1
  <2>4. K # 0 => K <= N
    BY <1>3, <2>2
  <2> QED BY <1>3, <2>3, <2>4
<1>15. \A n \in 1..N : fs[n].line = es[N + 1 - n].line
  BY <1>12, <1>13 DEF Begins
<1>16. \A n \in 1..N : es[n].line = fs[N + 1 - n].line
  BY <1>6, <1>15
<1>17. Reverse(LinesAt(t, J)) = [n \in 1..N |-> fs[N - n + 1].line]
  <2>1. LinesAt(t, J) = [n \in 1..N |-> fs[n].line]
    BY <1>4, <1>14
  <2>2. Len(LinesAt(t, J)) = N
    BY <1>3, <2>1
  <2>3. \A n \in 1..N : LinesAt(t, J)[N - n + 1] = fs[N - n + 1].line
    <3>1. \A n \in 1..N : N - n + 1 \in 1..N
      BY <1>3
    <3> QED BY <2>1, <3>1
  <2> QED BY <2>2, <2>3 DEF Reverse
<1>18. Reverse(LinesAt(s, I)) = [n \in 1..N |-> es[N - n + 1].line]
  <2>2. Len(LinesAt(s, I)) = N
    BY <1>3, <1>4
  <2>3. \A n \in 1..N : LinesAt(s, I)[N - n + 1] = es[N - n + 1].line
    <3>1. \A n \in 1..N : N - n + 1 \in 1..N
      BY <1>3
    <3> QED BY <1>4, <3>1
  <2> QED BY <2>2, <2>3 DEF Reverse
<1>19. \A n \in 1..N : N - n + 1 = N + 1 - n
  BY <1>3
<1>20. LinesAt(s, I) = Reverse(LinesAt(t, J))
  <2>1. \A n \in 1..N : es[n].line = fs[N - n + 1].line
    BY <1>16, <1>19
  <2>2. [n \in 1..N |-> es[n].line] = [n \in 1..N |-> fs[N - n + 1].line]
    BY <2>1
  <2> QED BY <1>4, <1>17, <2>2
<1>21. Reverse(LinesAt(s, I)) = LinesAt(t, J)
  <2>1. \A n \in 1..N : fs[n].line = es[N - n + 1].line
    BY <1>15, <1>19
  <2>2. [n \in 1..N |-> fs[n].line] = [n \in 1..N |-> es[N - n + 1].line]
    BY <2>1
  <2> QED BY <1>4, <1>14, <1>18, <2>2
<1> QED BY <1>20, <1>21 DEF J

(***************************************************************************)
(* The context along a branch, and the file's own.                         *)
(***************************************************************************)
Anchored(l) == l.kind = "compaction" /\ l.anchor # RootEntry

LatestIn(c) == {i \in DOMAIN c : Anchored(c[i]) /\ ~\E j \in 1..(i - 1) : Anchored(c[j])}
AnchorsIn(c) == {i \in DOMAIN c : \E m \in LatestIn(c) : i >= m /\ c[i].id = c[m].anchor}

LatestOf(file, path) ==
    {m \in path : /\ Anchored(file[m])
                  /\ \A n \in path : Anchored(file[n]) => n <= m}
AnchorsOf(file, path) ==
    {i \in path : \E m \in LatestOf(file, path) : i <= m /\ file[i].id = file[m].anchor}

\* What is told of a branch, and what a file says at some of its lines.
Turn(l) == l.kind \notin {"compaction", "custom"}
ToldOf(c) == LinesAt(c, {i \in DOMAIN c : c[i].kind = "compaction"})
             \o Reverse(LinesAt(c, {i \in DOMAIN c : Turn(c[i])}))
Says(file, I) == Reverse(LinesAt(file, {i \in I : file[i].kind = "compaction"}))
                   \o LinesAt(file, {i \in I : Turn(file[i])})

Branching(file, c, at) ==
    /\ file \in Seq(Listed(file)) /\ IdsApart(file)
    /\ Len(c) \in Nat \ {0} /\ DOMAIN c = 1..Len(c) /\ Trail(file, c, at)

\* The compaction that counts and its anchor are the same lines on both sides, and one each.
LEMMA SameAnchors ==
    ASSUME NEW file, NEW c, NEW at, Branching(file, c, at)
    PROVE  LET path == {at[n] : n \in 1..Len(c)} IN
           /\ LatestOf(file, path) = {at[n] : n \in LatestIn(c)}
           /\ AnchorsOf(file, path) = {at[n] : n \in AnchorsIn(c)}
           /\ \A m, n \in AnchorsIn(c) : m = n
<1> DEFINE L == Len(c)
           path == {at[n] : n \in 1..L}
<1>1. L \in Nat /\ DOMAIN c = 1..L /\ DOMAIN file = 1..Len(file) /\ Len(file) \in Nat
  BY DEF Branching
<1>2. /\ \A n \in 1..L : at[n] \in DOMAIN file /\ at[n] \in Nat /\ c[n] = file[at[n]]
      /\ \A m, n \in 1..L : m < n => at[n] < at[m]
  BY <1>1 DEF Branching, Trail
<1> HIDE DEF L
<1>3. \A m, n \in 1..L : at[n] <= at[m] <=> m <= n
  <2> SUFFICES ASSUME NEW m \in 1..L, NEW n \in 1..L PROVE at[n] <= at[m] <=> m <= n
    OBVIOUS
  <2>1. m \in Nat /\ n \in Nat /\ at[m] \in Nat /\ at[n] \in Nat
    BY <1>1, <1>2
  <2>2. m < n \/ m = n \/ n < m
    BY <2>1
  <2> QED BY <1>2, <2>1, <2>2
<1>4. \A m, n \in 1..L : at[m] = at[n] => m = n
  <2> SUFFICES ASSUME NEW m \in 1..L, NEW n \in 1..L, at[m] = at[n] PROVE m = n
    OBVIOUS
  <2>1. m \in Nat /\ n \in Nat /\ at[m] \in Nat
    BY <1>1, <1>2
  <2>2. at[m] <= at[n] /\ at[n] <= at[m]
    BY <2>1
  <2>3. m <= n /\ n <= m
    BY <1>3, <2>2
  <2> QED BY <2>1, <2>3
<1>5. ASSUME NEW n \in 1..L
      PROVE  n \in LatestIn(c) <=> at[n] \in LatestOf(file, path)
  <2>1. (\E j \in 1..(n - 1) : Anchored(c[j])) <=> \E j \in 1..L : j < n /\ Anchored(c[j])
    <3>1. \A j : j \in 1..(n - 1) <=> j \in 1..L /\ j < n
      BY <1>1
    <3> QED BY <3>1
  <2>2. n \in LatestIn(c) <=> Anchored(c[n]) /\ \A j \in 1..L : Anchored(c[j]) => n <= j
    <3>1. \A j \in 1..L : n <= j <=> ~(j < n)
      BY <1>1
    <3> QED BY <1>1, <2>1, <3>1 DEF LatestIn
  <2>3. \A j \in 1..L : Anchored(c[j]) <=> Anchored(file[at[j]])
    BY <1>2
  <2>4. at[n] \in LatestOf(file, path)
          <=> Anchored(file[at[n]]) /\ \A j \in 1..L : Anchored(file[at[j]]) => at[j] <= at[n]
    BY DEF LatestOf
  <2> QED BY <1>3, <2>2, <2>3, <2>4
<1>6. LatestOf(file, path) = {at[n] : n \in LatestIn(c)}
  <2>1. LatestIn(c) \subseteq 1..L
    BY <1>1 DEF LatestIn
  <2>2. \A x \in LatestOf(file, path) : \E n \in 1..L : x = at[n]
    BY DEF LatestOf
  <2> HIDE DEF path
  <2> QED BY <1>5, <2>1, <2>2
<1>7. ASSUME NEW n \in 1..L
      PROVE  n \in AnchorsIn(c) <=> at[n] \in AnchorsOf(file, path)
  <2>1. LatestIn(c) \subseteq 1..L
    BY <1>1 DEF LatestIn
  <2>2. n \in AnchorsIn(c) <=> \E m \in LatestIn(c) : n >= m /\ c[n].id = c[m].anchor
    BY <1>1 DEF AnchorsIn
  <2>3. at[n] \in AnchorsOf(file, path)
          <=> \E m \in LatestIn(c) : at[n] <= at[m] /\ file[at[n]].id = file[at[m]].anchor
    <3>1. at[n] \in path
      OBVIOUS
    <3> HIDE DEF path
    <3> QED BY <1>6, <3>1 DEF AnchorsOf
  <2>4. ASSUME NEW m \in LatestIn(c)
        PROVE  /\ at[n] <= at[m] <=> n >= m
               /\ c[n] = file[at[n]] /\ c[m] = file[at[m]]
    <3>1. m \in 1..L
      BY <2>1
    <3>2. m <= n <=> n >= m
      BY <1>1, <3>1
    <3> QED BY <1>2, <1>3, <3>1, <3>2
  <2> HIDE DEF path
  <2> QED BY <2>2, <2>3, <2>4
<1>8. AnchorsOf(file, path) = {at[n] : n \in AnchorsIn(c)}
  <2>1. AnchorsIn(c) \subseteq 1..L
    BY <1>1 DEF AnchorsIn
  <2>2. \A x \in AnchorsOf(file, path) : \E n \in 1..L : x = at[n]
    BY DEF AnchorsOf
  <2> HIDE DEF path
  <2> QED BY <1>7, <2>1, <2>2
<1>9. ASSUME NEW m \in AnchorsIn(c), NEW n \in AnchorsIn(c) PROVE m = n
  <2>1. PICK p \in LatestIn(c) : c[m].id = c[p].anchor
    BY DEF AnchorsIn
  <2>2. PICK q \in LatestIn(c) : c[n].id = c[q].anchor
    BY DEF AnchorsIn
  <2>3. p \in 1..L /\ q \in 1..L /\ m \in 1..L /\ n \in 1..L
    BY <1>1 DEF LatestIn, AnchorsIn
  <2>4. p = q
    <3>1. p \notin 1..(q - 1) /\ q \notin 1..(p - 1)
      BY DEF LatestIn
    <3> QED BY <1>1, <2>3, <3>1
  <2>5. file[at[m]].id = file[at[n]].id /\ at[m] \in DOMAIN file /\ at[n] \in DOMAIN file
    BY <1>2, <2>1, <2>2, <2>3, <2>4
  <2>6. at[m] = at[n]
    BY <2>5 DEF Branching, IdsApart
  <2> QED BY <1>4, <2>3, <2>6
<1> QED BY <1>6, <1>8, <1>9 DEF L

\* From the leaf to position last, the branch's lines are the file's from at[last] on.
LEMMA SameLines ==
    ASSUME NEW file, NEW c, NEW at, Branching(file, c, at), c \in Seq(Listed(c)),
           NEW last \in 1..Len(c)
    PROVE  ToldOf(SubSeq(c, 1, last))
             = Says(file, {i \in {at[n] : n \in 1..Len(c)} : at[last] <= i})
<1> DEFINE L == Len(c)
           path == {at[n] : n \in 1..L}
           seen == SubSeq(c, 1, last)
           kept == {i \in path : at[last] <= i}
           I == {i \in DOMAIN seen : seen[i].kind = "compaction"}
           T == {i \in DOMAIN seen : Turn(seen[i])}
<1>1. L \in Nat /\ DOMAIN c = 1..L /\ DOMAIN file = 1..Len(file) /\ Len(file) \in Nat
      /\ file \in Seq(Listed(file))
  BY DEF Branching
<1>2. /\ \A n \in 1..L : at[n] \in DOMAIN file /\ at[n] \in Nat /\ c[n] = file[at[n]]
      /\ \A m, n \in 1..L : m < n => at[n] < at[m]
  BY <1>1 DEF Branching, Trail
<1>3. last \in 1..L /\ last \in Nat
  BY <1>1
<1>4. DOMAIN seen = 1..last /\ seen \in Seq(Listed(seen)) /\ \A n \in 1..last : seen[n] = c[n]
  <2>1. seen \in Seq(Listed(c)) /\ Len(seen) = last /\ \A n \in 1..last : seen[n] = c[n]
    BY <1>1, <1>3
  <2> HIDE DEF seen
  <2>2. DOMAIN seen = 1..last /\ seen = [n \in 1..last |-> seen[n]]
    BY <1>3, <2>1
  <2>3. \A n \in 1..last : seen[n] \in Listed(seen)
    BY <2>2 DEF Listed
  <2>4. seen \in [1..last -> Listed(seen)]
    BY <2>2, <2>3
  <2> QED BY <1>3, <2>1, <2>2, <2>4
<1> HIDE DEF L, seen
<1>5. kept = {at[n] : n \in 1..last}
  <2>1. \A n \in 1..L : at[last] <= at[n] <=> n \in 1..last
    <3> SUFFICES ASSUME NEW n \in 1..L PROVE at[last] <= at[n] <=> n \in 1..last
      OBVIOUS
    <3>1. n \in Nat /\ at[n] \in Nat /\ at[last] \in Nat
      BY <1>1, <1>2, <1>3
    <3>2. n < last \/ n = last \/ last < n
      BY <1>3, <3>1
    <3> QED BY <1>1, <1>2, <1>3, <3>1, <3>2
  <2>2. \A n \in 1..last : n \in 1..L
    BY <1>1, <1>3
  <2> QED BY <2>1, <2>2
<1>6. \A n \in 1..last : n \in 1..L /\ at[n] \in DOMAIN file /\ file[at[n]] = seen[n]
  <2>1. \A n \in 1..last : n \in 1..L
    BY <1>1, <1>3
  <2> QED BY <1>2, <1>4, <2>1
<1>7. /\ {i \in kept : file[i].kind = "compaction"} = {at[i] : i \in I}
      /\ {i \in kept : Turn(file[i])} = {at[i] : i \in T}
  <2> HIDE DEF kept
  <2> QED BY <1>4, <1>5, <1>6
<1>8. /\ I \in SUBSET (DOMAIN seen) /\ T \in SUBSET (DOMAIN seen)
      /\ \A i \in DOMAIN seen : at[i] \in DOMAIN file /\ file[at[i]] = seen[i]
      /\ \A i, m \in DOMAIN seen : i < m => at[m] < at[i]
  BY <1>2, <1>4, <1>6
<1> HIDE DEF I, T, kept
<1>9. LinesAt(seen, I) = Reverse(LinesAt(file, {at[i] : i \in I}))
  <2>1. /\ \A i \in I : at[i] \in DOMAIN file /\ file[at[i]] = seen[i]
        /\ \A i, m \in I : i < m => at[m] < at[i]
    BY <1>8
  <2>2. /\ LinesAt(seen, I) = Reverse(LinesAt(file, {at[i] : i \in I}))
        /\ Reverse(LinesAt(seen, I)) = LinesAt(file, {at[i] : i \in I})
    BY <1>1, <1>4, <1>8, <2>1, Mirrored
  <2> QED BY <2>2
<1>10. Reverse(LinesAt(seen, T)) = LinesAt(file, {at[i] : i \in T})
  <2>1. /\ \A i \in T : at[i] \in DOMAIN file /\ file[at[i]] = seen[i]
        /\ \A i, m \in T : i < m => at[m] < at[i]
    BY <1>8
  <2> QED BY <1>1, <1>4, <1>8, <2>1, Mirrored
<1>11. ToldOf(seen) = LinesAt(seen, I) \o Reverse(LinesAt(seen, T))
  BY DEF ToldOf, I, T
<1>12. Says(file, kept) = Reverse(LinesAt(file, {at[i] : i \in I})) \o LinesAt(file, {at[i] : i \in T})
  BY <1>7 DEF Says
<1> QED BY <1>9, <1>10, <1>11, <1>12 DEF kept, seen, L

LEMMA ContextOfFile ==
    ASSUME NEW d, NEW k, NEW file, file \in Seq(Listed(file)), NEW j \in DOMAIN file,
           ParentsFirst(file), IdsApart(file), AllStored(d, k, file), IsFiniteSet(Mine(d, k))
    PROVE  LiveContext(d, k, file[j]) = FileContext(file, j)
<1> DEFINE c == Chain(d, k, file[j])
           L == Len(c)
<1>1. Path(d, k, file[j], c) /\ Onward(d, k, c) = {}
  BY ChainIsPath DEF AllStored
<1> HIDE DEF c
<1>2. /\ c \in Seq(LinesOf(d, k)) /\ L \in Nat \ {0} /\ DOMAIN c = 1..L
      /\ \A n \in 1..(L - 1) : c[n].parent # RootEntry /\ c[n + 1].id = c[n].parent
  BY <1>1 DEF Path
<1>3. PICK at : Trail(file, c, at) /\ at[1] = j
  BY <1>1, TrailExists
<1>4. c[L].parent = RootEntry
  BY <1>1, <1>2, <1>3, TrailEnds
<1>5. ChainEnd(d, k, c) = "root"
  BY <1>4 DEF ChainEnd
<1> DEFINE path == {at[n] : n \in 1..L}
<1>6. Ancestors(file, j) = path
  BY <1>2, <1>3, <1>4, TrailIsAncestors
<1>7. Branching(file, c, at)
  BY <1>2, <1>3 DEF Branching
<1>8. /\ LatestOf(file, path) = {at[n] : n \in LatestIn(c)}
      /\ AnchorsOf(file, path) = {at[n] : n \in AnchorsIn(c)}
      /\ \A m, n \in AnchorsIn(c) : m = n
  BY <1>7, SameAnchors
<1>9. c \in Seq(Listed(c))
  <2>1. c = [n \in 1..L |-> c[n]] /\ \A n \in 1..L : c[n] \in Listed(c)
    BY <1>2 DEF Listed
  <2>2. c \in [1..L -> Listed(c)]
    BY <2>1
  <2> QED BY <1>2, <2>2
<1> DEFINE seen(n) == SubSeq(c, 1, n)
           kept(n) == {i \in path : at[n] <= i}
<1>10. \A n \in 1..L : ToldOf(seen(n)) = Says(file, kept(n))
  BY <1>7, <1>9, SameLines
<1>11. LiveContext(d, k, file[j]) =
         IF AnchorsIn(c) = {} /\ LatestIn(c) # {} THEN NotReadable
         ELSE [ok |-> TRUE, lines |-> ToldOf(IF AnchorsIn(c) = {} THEN c
                                           ELSE seen(CHOOSE i \in AnchorsIn(c) : TRUE))]
  BY <1>5 DEF LiveContext, LatestIn, AnchorsIn, Anchored, CutAt, ToldOf, Turn, c
<1>12. FileContext(file, j) =
         IF LatestOf(file, path) # {} /\ AnchorsOf(file, path) = {} THEN NotReadable
         ELSE [ok |-> TRUE, lines |-> Says(file, {i \in path : \A a \in AnchorsOf(file, path) : a <= i})]
  <2> DEFINE anchored == {i \in path : file[i].kind = "compaction" /\ file[i].anchor # RootEntry}
  <2>1. LatestOf(file, path) = {m \in anchored : \A n \in anchored : n <= m}
    BY DEF LatestOf, Anchored
  <2> HIDE DEF path
  <2> QED BY <1>6, <2>1 DEF FileContext, AnchorsOf, Says, Turn
<1>13. CASE AnchorsIn(c) = {} /\ LatestIn(c) # {}
  BY <1>8, <1>11, <1>12, <1>13
<1>14. CASE AnchorsIn(c) = {} /\ LatestIn(c) = {}
  <2>1. c = seen(L) /\ L \in 1..L
    BY <1>2
  <2>2. kept(L) = path
    <3>1. \A n \in 1..L : at[n] \in Nat /\ (n = L \/ at[L] < at[n])
      <4>1. \A n \in 1..L : n = L \/ n < L
        <5>1. L \in Nat
          BY <1>2
        <5> HIDE DEF L
        <5> QED BY <5>1
      <4>2. DOMAIN file = 1..Len(file) /\ L \in 1..L
        BY <1>2
      <4> QED BY <1>3, <4>1, <4>2 DEF Trail
    <3>2. \A n \in 1..L : at[L] <= at[n]
      <4>1. L \in 1..L
        BY <1>2
      <4> HIDE DEF L
      <4>2. at[L] \in Nat
        BY <3>1, <4>1
      <4> QED BY <3>1, <4>2
    <3> QED BY <3>2
  <2>3. {i \in path : \A a \in AnchorsOf(file, path) : a <= i} = path
    BY <1>8, <1>14
  <2> HIDE DEF seen, kept, path
  <2> QED BY <1>8, <1>10, <1>11, <1>12, <1>14, <2>1, <2>2, <2>3
<1>15. CASE AnchorsIn(c) # {}
  <2> DEFINE a == CHOOSE i \in AnchorsIn(c) : TRUE
  <2>1. a \in AnchorsIn(c)
    BY <1>15
  <2> HIDE DEF a
  <2>2. AnchorsIn(c) = {a} /\ a \in 1..L
    BY <1>2, <1>8, <2>1 DEF AnchorsIn
  <2>3. AnchorsOf(file, path) = {at[a]}
    BY <1>8, <2>2
  <2>4. {i \in path : \A x \in AnchorsOf(file, path) : x <= i} = kept(a)
    BY <2>3
  <2> HIDE DEF seen, kept, path
  <2> QED BY <1>10, <1>11, <1>12, <1>15, <2>2, <2>3, <2>4 DEF a
<1> QED BY <1>13, <1>14, <1>15

\* For a session no conflict touches, the live context of every line of a version
\* that repeats none is what the version's own file says, after any history of
\* ingests: whichever versions, earlier or later, the session's lines came from.
THEOREM ContextsAreTold == ReadingSpec => []ContextsHold
<1>1. CorpusInv /\ RowsInv => ContextsHold
  <2> SUFFICES ASSUME CorpusInv, RowsInv, NEW v \in db.versions,
                      \A x \in db.conflicts : x.key # v.key,
                      \A i, j \in DOMAIN v.content : v.content[i] = v.content[j] => i = j,
                      NEW j \in DOMAIN v.content
               PROVE  LiveContext(db, v.key, v.content[j]) = FileContext(v.content, j)
    BY DEF ContextsHold
  <2> DEFINE k == v.key
             file == v.content
  <2>1. VersionOfFile(v) /\ Kept(db, v)
    BY DEF CorpusInv, Committed
  <2>2. PICK f \in File : f.kind = "session" /\ f.content = file
    BY <2>1 DEF VersionOfFile
  <2>3. file \in Seq(Listed(file))
    BY <2>2, CorpusAssumption
  <2>4. ParentsFirst(file)
    BY <2>2, ReadingAssumption DEF WellFormed, ParentsFirst
  <2>5. \A i \in DOMAIN file : file[i] \in LinesOf(db, k)
    BY <2>1 DEF Kept, LinesOf
  <2>6. \A x, y \in LinesOf(db, k) : x.id = y.id => x = y
    <3>1. \A e, g \in db.entries : e.key = g.key /\ e.line.id = g.line.id => e = g
      BY DEF RowsInv, Rows, EntryRows
    <3> QED BY <3>1 DEF LinesOf, Mine
  <2>7. IdsApart(file)
    BY <2>5, <2>6 DEF IdsApart
  <2>8. IsFiniteSet(Mine(db, k))
    <3>1. IsFiniteSet(db.entries) /\ Mine(db, k) \in SUBSET db.entries
      BY DEF RowsInv, Rows, EntryRows, Mine
    <3> QED BY <3>1, FS_Subset
  <2> QED BY <2>3, <2>4, <2>5, <2>6, <2>7, <2>8, ContextOfFile DEF AllStored
<1> QED BY <1>1, CorpusInvariant, RowsInvariant, ReadingIsIngest, PTL
=============================================================================
