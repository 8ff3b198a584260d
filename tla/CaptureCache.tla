---------------------------- MODULE CaptureCache ----------------------------
(***************************************************************************)
(* Capture of the source files by an upload, and the advisory scan cache   *)
(* that lets it skip reading the files that look unchanged                 *)
(* (internal/archive).  Agents write the files whenever they like, between *)
(* any two system calls of the capture.  A cache entry is trusted when its *)
(* stat data match and the file is strictly older than the cache.          *)
(***************************************************************************)
EXTENDS Naturals

CONSTANTS
    File,       \* source file paths
    Image,      \* those that look like images
    Content,    \* file contents, identified with their SHA-256
    SizeOf,     \* the length of each content
    None,       \* no entry, nothing captured
    MaxTime,    \* bound: the clock stops here
    MaxInode,   \* bound: times a path is replaced by another file
    Grain,      \* the file system stamps mtimes in multiples of this
    Lag,        \* a file renamed over a path was written at most this long ago
    Toggled     \* whether include_images changes from one upload to the next

ASSUME CaptureAssumption ==
    /\ Image \subseteq File
    /\ SizeOf \in [Content -> Nat]
    /\ None \notin Content
    /\ MaxTime \in Nat \ {0} /\ MaxInode \in Nat /\ Lag \in Nat
    /\ Grain \in Nat \ {0}
    /\ Toggled \in BOOLEAN

VARIABLES
    now,        \* the clock
    content, mtime, inode,     \* the source files
    saved,      \* the cache file: [at: written_at_ns, entry: per path]
    parent,     \* blobs the machine's latest snapshot lists
    pc,         \* where the capture is
    opened,     \* openedAt
    forced,     \* --force: no cache
    found,      \* files this capture discovered
    todo,       \* files it has yet to look at
    cache,      \* the entries in memory, with the loaded writtenAt
    cur,        \* the file being copied, with StableCopy's own variables
    captured,   \* the manifest so far: content claimed for each file
    copies,     \* StateCapture.copies: contents held in temp files
    raws,       \* StateCapture.raws: the file that vouches for a content
    held        \* history: contents each file has had since the capture began

files  == <<content, mtime, inode>>
run    == <<opened, forced, found, todo, cache, cur, captured, copies, raws>>
vars   == <<now, files, saved, parent, pc, run, held>>

StatType  == [size: Nat, mtime: Nat, inode: Nat]
Entry     == [stat: StatType, sha: Content]
CacheType == [at: Nat, entry: [File -> Entry \cup {None}]]
Stat(f)   == [size |-> SizeOf[content[f]], mtime |-> mtime[f], inode |-> inode[f]]
EmptyCache == [at |-> 0, entry |-> [f \in File |-> None]]
Phase == {"idle", "scan", "stat", "read", "restat", "record", "blobs", "done"}
Nothing == [file |-> None, try |-> 0, stat |-> None, data |-> None, inode |-> 0]

Init ==
    /\ now = 1
    /\ content \in [File -> Content]
    /\ mtime = [f \in File |-> 0]
    /\ inode = [f \in File |-> 0]
    /\ saved = EmptyCache
    /\ parent = {}
    /\ pc = "idle"
    /\ opened = 0 /\ forced = FALSE /\ found = {} /\ todo = {} /\ cache = EmptyCache
    /\ cur = Nothing
    /\ captured = [f \in File |-> None]
    /\ copies = {} /\ raws = [s \in Content |-> None]
    /\ held = [f \in File |-> {}]

(***************************************************************************)
(* The environment: time, and the agents writing their histories.          *)
(***************************************************************************)
Stamped(t) == (t \div Grain) * Grain

Tick ==
    /\ now < MaxTime
    /\ now' = now + 1
    /\ UNCHANGED <<files, saved, parent, pc, run, held>>

Becomes(f, v) ==
    /\ content' = [content EXCEPT ![f] = v]
    /\ held' = IF pc = "idle" THEN held ELSE [held EXCEPT ![f] = @ \cup {v}]
    /\ UNCHANGED <<now, saved, parent, pc, run>>

Edit(f) ==
    /\ \E v \in Content : Becomes(f, v)
    /\ mtime' = [mtime EXCEPT ![f] = Stamped(now)]
    /\ UNCHANGED inode

\* An atomic save: another file, written a little earlier, is renamed here.
Replace(f) ==
    /\ inode[f] < MaxInode
    /\ inode' = [inode EXCEPT ![f] = @ + 1]
    /\ \E v \in Content : Becomes(f, v)
    /\ \E t \in 0 .. now : now <= t + Lag /\ mtime' = [mtime EXCEPT ![f] = Stamped(t)]

(***************************************************************************)
(* One upload: load the cache, capture each file, provide the blobs the    *)
(* Archive has not carried over, publish, save the cache.                  *)
(***************************************************************************)
Goto(phase) == pc' = phase

\* The process ends, and with it all it knew.
End ==
    /\ Goto("idle")
    /\ opened' = 0 /\ forced' = FALSE /\ found' = {} /\ todo' = {} /\ cache' = EmptyCache
    /\ cur' = Nothing
    /\ captured' = [f \in File |-> None]
    /\ copies' = {} /\ raws' = [s \in Content |-> None]
    /\ held' = [f \in File |-> {}]
    /\ UNCHANGED <<now, files, saved, parent>>

\* LoadCaptureCache and discovery.  A source may be disabled for one upload,
\* and the images left out; discovery finds images either way.
Load ==
    /\ pc = "idle"
    /\ opened' = now
    /\ forced' \in BOOLEAN
    /\ cache' = IF forced' THEN EmptyCache ELSE saved
    /\ found' \in SUBSET File
    /\ \E images \in {TRUE, ~Toggled} : todo' = IF images THEN found' ELSE found' \ Image
    /\ held' = [f \in File |-> {content[f]}]
    /\ Goto("scan")
    /\ UNCHANGED <<now, files, saved, parent, cur, captured, copies, raws>>

\* Mutant of Hit: a file as old as the cache is trusted too.
HitRacy(f) ==
    /\ ~forced
    /\ cache.entry[f] # None
    /\ cache.entry[f].stat = Stat(f)
    /\ mtime[f] <= cache.at

\* Lookup: stat data match and the file is outside the racy window.
Hit(f) ==
    /\ ~forced
    /\ cache.entry[f] # None
    /\ cache.entry[f].stat = Stat(f)
    /\ mtime[f] < cache.at

TakeHit(f) ==
    /\ pc = "scan" /\ f \in todo
    /\ Hit(f)
    /\ captured' = [captured EXCEPT ![f] = cache.entry[f].sha]
    /\ raws' = [raws EXCEPT ![cache.entry[f].sha] = f]
    /\ todo' = todo \ {f}
    /\ UNCHANGED <<now, files, saved, parent, pc, opened, forced, found, cache, cur, copies, held>>

BeginCopy(f) ==
    /\ pc = "scan" /\ f \in todo
    /\ ~Hit(f)
    /\ cur' = [Nothing EXCEPT !.file = f, !.try = 1]
    /\ todo' = todo \ {f}
    /\ Goto("stat")
    /\ UNCHANGED <<now, files, saved, parent, opened, forced, found, cache, captured, copies,
                   raws, held>>

CopyStat ==
    /\ pc = "stat"
    /\ cur' = [cur EXCEPT !.stat = Stat(cur.file)]
    /\ Goto("read")
    /\ UNCHANGED <<now, files, saved, parent, opened, forced, found, todo, cache, captured,
                   copies, raws, held>>

Accept(f, v, next) ==
    /\ captured' = [captured EXCEPT ![f] = v]
    /\ copies' = copies \cup {v}
    /\ Goto(next)

\* Mutant of CopyRead: one checked attempt too many.
CopyReadAgain ==
    /\ pc = "read"
    /\ \/ /\ cur.try <= 3 /\ cur.stat.inode # inode[cur.file]
          /\ End
       \/ /\ cur.try <= 3 /\ cur.stat.inode = inode[cur.file]
          /\ cur' = [cur EXCEPT !.data = content[cur.file], !.inode = inode[cur.file]]
          /\ Goto("restat")
          /\ UNCHANGED <<now, files, saved, parent, opened, forced, found, todo, cache,
                         captured, copies, raws, held>>

\* copyOnce: the opened file must be the one just examined.  The third
\* attempt compares nothing and is "unstable", which is never recorded.
CopyRead ==
    /\ pc = "read"
    /\ \/ /\ cur.try <= 2 /\ cur.stat.inode # inode[cur.file]
          /\ End
       \/ /\ cur.try <= 2 /\ cur.stat.inode = inode[cur.file]
          /\ cur' = [cur EXCEPT !.data = content[cur.file], !.inode = inode[cur.file]]
          /\ Goto("restat")
          /\ UNCHANGED <<now, files, saved, parent, opened, forced, found, todo, cache,
                         captured, copies, raws, held>>
       \/ /\ cur.try = 3
          /\ Accept(cur.file, content[cur.file], "scan")
          /\ cur' = Nothing
          /\ UNCHANGED <<now, files, saved, parent, opened, forced, found, todo, cache,
                         raws, held>>

CopyRestat ==
    LET same == /\ cur.stat.size = SizeOf[content[cur.file]]
                /\ cur.stat.mtime = mtime[cur.file] IN
    /\ pc = "restat"
    /\ \/ /\ cur.inode # inode[cur.file]
          /\ End
       \/ /\ cur.inode = inode[cur.file] /\ same
          /\ Accept(cur.file, cur.data, "record")
          /\ UNCHANGED <<now, files, saved, parent, opened, forced, found, todo, cache, cur,
                         raws, held>>
       \/ /\ cur.inode = inode[cur.file] /\ ~same
          /\ cur' = [cur EXCEPT !.try = @ + 1]
          /\ Goto(IF cur.try = 1 THEN "stat" ELSE "read")
          /\ UNCHANGED <<now, files, saved, parent, opened, forced, found, todo, cache,
                         captured, copies, raws, held>>

\* Record, with the stat data of an Lstat of its own made after the copy.
Record ==
    LET st == Stat(cur.file) IN
    /\ pc = "record"
    /\ cache' = IF ~forced /\ st.size = SizeOf[cur.data]
                THEN [cache EXCEPT !.entry[cur.file] = [stat |-> st, sha |-> cur.data]]
                ELSE cache
    /\ cur' = Nothing
    /\ Goto("scan")
    /\ UNCHANGED <<now, files, saved, parent, opened, forced, found, todo, captured,
                   copies, raws, held>>

\* Retain: entries of files that were not discovered are dropped.
Scanned ==
    /\ pc = "scan" /\ todo = {}
    /\ cache' = [cache EXCEPT !.entry = [f \in File |-> IF f \in found THEN @[f] ELSE None]]
    /\ Goto("blobs")
    /\ UNCHANGED <<now, files, saved, parent, opened, forced, found, todo, cur, captured,
                   copies, raws, held>>

Claimed == { captured[f] : f \in { g \in File : captured[g] # None } }

\* BlobPath for a blob the parent does not carry: a content a hit vouched for
\* is read now, and must still have the hash it is claimed to have.
BlobPath(s) ==
    /\ pc = "blobs"
    /\ s \in Claimed \ (parent \cup copies)
    /\ \/ /\ content[raws[s]] # s
          /\ End
       \/ /\ content[raws[s]] = s
          /\ copies' = copies \cup {s}
          /\ UNCHANGED <<now, files, saved, parent, pc, opened, forced, found, todo, cache, cur,
                         captured, raws, held>>

\* Mutant of Publish: the cache is anchored at the time it is saved.
PublishAnchoredLate ==
    /\ pc = "blobs"
    /\ Claimed \subseteq parent \cup copies
    /\ parent' = Claimed
    /\ saved' = IF forced THEN saved ELSE [at |-> now, entry |-> cache.entry]
    /\ Goto("done")
    /\ UNCHANGED <<now, files, run, held>>

\* The publication succeeds and the cache is saved, anchored at open time.
Publish ==
    /\ pc = "blobs"
    /\ Claimed \subseteq parent \cup copies
    /\ parent' = Claimed
    /\ saved' = IF forced THEN saved ELSE [at |-> opened, entry |-> cache.entry]
    /\ Goto("done")
    /\ UNCHANGED <<now, files, run, held>>

\* The upload returns, or fails at any earlier point with nothing saved.
Exit == pc # "idle" /\ End

Next ==
    \/ Tick
    \/ \E f \in File : Edit(f) \/ Replace(f) \/ TakeHit(f) \/ BeginCopy(f)
    \/ Load \/ CopyStat \/ CopyRead \/ CopyRestat \/ Record \/ Scanned
    \/ \E s \in Content : BlobPath(s)
    \/ Publish \/ Exit

Spec == Init /\ [][Next]_vars

-----------------------------------------------------------------------------
TypeOK ==
    /\ now \in 1 .. MaxTime
    /\ content \in [File -> Content]
    /\ mtime \in [File -> 0 .. MaxTime]
    /\ inode \in [File -> 0 .. MaxInode]
    /\ saved \in CacheType
    /\ parent \subseteq Content
    /\ pc \in Phase
    /\ opened \in 0 .. MaxTime
    /\ forced \in BOOLEAN
    /\ found \subseteq File /\ todo \subseteq found
    /\ cache \in CacheType
    /\ cur \in [file: File \cup {None}, try: 0 .. 3, stat: StatType \cup {None},
                data: Content \cup {None}, inode: 0 .. MaxInode]
    /\ captured \in [File -> Content \cup {None}]
    /\ copies \subseteq Content
    /\ raws \in [Content -> File \cup {None}]
    /\ held \in [File -> SUBSET Content]

\* The racy rule: whatever was written when, an entry of the cache file that
\* would be trusted names the content its file has.
NeverMasked ==
    \A f \in File :
        LET e == saved.entry[f] IN
        e # None /\ e.stat = Stat(f) /\ mtime[f] < saved.at => e.sha = content[f]

\* A published snapshot claims of each file a content the file had at some
\* moment of that upload: no modification made before the upload is missed.
PublishedFresh ==
    pc = "done" => \A f \in File : captured[f] # None => captured[f] \in held[f]
=============================================================================
