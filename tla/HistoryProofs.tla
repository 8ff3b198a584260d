--------------------------- MODULE HistoryProofs ---------------------------
(***************************************************************************)
(* Proofs about the two readers of histories that agents are writing: the  *)
(* capture of source files where file stamps are exact (CaptureCache), and *)
(* the export of an OpenCode database (Export); for any files, sessions,   *)
(* contents, uploads and exporters, and changes between any two steps.     *)
(***************************************************************************)
EXTENDS CaptureCache, Export, FiniteSetTheorems, TLAPS

\* Stamps as fine as the clock, no file older than its rename, and the same kinds of
\* files captured by every upload.
Exact == Grain = 1 /\ Lag = 0 /\ ~Toggled

Copying == {"stat", "read", "restat", "record"}

\* What a cache anchored at `at` may hold about f.
Sound(at, e, f) == e # None /\ e.stat = Stat(f) /\ mtime[f] < at => e.sha = content[f]

\* Written since the capture began: every later trust in f is refused.
Touched(f) == mtime[f] >= opened

ClockInv == saved.at <= now /\ opened <= now /\ cache.at <= opened

EntryInv ==
    /\ \A f \in File : Sound(saved.at, saved.entry[f], f)
    /\ \A f \in todo : Sound(cache.at, cache.entry[f], f)
    /\ \A f \in found \ todo : (pc \in Copying => f # cur.file) => Sound(opened, cache.entry[f], f)
    /\ forced => \A f \in File : cache.entry[f] = None
    /\ pc = "blobs" => todo = {} /\ \A f \in File \ found : cache.entry[f] = None

CopyInv ==
    pc \in Copying =>
        /\ cur.file \in found \ todo
        /\ pc \in {"stat", "restat"} => cur.try <= 2
        /\ cur.try >= 2 => Touched(cur.file)
        /\ pc \in {"read", "restat"} =>
              cur.stat \in StatType /\ (cur.stat = Stat(cur.file) \/ Touched(cur.file))
        /\ pc \in {"restat", "record"} =>
              /\ cur.data \in held[cur.file]
              /\ cur.data = content[cur.file] \/ Touched(cur.file)

HeldInv ==
    \A f \in File : /\ pc # "idle" => content[f] \in held[f]
                    /\ captured[f] # None => pc # "idle" /\ captured[f] \in held[f]

CaptureInv == TypeOK /\ ClockInv /\ EntryInv /\ CopyInv /\ HeldInv

LEMMA StatIsTyped ==
    ASSUME TypeOK, NEW f \in File
    PROVE  Stat(f) \in StatType
BY CaptureAssumption DEF TypeOK, Stat, StatType

LEMMA StampsAreExact == Exact => \A t \in Nat : Stamped(t) = t
BY DEF Exact, Stamped

\* A file that is written gets the time of that moment, which no anchor is later than.
LEMMA WrittenHolds ==
    ASSUME CaptureInv, NEW f \in File, NEW v \in Content, Becomes(f, v),
           mtime' = [mtime EXCEPT ![f] = now],
           inode' \in [File -> 0 .. MaxInode], \A g \in File \ {f} : inode'[g] = inode[g]
    PROVE  CaptureInv'
<1>1. /\ content' = [content EXCEPT ![f] = v] /\ UNCHANGED <<now, saved, parent, pc, run>>
      /\ held' = IF pc = "idle" THEN held ELSE [held EXCEPT ![f] = @ \cup {v}]
  BY DEF Becomes
<1>2. TypeOK'
  BY <1>1 DEF CaptureInv, TypeOK, run, CacheType
<1>3. ClockInv'
  BY <1>1 DEF CaptureInv, ClockInv, run
<1>4. /\ mtime'[f] = now
      /\ \A g \in File \ {f} : /\ mtime'[g] = mtime[g] /\ content'[g] = content[g]
                               /\ Stat(g)' = Stat(g) /\ held'[g] = held[g]
      /\ \A g \in File : held[g] \subseteq held'[g]
  BY <1>1 DEF CaptureInv, TypeOK, Stat
<1>5. /\ now \in Nat /\ opened \in Nat /\ saved.at \in Nat /\ cache.at \in Nat
      /\ saved.at <= now /\ opened <= now /\ cache.at <= now /\ found \subseteq File
      /\ todo \subseteq File
  BY CaptureAssumption DEF CaptureInv, TypeOK, ClockInv, CacheType
<1>6. ASSUME NEW g \in File, NEW at \in Nat, NEW e, at <= now, Sound(at, e, g)
      PROVE  Sound(at, e, g)'
  BY <1>4, <1>5, <1>6 DEF Sound
<1>7. EntryInv'
  BY <1>1, <1>5, <1>6 DEF CaptureInv, EntryInv, run
<1>8. Touched(f)' /\ \A g \in File : Touched(g) => Touched(g)'
  BY <1>1, <1>4, <1>5 DEF Touched, run
<1>9. CopyInv'
  BY <1>1, <1>4, <1>5, <1>8 DEF CaptureInv, CopyInv, run
<1>10. HeldInv'
  BY <1>1, <1>4 DEF CaptureInv, HeldInv, TypeOK, run
<1> QED BY <1>2, <1>3, <1>7, <1>9, <1>10 DEF CaptureInv

\* While nobody writes a file, what is known of the files stays known.
LEMMA FilesStay ==
    ASSUME UNCHANGED files
    PROVE  \A f : Stat(f)' = Stat(f) /\ \A at, e : Sound(at, e, f)' = Sound(at, e, f)
BY DEF files, Stat, Sound

LEMMA EntriesStay ==
    ASSUME CaptureInv, UNCHANGED <<files, saved, opened, forced, cache, found>>, todo' \subseteq todo,
           pc' # "blobs",
           \A f \in found \ todo' :
               (pc' \in Copying => f # cur'.file) => Sound(opened, cache.entry[f], f)
    PROVE  EntryInv'
<1>1. \A f \in File : Sound(saved.at, saved.entry[f], f)'
  BY DEF CaptureInv, EntryInv, Sound, Stat, files
<1>2. \A f \in todo' : Sound(cache.at, cache.entry[f], f)'
  BY DEF CaptureInv, EntryInv, Sound, Stat, files
<1>3. \A f \in found \ todo' :
          (pc' \in Copying => f # cur'.file) => Sound(opened, cache.entry[f], f)'
  BY DEF Sound, Stat, files
<1>4. (forced => \A f \in File : cache.entry[f] = None)'
  BY DEF CaptureInv, EntryInv
<1> QED BY <1>1, <1>2, <1>3, <1>4 DEF EntryInv

LEMMA TickHolds ==
    ASSUME CaptureInv, Tick
    PROVE  CaptureInv'
<1>1. /\ now' = now + 1 /\ now' \in 1 .. MaxTime /\ now \in Nat
      /\ UNCHANGED <<files, saved, parent, pc, run, held>>
  BY CaptureAssumption DEF Tick, CaptureInv, TypeOK
<1>2. TypeOK'
  BY <1>1 DEF CaptureInv, TypeOK, run, files
<1>3. ClockInv'
  BY <1>1, CaptureAssumption DEF CaptureInv, ClockInv, TypeOK, CacheType, run
<1>4. EntryInv' /\ CopyInv' /\ HeldInv'
  BY <1>1 DEF CaptureInv, EntryInv, CopyInv, HeldInv, Sound, Touched, Stat, run, files
<1> QED BY <1>2, <1>3, <1>4 DEF CaptureInv

LEMMA EndHolds ==
    ASSUME CaptureInv, End
    PROVE  CaptureInv'
<1>1. EmptyCache \in CacheType /\ Nothing \in [file: File \cup {None}, try: 0 .. 3,
          stat: StatType \cup {None}, data: Content \cup {None}, inode: 0 .. MaxInode]
  BY CaptureAssumption DEF EmptyCache, CacheType, Nothing
<1>2. TypeOK'
  <2>1. opened' \in 0 .. MaxTime
    BY CaptureAssumption DEF End
  <2>4. forced' \in BOOLEAN
    BY DEF End
  <2>5. /\ pc' \in Phase
        /\ copies' \subseteq Content /\ found' \subseteq File /\ todo' \subseteq found'
    BY DEF End, Goto, Phase
  <2>3. /\ captured' \in [File -> Content \cup {None}] /\ raws' \in [Content -> File \cup {None}]
        /\ held' \in [File -> SUBSET Content]
    BY DEF End
  <2>2. /\ cur' \in [file: File \cup {None}, try: 0 .. 3, stat: StatType \cup {None},
                     data: Content \cup {None}, inode: 0 .. MaxInode]
        /\ cache' \in CacheType
    BY <1>1 DEF End
  <2> QED BY <2>1, <2>2, <2>3, <2>4, <2>5 DEF End, CaptureInv, TypeOK, files
<1>3. ClockInv'
  BY CaptureAssumption DEF End, CaptureInv, ClockInv, TypeOK, EmptyCache
<1>4. EntryInv'
  BY FilesStay DEF End, Goto, CaptureInv, EntryInv, Copying
<1>5. CopyInv' /\ HeldInv'
  BY DEF End, Goto, CopyInv, HeldInv, Copying
<1> QED BY <1>2, <1>3, <1>4, <1>5 DEF CaptureInv

LEMMA LoadHolds ==
    ASSUME Exact, CaptureInv, Load
    PROVE  CaptureInv'
<1>1. /\ cache' = EmptyCache \/ cache' = saved
      /\ opened' = now /\ found' \subseteq File /\ todo' = found' /\ pc' = "scan"
      /\ held' = [f \in File |-> {content[f]}]
      /\ UNCHANGED <<now, files, saved, parent, cur, captured, copies, raws>>
  BY DEF Load, Goto, Exact
<1>2. EmptyCache \in CacheType /\ \A f \in File : EmptyCache.entry[f] = None
  BY CaptureAssumption DEF EmptyCache, CacheType
<1>3. TypeOK'
  <2>1. forced' \in BOOLEAN
    BY DEF Load
  <2> QED BY <1>1, <1>2, <2>1, CaptureAssumption DEF CaptureInv, TypeOK, Phase, files
<1>4. ClockInv'
  BY <1>1, CaptureAssumption DEF CaptureInv, ClockInv, TypeOK, EmptyCache
<1>5. EntryInv'
  <2>1. \A f \in File : Sound(saved.at, saved.entry[f], f)
    BY DEF CaptureInv, EntryInv
  <2>2. \A f \in File : Sound(cache'.at, cache'.entry[f], f)
    BY <1>1, <1>2, <2>1 DEF Sound
  <2>3. forced' => cache' = EmptyCache
    BY DEF Load
  <2> QED BY <1>1, <1>2, <2>1, <2>2, <2>3 DEF EntryInv, Sound, Stat, files
<1>6. CopyInv'
  BY <1>1 DEF CopyInv, Copying
<1>7. HeldInv'
  <2>1. pc = "idle"
    BY DEF Load
  <2> QED BY <1>1, <2>1 DEF CaptureInv, HeldInv, files
<1> QED BY <1>3, <1>4, <1>5, <1>6, <1>7 DEF CaptureInv

\* A hit is as good as a read: the entry names what the file holds at this moment.
LEMMA TakeHitHolds ==
    ASSUME CaptureInv, NEW f \in File, TakeHit(f)
    PROVE  CaptureInv'
<1> DEFINE e == cache.entry[f]
<1>1. /\ pc = "scan" /\ f \in todo /\ e # None /\ e.stat = Stat(f) /\ mtime[f] < cache.at
      /\ captured' = [captured EXCEPT ![f] = e.sha] /\ raws' = [raws EXCEPT ![e.sha] = f]
      /\ todo' = todo \ {f}
      /\ UNCHANGED <<now, files, saved, parent, pc, opened, forced, found, cache, cur, copies, held>>
  BY DEF TakeHit, Hit
<1>2. e.sha = content[f] /\ e.sha \in Content
  BY <1>1 DEF CaptureInv, EntryInv, Sound, TypeOK, CacheType, Entry
<1> HIDE DEF e
<1>3. TypeOK'
  BY <1>1, <1>2 DEF CaptureInv, TypeOK, files
<1>4. ClockInv'
  BY <1>1 DEF CaptureInv, ClockInv
<1>5. EntryInv'
  <2>1. Sound(opened, cache.entry[f], f)
    BY <1>2 DEF Sound, e
  <2>2. \A g \in found \ todo' : Sound(opened, cache.entry[g], g)
    BY <1>1, <2>1 DEF CaptureInv, EntryInv, Copying
  <2> QED BY <1>1, <2>2, EntriesStay
<1>6. CopyInv'
  BY <1>1 DEF CopyInv, Copying
<1>7. HeldInv'
  BY <1>1, <1>2 DEF CaptureInv, HeldInv, TypeOK, files
<1> QED BY <1>3, <1>4, <1>5, <1>6, <1>7 DEF CaptureInv

LEMMA BeginCopyHolds ==
    ASSUME CaptureInv, NEW f \in File, BeginCopy(f)
    PROVE  CaptureInv'
<1>1. /\ pc = "scan" /\ f \in todo /\ todo' = todo \ {f} /\ pc' = "stat"
      /\ cur' = [Nothing EXCEPT !.file = f, !.try = 1]
      /\ UNCHANGED <<now, files, saved, parent, opened, forced, found, cache, captured, copies,
                     raws, held>>
  BY DEF BeginCopy, Goto
<1>2. /\ cur' \in [file: File \cup {None}, try: 0 .. 3, stat: StatType \cup {None},
                   data: Content \cup {None}, inode: 0 .. MaxInode]
      /\ cur'.file = f /\ cur'.try = 1
  <2>1. cur' = [file |-> f, try |-> 1, stat |-> None, data |-> None, inode |-> 0]
    BY <1>1 DEF Nothing
  <2> QED BY <2>1, CaptureAssumption
<1>3. TypeOK'
  BY <1>1, <1>2 DEF CaptureInv, TypeOK, files, Phase
<1>4. ClockInv'
  BY <1>1 DEF CaptureInv, ClockInv
<1>5. EntryInv'
  <2>1. \A g \in found \ todo' : g # f => Sound(opened, cache.entry[g], g)
    BY <1>1 DEF CaptureInv, EntryInv, Copying
  <2> QED BY <1>1, <1>2, <2>1, EntriesStay DEF Copying
<1>6. CopyInv'
  BY <1>1, <1>2 DEF CaptureInv, TypeOK, CopyInv
<1>7. HeldInv'
  BY <1>1 DEF CaptureInv, HeldInv, files
<1> QED BY <1>3, <1>4, <1>5, <1>6, <1>7 DEF CaptureInv

LEMMA CopyStatHolds ==
    ASSUME CaptureInv, CopyStat
    PROVE  CaptureInv'
<1>1. /\ pc = "stat" /\ pc' = "read" /\ cur' = [cur EXCEPT !.stat = Stat(cur.file)]
      /\ UNCHANGED <<now, files, saved, parent, opened, forced, found, todo, cache, captured,
                     copies, raws, held>>
  BY DEF CopyStat, Goto
<1>2. cur.file \in found \ todo /\ cur.file \in File /\ Stat(cur.file) \in StatType
  BY <1>1, StatIsTyped DEF CaptureInv, CopyInv, Copying, TypeOK
<1>3. /\ cur' \in [file: File \cup {None}, try: 0 .. 3, stat: StatType \cup {None},
                   data: Content \cup {None}, inode: 0 .. MaxInode]
      /\ cur'.file = cur.file /\ cur'.try = cur.try /\ cur'.stat = Stat(cur.file)
  BY <1>1, <1>2 DEF CaptureInv, TypeOK
<1>4. TypeOK'
  BY <1>1, <1>3 DEF CaptureInv, TypeOK, files, Phase
<1>5. ClockInv'
  BY <1>1 DEF CaptureInv, ClockInv
<1>6. EntryInv'
  <2>1. \A g \in found \ todo : g # cur.file => Sound(opened, cache.entry[g], g)
    BY <1>1 DEF CaptureInv, EntryInv, Copying
  <2> QED BY <1>1, <1>3, <2>1, EntriesStay DEF Copying
<1>7. CopyInv'
  BY <1>1, <1>2, <1>3, FilesStay DEF CaptureInv, CopyInv, Copying, Touched, files
<1>8. HeldInv'
  BY <1>1 DEF CaptureInv, HeldInv, files
<1> QED BY <1>4, <1>5, <1>6, <1>7, <1>8 DEF CaptureInv

\* A copy that is taken for what it is: as recorded next, or after two rounds in
\* which the file was written.
LEMMA AcceptHolds ==
    ASSUME CaptureInv, NEW v, NEW next \in {"scan", "record"},
           pc \in {"read", "restat"}, v \in held[cur.file],
           Accept(cur.file, v, next), UNCHANGED <<now, files, saved, parent, opened, forced, found,
                                                  todo, cache, raws, held>>,
           next = "scan" => cur' = Nothing /\ Touched(cur.file),
           next = "record" => /\ cur' = cur /\ v = cur.data
                              /\ cur.data = content[cur.file] \/ Touched(cur.file)
    PROVE  CaptureInv'
<1>1. /\ captured' = [captured EXCEPT ![cur.file] = v] /\ copies' = copies \cup {v} /\ pc' = next
      /\ cur.file \in found \ todo /\ cur.file \in File
  BY DEF Accept, Goto, CaptureInv, CopyInv, Copying, TypeOK
<1>2. v \in Content
  BY <1>1 DEF CaptureInv, TypeOK
<1>3. Nothing \in [file: File \cup {None}, try: 0 .. 3, stat: StatType \cup {None},
                  data: Content \cup {None}, inode: 0 .. MaxInode]
  BY CaptureAssumption DEF Nothing
<1>4. TypeOK'
  BY <1>1, <1>2, <1>3 DEF CaptureInv, TypeOK, files, Phase
<1>5. ClockInv'
  BY DEF CaptureInv, ClockInv
<1>6. EntryInv'
  <2>1. \A g \in found \ todo : g # cur.file => Sound(opened, cache.entry[g], g)
    BY DEF CaptureInv, EntryInv
  <2>2. CASE next = "scan"
    <3>1. Sound(opened, cache.entry[cur.file], cur.file)
      BY <1>1, <2>2, CaptureAssumption DEF Sound, Touched, CaptureInv, TypeOK
    <3> QED BY <1>1, <2>1, <2>2, <3>1, EntriesStay
  <2>3. CASE next = "record"
    BY <1>1, <2>1, <2>3, EntriesStay DEF Copying
  <2> QED BY <2>2, <2>3
<1>7. CopyInv'
  BY <1>1 DEF CaptureInv, CopyInv, Copying, Touched, files
<1>8. HeldInv'
  BY <1>1 DEF CaptureInv, HeldInv, TypeOK, files
<1> QED BY <1>4, <1>5, <1>6, <1>7, <1>8 DEF CaptureInv

\* A step that only moves the copy in hand on.
LEMMA CopyMoves ==
    ASSUME CaptureInv, pc \in Copying, pc' \in {"stat", "read", "restat"}, cur'.file = cur.file,
           cur' \in [file: File \cup {None}, try: 0 .. 3, stat: StatType \cup {None},
                     data: Content \cup {None}, inode: 0 .. MaxInode],
           UNCHANGED <<now, files, saved, parent, opened, forced, found, todo, cache,
                       captured, copies, raws, held>>, CopyInv'
    PROVE  CaptureInv'
<1>1. TypeOK'
  BY DEF CaptureInv, TypeOK, files, Phase
<1>2. ClockInv'
  BY DEF CaptureInv, ClockInv
<1>3. EntryInv'
  <2>1. \A g \in found \ todo : g # cur.file => Sound(opened, cache.entry[g], g)
    BY DEF CaptureInv, EntryInv
  <2> QED BY <2>1, EntriesStay DEF Copying
<1>4. HeldInv'
  BY DEF CaptureInv, HeldInv, files, Copying
<1> QED BY <1>1, <1>2, <1>3, <1>4 DEF CaptureInv

LEMMA CopyReadHolds ==
    ASSUME CaptureInv, CopyRead
    PROVE  CaptureInv'
<1>1. /\ pc = "read" /\ pc \in Copying /\ cur.file \in File /\ cur.file \in found \ todo
      /\ content[cur.file] \in held[cur.file] /\ content[cur.file] \in Content
  BY DEF CopyRead, CaptureInv, CopyInv, Copying, TypeOK, HeldInv
<1>2. CASE End
  BY <1>2, EndHolds
<1>3. CASE /\ cur.try <= 2
           /\ cur' = [cur EXCEPT !.data = content[cur.file], !.inode = inode[cur.file]]
           /\ pc' = "restat"
           /\ UNCHANGED <<now, files, saved, parent, opened, forced, found, todo, cache,
                          captured, copies, raws, held>>
  <2>1. /\ cur' \in [file: File \cup {None}, try: 0 .. 3, stat: StatType \cup {None},
                     data: Content \cup {None}, inode: 0 .. MaxInode]
        /\ cur'.file = cur.file /\ cur'.try = cur.try /\ cur'.stat = cur.stat
        /\ cur'.data = content[cur.file]
    BY <1>1, <1>3 DEF CaptureInv, TypeOK
  <2>2. CopyInv'
    BY <1>1, <1>3, <2>1, FilesStay DEF CaptureInv, CopyInv, Touched, files
  <2> QED BY <1>1, <1>3, <2>1, <2>2, CopyMoves
<1>4. CASE /\ cur.try = 3 /\ Accept(cur.file, content[cur.file], "scan") /\ cur' = Nothing
           /\ UNCHANGED <<now, files, saved, parent, opened, forced, found, todo, cache, raws, held>>
  <2>1. Touched(cur.file)
    BY <1>1, <1>4 DEF CaptureInv, CopyInv
  <2> QED BY <1>1, <1>4, <2>1, AcceptHolds
<1> QED BY <1>2, <1>3, <1>4 DEF CopyRead, Goto

LEMMA CopyRestatHolds ==
    ASSUME CaptureInv, CopyRestat
    PROVE  CaptureInv'
<1> DEFINE same == /\ cur.stat.size = SizeOf[content[cur.file]]
                   /\ cur.stat.mtime = mtime[cur.file]
<1>1. /\ pc = "restat" /\ pc \in Copying /\ cur.file \in File /\ cur.file \in found \ todo
      /\ cur.data \in held[cur.file] /\ cur.try \in 0 .. 2
      /\ cur.data = content[cur.file] \/ Touched(cur.file)
      /\ cur.stat \in StatType /\ (cur.stat = Stat(cur.file) \/ Touched(cur.file))
  BY DEF CopyRestat, CaptureInv, CopyInv, Copying, TypeOK
<1>2. CASE End
  BY <1>2, EndHolds
<1>3. CASE /\ Accept(cur.file, cur.data, "record")
           /\ UNCHANGED <<now, files, saved, parent, opened, forced, found, todo, cache, cur,
                          raws, held>>
  BY <1>1, <1>3, AcceptHolds
<1>4. CASE /\ ~same /\ cur' = [cur EXCEPT !.try = @ + 1]
           /\ pc' = IF cur.try = 1 THEN "stat" ELSE "read"
           /\ UNCHANGED <<now, files, saved, parent, opened, forced, found, todo, cache,
                          captured, copies, raws, held>>
  <2>1. Touched(cur.file)
    BY <1>1, <1>4 DEF Stat
  <2>2. /\ cur' \in [file: File \cup {None}, try: 0 .. 3, stat: StatType \cup {None},
                     data: Content \cup {None}, inode: 0 .. MaxInode]
        /\ cur'.file = cur.file /\ cur'.try = cur.try + 1 /\ cur'.stat = cur.stat
    BY <1>1, <1>4 DEF CaptureInv, TypeOK
  <2>3. CopyInv'
    BY <1>1, <1>4, <2>1, <2>2 DEF CopyInv, Touched, files
  <2> QED BY <1>1, <1>4, <2>2, <2>3, CopyMoves
<1> QED BY <1>2, <1>3, <1>4 DEF CopyRestat, Goto

\* The entry recorded after a copy is sound at the anchor of this capture, and so is
\* an old one left in place: either way the file was written since the anchor, or it
\* still has the content that was copied.
LEMMA RecordHolds ==
    ASSUME CaptureInv, Record
    PROVE  CaptureInv'
<1> DEFINE f == cur.file
           st == Stat(f)
<1>1. /\ pc = "record" /\ pc' = "scan" /\ cur' = Nothing /\ f \in File /\ f \in found \ todo
      /\ cur.data \in Content /\ st \in StatType
      /\ cur.data = content[f] \/ Touched(f)
      /\ UNCHANGED <<now, files, saved, parent, opened, forced, found, todo, captured, copies,
                     raws, held>>
  BY StatIsTyped DEF Record, Goto, CaptureInv, CopyInv, Copying, TypeOK
<1>2. /\ cache' \in CacheType /\ cache'.at = cache.at
      /\ \A g \in File \ {f} : cache'.entry[g] = cache.entry[g]
      /\ cache'.entry[f] \in {cache.entry[f], [stat |-> st, sha |-> cur.data]}
      /\ cache'.entry[f] = [stat |-> st, sha |-> cur.data]
            \/ forced \/ SizeOf[content[f]] # SizeOf[cur.data]
  <2>1. st.size = SizeOf[content[f]]
    BY DEF Stat
  <2>2. [stat |-> st, sha |-> cur.data] \in Entry
    BY <1>1 DEF Entry
  <2>3. cache \in CacheType
    BY DEF CaptureInv, TypeOK
  <2>4. CASE ~forced /\ st.size = SizeOf[cur.data]
    <3>1. cache' = [cache EXCEPT !.entry[f] = [stat |-> st, sha |-> cur.data]]
      BY <2>4 DEF Record
    <3> HIDE DEF st, f
    <3> QED BY <1>1, <2>2, <2>3, <3>1 DEF CacheType
  <2>5. CASE forced
    <3>1. cache' = cache
      BY <2>5 DEF Record
    <3> HIDE DEF st, f
    <3> QED BY <2>3, <2>5, <3>1
  <2>6. CASE st.size # SizeOf[cur.data]
    <3>1. cache' = cache
      BY <2>6 DEF Record
    <3> HIDE DEF st, f
    <3> QED BY <2>1, <2>3, <2>6, <3>1
  <2> QED BY <2>4, <2>5, <2>6
<1>3. TypeOK'
  <2>1. Nothing \in [file: File \cup {None}, try: 0 .. 3, stat: StatType \cup {None},
                    data: Content \cup {None}, inode: 0 .. MaxInode]
    BY CaptureAssumption DEF Nothing
  <2> QED BY <1>1, <1>2, <2>1 DEF CaptureInv, TypeOK, files, Phase
<1>4. ClockInv'
  BY <1>1, <1>2 DEF CaptureInv, ClockInv
<1>5. EntryInv'
  <2>1. Sound(opened, cache'.entry[f], f)
    <3>1. CASE Touched(f)
      BY <1>1, <3>1, CaptureAssumption DEF Touched, Sound, CaptureInv, TypeOK
    <3>2. CASE cur.data = content[f] /\ cache'.entry[f] = [stat |-> st, sha |-> cur.data]
      BY <3>2 DEF Sound
    <3>3. CASE cur.data = content[f] /\ cache'.entry[f] = cache.entry[f] /\ forced
      BY <1>1, <3>3 DEF Sound, CaptureInv, EntryInv
    <3> QED BY <1>1, <1>2, <3>1, <3>2, <3>3
  <2>2. \A g \in found \ todo : Sound(opened, cache'.entry[g], g)
    BY <1>1, <1>2, <2>1 DEF CaptureInv, EntryInv, TypeOK
  <2>3. \A g \in todo : Sound(cache'.at, cache'.entry[g], g)
    BY <1>1, <1>2 DEF CaptureInv, EntryInv, TypeOK
  <2>4. \A g \in File : Sound(saved.at, saved.entry[g], g)
    BY DEF CaptureInv, EntryInv
  <2>5. forced => \A g \in File : cache'.entry[g] = None
    BY <1>1, <1>2 DEF CaptureInv, EntryInv, Record
  <2> QED BY <1>1, <2>2, <2>3, <2>4, <2>5 DEF EntryInv, Sound, Stat, files
<1>6. CopyInv'
  BY <1>1 DEF CopyInv, Copying
<1>7. HeldInv'
  BY <1>1 DEF CaptureInv, HeldInv, files
<1> QED BY <1>3, <1>4, <1>5, <1>6, <1>7 DEF CaptureInv

LEMMA ScannedHolds ==
    ASSUME CaptureInv, Scanned
    PROVE  CaptureInv'
<1>1. /\ pc = "scan" /\ todo = {} /\ pc' = "blobs"
      /\ cache' = [cache EXCEPT !.entry = [f \in File |-> IF f \in found THEN @[f] ELSE None]]
      /\ UNCHANGED <<now, files, saved, parent, opened, forced, found, todo, cur, captured,
                     copies, raws, held>>
  BY DEF Scanned, Goto
<1>2. /\ cache' \in CacheType /\ cache'.at = cache.at
      /\ \A g \in found : cache'.entry[g] = cache.entry[g]
      /\ \A g \in File \ found : cache'.entry[g] = None
  BY <1>1 DEF CaptureInv, TypeOK, CacheType
<1>3. TypeOK'
  BY <1>1, <1>2 DEF CaptureInv, TypeOK, files, Phase
<1>4. ClockInv'
  BY <1>1, <1>2 DEF CaptureInv, ClockInv
<1>5. EntryInv'
  <2>1. \A g \in found \ todo : Sound(opened, cache'.entry[g], g)
    BY <1>1, <1>2 DEF CaptureInv, EntryInv, Copying
  <2>2. \A g \in File : Sound(saved.at, saved.entry[g], g)
    BY DEF CaptureInv, EntryInv
  <2>3. forced => \A g \in File : cache'.entry[g] = None
    BY <1>2 DEF CaptureInv, EntryInv
  <2> QED BY <1>1, <1>2, <2>1, <2>2, <2>3 DEF EntryInv, Sound, Stat, files
<1>6. CopyInv' /\ HeldInv'
  BY <1>1 DEF CaptureInv, CopyInv, HeldInv, Copying, files
<1> QED BY <1>3, <1>4, <1>5, <1>6 DEF CaptureInv

LEMMA BlobPathHolds ==
    ASSUME CaptureInv, NEW s \in Content, BlobPath(s)
    PROVE  CaptureInv'
<1>1. CASE End
  BY <1>1, EndHolds
<1>2. CASE /\ copies' = copies \cup {s}
           /\ UNCHANGED <<now, files, saved, parent, pc, opened, forced, found, todo, cache, cur,
                          captured, raws, held>>
  <2>1. TypeOK'
    BY <1>2 DEF CaptureInv, TypeOK, files
  <2>2. ClockInv' /\ EntryInv' /\ CopyInv' /\ HeldInv'
    BY <1>2 DEF CaptureInv, ClockInv, EntryInv, CopyInv, HeldInv, Sound, Touched, Stat, files
  <2> QED BY <2>1, <2>2 DEF CaptureInv
<1> QED BY <1>1, <1>2 DEF BlobPath

\* Everything the saved file holds was sound at the open time that anchors it.
LEMMA PublishHolds ==
    ASSUME CaptureInv, Publish
    PROVE  CaptureInv'
<1>1. /\ pc = "blobs" /\ pc' = "done" /\ parent' = Claimed
      /\ UNCHANGED <<now, files, run, held>>
  BY DEF Publish, Goto
<1>2. /\ saved' \in CacheType /\ saved'.at <= now
      /\ \A f \in File : Sound(saved'.at, saved'.entry[f], f)
  <2>1. CASE forced
    BY <2>1 DEF Publish, CaptureInv, TypeOK, ClockInv, EntryInv
  <2>2. CASE ~forced
    <3>1. saved' = [at |-> opened, entry |-> cache.entry]
      BY <2>2 DEF Publish
    <3>2. opened \in Nat /\ cache.entry \in [File -> Entry \cup {None}]
      BY CaptureAssumption DEF CaptureInv, TypeOK, CacheType
    <3>3. saved' \in CacheType /\ saved'.at = opened /\ saved'.entry = cache.entry
      BY <3>1, <3>2 DEF CacheType
    <3>4. ASSUME NEW f \in File PROVE Sound(opened, cache.entry[f], f)
      <4>1. CASE f \in found
        BY <1>1, <4>1 DEF CaptureInv, EntryInv, Copying
      <4>2. CASE f \notin found
        BY <1>1, <4>2 DEF CaptureInv, EntryInv, Sound
      <4> QED BY <4>1, <4>2
    <3> QED BY <3>3, <3>4 DEF CaptureInv, ClockInv
  <2> QED BY <2>1, <2>2
<1>3. TypeOK'
  <2>1. parent' \subseteq Content
    BY <1>1 DEF Claimed, CaptureInv, TypeOK
  <2> QED BY <1>1, <1>2, <2>1 DEF CaptureInv, TypeOK, files, run, Phase
<1>4. ClockInv'
  BY <1>1, <1>2 DEF CaptureInv, ClockInv, run
<1>5. EntryInv'
  BY <1>1, <1>2 DEF CaptureInv, EntryInv, Sound, Stat, files, run, Copying
<1>6. CopyInv' /\ HeldInv'
  BY <1>1 DEF CaptureInv, CopyInv, HeldInv, Copying, files, run
<1> QED BY <1>3, <1>4, <1>5, <1>6 DEF CaptureInv

LEMMA EditHolds ==
    ASSUME Exact, CaptureInv, NEW f \in File, Edit(f) \/ Replace(f)
    PROVE  CaptureInv'
<1>1. now \in Nat /\ inode \in [File -> 0 .. MaxInode] /\ MaxInode \in Nat
  BY CaptureAssumption DEF CaptureInv, TypeOK
<1>2. CASE Edit(f)
  <2>1. PICK v \in Content : Becomes(f, v)
    BY <1>2 DEF Edit
  <2>2. mtime' = [mtime EXCEPT ![f] = now] /\ inode' = inode
    BY <1>1, <1>2, StampsAreExact DEF Edit
  <2> QED BY <1>1, <2>1, <2>2, WrittenHolds
<1>3. CASE Replace(f)
  <2>1. PICK v \in Content : Becomes(f, v)
    BY <1>3 DEF Replace
  <2>2. PICK t \in 0 .. now : now <= t + Lag /\ mtime' = [mtime EXCEPT ![f] = Stamped(t)]
    BY <1>3 DEF Replace
  <2>3. t = now /\ Stamped(t) = t
    BY <1>1, <2>2, StampsAreExact DEF Exact
  <2>4. /\ inode' \in [File -> 0 .. MaxInode] /\ \A g \in File \ {f} : inode'[g] = inode[g]
    BY <1>1, <1>3 DEF Replace
  <2> QED BY <2>1, <2>2, <2>3, <2>4, WrittenHolds
<1> QED BY <1>2, <1>3

LEMMA CaptureInitHolds == Init => CaptureInv
<1> SUFFICES ASSUME Init PROVE CaptureInv
  OBVIOUS
<1>1. EmptyCache \in CacheType /\ EmptyCache.at = 0 /\ \A f \in File : EmptyCache.entry[f] = None
  BY DEF EmptyCache, CacheType
<1>2. TypeOK
  <2>1. /\ cur \in [file: File \cup {None}, try: 0 .. 3, stat: StatType \cup {None},
                    data: Content \cup {None}, inode: 0 .. MaxInode]
        /\ mtime \in [File -> 0 .. MaxTime] /\ inode \in [File -> 0 .. MaxInode]
        /\ opened \in 0 .. MaxTime
    BY CaptureAssumption DEF Init, Nothing
  <2>2. now \in 1 .. MaxTime
    BY CaptureAssumption DEF Init
  <2>3. /\ captured \in [File -> Content \cup {None}] /\ raws \in [Content -> File \cup {None}]
        /\ held \in [File -> SUBSET Content] /\ forced \in BOOLEAN
    BY DEF Init
  <2> QED BY <1>1, <2>1, <2>2, <2>3 DEF Init, TypeOK, Phase
<1>3. ClockInv
  BY <1>1 DEF Init, ClockInv
<1>4. EntryInv
  BY <1>1 DEF Init, EntryInv, Sound
<1>5. CopyInv /\ HeldInv
  BY DEF Init, CopyInv, HeldInv, Copying
<1> QED BY <1>2, <1>3, <1>4, <1>5 DEF CaptureInv

LEMMA CaptureStepHolds ==
    ASSUME Exact, CaptureInv, [Next]_vars
    PROVE  CaptureInv'
<1>1. CASE Tick
  BY <1>1, TickHolds
<1>2. ASSUME NEW f \in File, Edit(f) \/ Replace(f) PROVE CaptureInv'
  BY <1>2, EditHolds
<1>3. ASSUME NEW f \in File, TakeHit(f) PROVE CaptureInv'
  BY <1>3, TakeHitHolds
<1>4. ASSUME NEW f \in File, BeginCopy(f) PROVE CaptureInv'
  BY <1>4, BeginCopyHolds
<1>5. CASE Load
  BY <1>5, LoadHolds
<1>6. CASE CopyStat \/ CopyRead \/ CopyRestat \/ Record
  BY <1>6, CopyStatHolds, CopyReadHolds, CopyRestatHolds, RecordHolds
<1>7. CASE Scanned \/ Publish
  BY <1>7, ScannedHolds, PublishHolds
<1>8. ASSUME NEW s \in Content, BlobPath(s) PROVE CaptureInv'
  BY <1>8, BlobPathHolds
<1>9. CASE Exit
  BY <1>9, EndHolds DEF Exit
<1>10. CASE UNCHANGED vars
  BY <1>10 DEF vars, files, run, CaptureInv, TypeOK, ClockInv, EntryInv, CopyInv, HeldInv, Sound,
               Touched, Stat
<1> QED BY <1>1, <1>2, <1>3, <1>4, <1>5, <1>6, <1>7, <1>8, <1>9, <1>10 DEF Next

(***************************************************************************)
(* The theorems.                                                           *)
(***************************************************************************)
\* While stamps are exact, an entry in hand or saved is sound at the anchor it will be
\* or was saved under, whoever writes the files meanwhile.
THEOREM CaptureInvariant == ASSUME Exact PROVE Spec => []CaptureInv
<1>1. CaptureInv /\ [Next]_vars => CaptureInv'
  BY CaptureStepHolds
<1> QED BY CaptureInitHolds, <1>1, PTL DEF Spec

\* TrustedLocked's strict comparison: a saved entry that a later upload would trust
\* names the content the file has, after any writes and any uploads in between.
THEOREM TrustedEntriesAreTrue == ASSUME Exact PROVE Spec => []NeverMasked
<1>1. CaptureInv => NeverMasked
  BY DEF CaptureInv, EntryInv, Sound, NeverMasked
<1> QED BY CaptureInvariant, <1>1, PTL

\* What a published snapshot claims of a file, by a hit, a stable copy or an unstable
\* one, is a content the file had during that upload.
THEOREM SnapshotsAreFresh == ASSUME Exact PROVE Spec => []PublishedFresh
<1>1. CaptureInv => PublishedFresh
  BY DEF CaptureInv, HeldInv, PublishedFresh
<1> QED BY CaptureInvariant, <1>1, PTL

(***************************************************************************)
(* Exporting.                                                              *)
(***************************************************************************)

Version == [Session -> Nat]
ExporterState == [at: {"idle", "db", "log", "sessions"}, base: Version, copy: Version,
                  told: Version, split: BOOLEAN, left: SUBSET Session, temp: Session \cup {0}]

FileFor(s, copy) == [name |-> FileName(s, copy), session |-> s, version |-> copy[s]]

ExportTypeOK ==
    /\ main \in Version /\ wal \in [Session -> Nat \cup {Same}]
    /\ gone \subseteq Session /\ stops \in Nat
    /\ exp \in [Exporter -> ExporterState]

\* A version no newer than what OpenCode stores, or of a session it has deleted.
Past(v, s) == s \in gone \/ v <= Stored[s]

PastInv ==
    /\ \A s \in Session : Past(main[s], s)
    /\ \A e \in Exporter, s \in Session : Past(exp[e].base[s], s) /\ Past(exp[e].copy[s], s)
    /\ \A f \in dest : Past(f.version, f.session)

\* A file has the name of its session, and no two files have one name.
NameInv ==
    /\ \A f \in dest : /\ f.session \in Session /\ f.version \in Nat \ {0}
                       /\ f.name[1] = Base[f.session]
                       /\ Alone(f.session) => f.name = <<Base[f.session], 1>>
    /\ \A f, g \in dest : f.name = g.name => f = g

LockInv == \A e, o \in Exporter : exp[e].at # "idle" /\ exp[o].at # "idle" => e = o

\* A copy taken of one moment shows what was stored, at least what the directory
\* shows, and is in the directory but for the sessions left.
Copied(x) ==
    /\ x.at # "sessions" => x.temp = 0
    /\ x.at = "log" /\ ~x.split => x.base = main
    /\ x.at = "sessions" =>
        /\ ~x.split =>
            /\ x.copy = x.told
            /\ \A f \in dest : Alone(f.session) =>
                  f.session \in gone \/ f.version <= x.copy[f.session]
        /\ x.left \subseteq Has(x.copy)
        /\ x.temp \in x.left \cup {0}
        /\ \A s \in Has(x.copy) \ x.left : FileFor(s, x.copy) \in dest
DatabaseCopyInv == \A e \in Exporter : Copied(exp[e])

ExportInv == ExportTypeOK /\ PastInv /\ NameInv /\ LockInv /\ DatabaseCopyInv

(***************************************************************************)
(* File names.                                                             *)
(***************************************************************************)
LEMMA NamesDiffer ==
    ASSUME NEW copy \in Version, NEW s \in Has(copy), NEW t \in Has(copy),
           FileName(s, copy) = FileName(t, copy)
    PROVE  s = t
<1> DEFINE upTo(x) == {u \in Has(copy) : Base[u] = Base[x] /\ u <= x}
<1>1. /\ s \in Nat /\ t \in Nat /\ s \in Session /\ t \in Session
      /\ Base[s] = Base[t] /\ Cardinality(upTo(s)) = Cardinality(upTo(t))
  BY ExportAssumption DEF FileName, Has
<1>2. Has(copy) \subseteq Session /\ IsFiniteSet(Has(copy)) /\ \A u \in Has(copy) : u \in Nat
  BY ExportAssumption, FS_Subset DEF Has
<1>3. IsFiniteSet(upTo(s)) /\ IsFiniteSet(upTo(t))
  BY <1>2, FS_Subset
<1>4. s \in upTo(s) /\ t \in upTo(t)
  BY <1>1
<1>5. ASSUME NEW x \in Has(copy), NEW y \in Has(copy), x <= y, Base[x] = Base[y], NEW u \in upTo(x)
      PROVE  u \in upTo(y)
  <2>1. u \in Nat /\ x \in Nat /\ y \in Nat /\ u \in Has(copy) /\ u <= x /\ Base[u] = Base[x]
    BY <1>2
  <2> QED BY <1>5, <2>1
<1>6. ASSUME s <= t PROVE s = t
  <2>1. upTo(s) \subseteq upTo(t)
    BY <1>1, <1>6, <1>5
  <2>2. upTo(t) = upTo(s)
    BY <1>1, <1>3, <2>1, FS_Subset
  <2> QED BY <1>1, <1>4, <1>6, <2>2
<1>7. ASSUME t <= s PROVE s = t
  <2>1. upTo(t) \subseteq upTo(s)
    BY <1>1, <1>7, <1>5
  <2>2. upTo(t) = upTo(s)
    BY <1>1, <1>3, <2>1, FS_Subset
  <2> QED BY <1>1, <1>4, <1>7, <2>2
<1> QED BY <1>1, <1>6, <1>7

LEMMA NamesTell ==
    ASSUME NEW copy, NEW s \in Has(copy)
    PROVE  /\ FileName(s, copy)[1] = Base[s]
           /\ Alone(s) => FileName(s, copy) = <<Base[s], 1>>
<1>1. ASSUME Alone(s)
      PROVE  {t \in Has(copy) : Base[t] = Base[s] /\ t <= s} = {s}
  <2>1. s \in Nat /\ s <= s /\ Has(copy) \subseteq Session
    BY ExportAssumption DEF Has
  <2>2. \A t \in Has(copy) : Base[t] = Base[s] => t = s
    BY <1>1, <2>1 DEF Alone
  <2> QED BY <2>1, <2>2
<1> QED BY <1>1, FS_Singleton DEF FileName

(***************************************************************************)
(* One lemma per kind of step.                                             *)
(***************************************************************************)
LEMMA StoredIsTyped ==
    ASSUME ExportTypeOK
    PROVE  Stored \in Version
BY DEF ExportTypeOK, Stored, Over, Version, Same

\* OpenCode only moves on: what was past stays past.
LEMMA HistoryHolds ==
    ASSUME ExportInv, main' \in Version, wal' \in [Session -> Nat \cup {Same}],
           gone \subseteq gone', gone' \subseteq Session, UNCHANGED <<dest, stops>>,
           \A s \in Session : s \in gone' \/ Stored[s] <= Stored'[s],
           \A s \in Session : Past(main[s], s)' ,
           exp' \in [Exporter -> ExporterState],
           \A e \in Exporter :
               /\ exp'[e] = [exp[e] EXCEPT !.split = exp'[e].split]
               /\ ~exp'[e].split => ~exp[e].split
               /\ exp'[e].at = "log" /\ ~exp'[e].split => main' = main
    PROVE  ExportInv'
<1>1. ExportTypeOK'
  BY DEF ExportInv, ExportTypeOK
<1>2. Stored \in Version /\ Stored' \in Version
  BY <1>1, StoredIsTyped DEF ExportInv, ExportTypeOK, Stored, Over, Version, Same
<1>3. ASSUME NEW s \in Session, NEW v \in Nat, Past(v, s)
      PROVE  s \in gone' \/ v <= Stored'[s]
  BY <1>2, <1>3 DEF Past, Version
<1>4. \A e \in Exporter :
          /\ exp'[e].at = exp[e].at /\ exp'[e].base = exp[e].base /\ exp'[e].copy = exp[e].copy
          /\ exp'[e].told = exp[e].told /\ exp'[e].left = exp[e].left /\ exp'[e].temp = exp[e].temp
  BY DEF ExportInv, ExportTypeOK, ExporterState
<1>5. PastInv'
  <2>1. ASSUME NEW e \in Exporter, NEW s \in Session
        PROVE  exp[e].base[s] \in Nat /\ exp[e].copy[s] \in Nat
    BY DEF ExportInv, ExportTypeOK, ExporterState, Version
  <2>2. \A f \in dest : f.session \in Session /\ f.version \in Nat
    BY DEF ExportInv, NameInv
  <2> QED BY <1>3, <1>4, <2>1, <2>2 DEF ExportInv, PastInv, Past
<1>6. NameInv'
  BY DEF ExportInv, NameInv
<1>7. LockInv'
  BY <1>4 DEF ExportInv, LockInv
<1>8. DatabaseCopyInv'
  BY <1>4 DEF ExportInv, DatabaseCopyInv, Copied
<1> QED BY <1>1, <1>5, <1>6, <1>7, <1>8 DEF ExportInv

\* A step of one exporter that leaves the directory alone.
LEMMA ExporterHolds ==
    ASSUME ExportInv, NEW e \in Exporter, NEW x \in ExporterState, exp' = [exp EXCEPT ![e] = x],
           UNCHANGED <<main, wal, gone, dest>>, stops' \in Nat,
           x.at # "idle" => \A o \in Exporter \ {e} : exp[o].at = "idle",
           \A s \in Session : Past(x.base[s], s) /\ Past(x.copy[s], s), Copied(x)
    PROVE  ExportInv'
<1>1. exp'[e] = x /\ \A o \in Exporter \ {e} : exp'[o] = exp[o]
  BY DEF ExportInv, ExportTypeOK
<1>2. ExportTypeOK'
  BY DEF ExportInv, ExportTypeOK
<1>3. PastInv'
  <2>1. \A o \in Exporter, s \in Session : Past(exp'[o].base[s], s) /\ Past(exp'[o].copy[s], s)
    BY <1>1 DEF ExportInv, PastInv
  <2> QED BY <2>1 DEF ExportInv, PastInv, Past, Stored
<1>4. NameInv'
  BY DEF ExportInv, NameInv
<1>5. LockInv'
  BY <1>1 DEF ExportInv, LockInv
<1>6. DatabaseCopyInv'
  <2>1. \A o \in Exporter : Copied(exp'[o])
    BY <1>1 DEF ExportInv, DatabaseCopyInv
  <2> QED BY <2>1 DEF DatabaseCopyInv, Copied
<1> QED BY <1>2, <1>3, <1>4, <1>5, <1>6 DEF ExportInv

\* A step of the one exporter that holds the lock, in the directory.
LEMMA DirectoryHolds ==
    ASSUME ExportInv, NEW e \in Exporter, NEW x \in ExporterState, exp' = [exp EXCEPT ![e] = x],
           UNCHANGED <<main, wal, gone, stops>>, exp[e].at = "sessions", x.at = "sessions",
           \A s \in Session : Past(x.base[s], s) /\ Past(x.copy[s], s), Copied(x)',
           \A f \in dest' : Past(f.version, f.session), NameInv'
    PROVE  ExportInv'
<1>1. exp'[e] = x /\ \A o \in Exporter \ {e} : exp'[o] = exp[o] /\ exp[o].at = "idle"
  BY DEF ExportInv, ExportTypeOK, LockInv
<1>2. ExportTypeOK'
  BY DEF ExportInv, ExportTypeOK
<1>3. PastInv'
  <2>1. \A o \in Exporter, s \in Session : Past(exp'[o].base[s], s) /\ Past(exp'[o].copy[s], s)
    BY <1>1 DEF ExportInv, PastInv
  <2> QED BY <2>1 DEF ExportInv, PastInv, Past, Stored
<1>4. LockInv'
  BY <1>1 DEF ExportInv, LockInv
<1>5. DatabaseCopyInv'
  <2>1. ASSUME NEW o \in Exporter PROVE Copied(exp[o])'
    <3>1. CASE o = e
      BY <1>1, <3>1 DEF Copied
    <3>2. CASE o # e
      BY <1>1, <3>2 DEF ExportInv, DatabaseCopyInv, Copied
    <3> QED BY <3>1, <3>2
  <2> QED BY <2>1 DEF DatabaseCopyInv
<1> QED BY <1>2, <1>3, <1>4, <1>5 DEF ExportInv

(***************************************************************************)
(* OpenCode's steps.                                                       *)
(***************************************************************************)
LEMMA OpenCodeSteps ==
    ASSUME ExportInv,
           (\E s \in Session : CommitSession(s) \/ DeleteSession(s)) \/ Checkpoint
    PROVE  ExportInv'
<1>1. Stored \in Version /\ main \in Version /\ wal \in [Session -> Nat \cup {Same}]
  BY StoredIsTyped DEF ExportInv, ExportTypeOK
<1>2. \A e \in Exporter : exp[e] = [exp[e] EXCEPT !.split = exp[e].split]
  BY DEF ExportInv, ExportTypeOK, ExporterState
<1>3. ASSUME NEW s \in Session, CommitSession(s)
      PROVE  ExportInv'
  <2>1. Stored[s] + 1 \in Nat
    BY <1>1 DEF Version
  <2>2. wal' \in [Session -> Nat \cup {Same}]
    BY <1>1, <1>3, <2>1 DEF CommitSession
  <2>3. \A t \in Session : Stored[t] <= Stored'[t]
    BY <1>1, <1>3, <2>1 DEF CommitSession, Stored, Over, Version, Same
  <2>4. \A t \in Session : Past(main[t], t)'
    <3>1. \A t \in Session : /\ Past(main[t], t) /\ main[t] \in Nat
                             /\ Stored[t] \in Nat /\ Stored'[t] \in Nat
      BY <1>1, <2>2, <1>3 DEF ExportInv, PastInv, Version, Stored, Over, Same, CommitSession
    <3>2. \A t \in Session : main'[t] = main[t] /\ gone' = gone
      BY <1>3 DEF CommitSession
    <3> QED BY <3>1, <3>2, <2>3 DEF Past
  <2>5. exp' = exp /\ gone' = gone /\ main' = main /\ UNCHANGED <<dest, stops>>
    BY <1>3 DEF CommitSession
  <2>6. \A e \in Exporter :
            /\ exp'[e] = [exp[e] EXCEPT !.split = exp'[e].split]
            /\ ~exp'[e].split => ~exp[e].split
            /\ exp'[e].at = "log" /\ ~exp'[e].split => main' = main
    BY <1>2, <2>5
  <2>7. gone \subseteq gone' /\ gone' \subseteq Session /\ exp' \in [Exporter -> ExporterState]
        /\ main' \in Version
    BY <1>1, <2>5 DEF ExportInv, ExportTypeOK
  <2> QED BY <2>2, <2>3, <2>4, <2>5, <2>6, <2>7, HistoryHolds
<1>4. ASSUME NEW s \in Session, DeleteSession(s)
      PROVE  ExportInv'
  <2>2. wal' \in [Session -> Nat \cup {Same}]
    BY <1>1, <1>4 DEF DeleteSession
  <2>3. \A t \in Session : t \in gone' \/ Stored[t] <= Stored'[t]
    BY <1>1, <1>4 DEF DeleteSession, Stored, Over, Version, Same
  <2>4. \A t \in Session : Past(main[t], t)'
    <3>1. \A t \in Session : /\ Past(main[t], t) /\ main[t] \in Nat
                             /\ Stored[t] \in Nat /\ Stored'[t] \in Nat
      BY <1>1, <2>2, <1>4 DEF ExportInv, PastInv, Version, Stored, Over, Same, DeleteSession
    <3>2. \A t \in Session : main'[t] = main[t] /\ (t \in gone => t \in gone')
      BY <1>4 DEF DeleteSession
    <3> QED BY <3>1, <3>2, <2>3 DEF Past
  <2>5. exp' = exp /\ gone' = gone \cup {s} /\ main' = main /\ UNCHANGED <<dest, stops>>
    BY <1>4 DEF DeleteSession
  <2>6. \A e \in Exporter :
            /\ exp'[e] = [exp[e] EXCEPT !.split = exp'[e].split]
            /\ ~exp'[e].split => ~exp[e].split
            /\ exp'[e].at = "log" /\ ~exp'[e].split => main' = main
    BY <1>2, <2>5
  <2>7. gone \subseteq gone' /\ gone' \subseteq Session /\ exp' \in [Exporter -> ExporterState]
        /\ main' \in Version
    BY <1>1, <2>5 DEF ExportInv, ExportTypeOK
  <2> QED BY <2>2, <2>3, <2>4, <2>5, <2>6, <2>7, HistoryHolds
<1>5. ASSUME Checkpoint PROVE ExportInv'
  <2>1. main' = Stored /\ wal' = NoChange /\ UNCHANGED <<gone, dest, stops>>
        /\ \A e \in Exporter : exp'[e] = [exp[e] EXCEPT !.split = @ \/ exp[e].at = "log"]
    BY <1>5 DEF Checkpoint
  <2>2. wal' \in [Session -> Nat \cup {Same}]
    BY <2>1 DEF NoChange
  <2>3. Stored' = Stored
    BY <1>1, <2>1 DEF Stored, Over, NoChange, Version
  <2>4. \A t \in Session : Past(main[t], t)'
    BY <1>1, <2>1, <2>3 DEF Past, Version
  <2>5. \A t \in Session : Stored[t] <= Stored'[t]
    BY <1>1, <2>3 DEF Version
  <2>6. \A e \in Exporter :
            /\ exp'[e] = [exp[e] EXCEPT !.split = exp'[e].split]
            /\ exp'[e].split = (exp[e].split \/ exp[e].at = "log")
    BY <2>1 DEF ExportInv, ExportTypeOK, ExporterState
  <2>7. \A e \in Exporter :
            /\ ~exp'[e].split => ~exp[e].split
            /\ exp'[e].at = "log" /\ ~exp'[e].split => main' = main
    <3>1. \A e \in Exporter : exp'[e].at = exp[e].at
      BY <2>1 DEF ExportInv, ExportTypeOK, ExporterState
    <3> QED BY <2>6, <3>1
  <2>8. exp' \in [Exporter -> ExporterState]
    <3>1. exp' = [e \in Exporter |-> [exp[e] EXCEPT !.split = @ \/ exp[e].at = "log"]]
      BY <1>5 DEF Checkpoint
    <3>2. ASSUME NEW e \in Exporter
          PROVE  [exp[e] EXCEPT !.split = @ \/ exp[e].at = "log"] \in ExporterState
      <4>1. exp[e] \in ExporterState /\ (exp[e].split \/ exp[e].at = "log") \in BOOLEAN
        BY DEF ExportInv, ExportTypeOK
      <4> QED BY <4>1 DEF ExporterState
    <3> QED BY <3>1, <3>2
  <2>9. gone \subseteq gone' /\ gone' \subseteq Session /\ main' \in Version
    BY <1>1, <2>1 DEF ExportInv, ExportTypeOK
  <2> QED BY <2>1, <2>2, <2>4, <2>5, <2>6, <2>7, <2>8, <2>9, HistoryHolds
<1> QED BY <1>3, <1>4, <1>5

(***************************************************************************)
(* An exporter's steps.                                                    *)
(***************************************************************************)
LEMMA ExporterSteps ==
    ASSUME ExportInv, NEW e \in Exporter,
           \/ LockExport(e) \/ CopyDatabase(e) \/ CopyLog(e)
           \/ (\E s \in Session : WriteTemp(e, s)) \/ ExportReturns(e) \/ StopExport(e)
    PROVE  ExportInv'
<1> DEFINE x == exp[e]
<1>1. x \in ExporterState /\ Copied(x) /\ stops \in Nat
      /\ \A s \in Session : Past(x.base[s], s) /\ Past(x.copy[s], s)
  BY DEF ExportInv, ExportTypeOK, DatabaseCopyInv, PastInv
<1>2. x.at # "idle" => \A o \in Exporter \ {e} : exp[o].at = "idle"
  BY DEF ExportInv, LockInv
<1>3. Stored \in Version /\ main \in Version /\ wal \in [Session -> Nat \cup {Same}]
  BY StoredIsTyped DEF ExportInv, ExportTypeOK
<1>4. /\ NotRunning \in ExporterState /\ Copied(NotRunning) /\ NotRunning.at = "idle"
      /\ \A s \in Session : Past(NotRunning.base[s], s) /\ Past(NotRunning.copy[s], s)
  <2>1. FALSE \in BOOLEAN /\ NoSessions \in Version
    BY DEF NoSessions, Version
  <2>2. NotRunning \in ExporterState /\ Copied(NotRunning) /\ NotRunning.at = "idle"
    BY <2>1 DEF NotRunning, ExporterState, Copied
  <2>3. \A s \in Session : NotRunning.base[s] = 0 /\ NotRunning.copy[s] = 0 /\ Stored[s] \in Nat
    BY <1>3 DEF NotRunning, NoSessions, Version
  <2> QED BY <2>2, <2>3 DEF Past
<1>5. ASSUME LockExport(e) PROVE ExportInv'
  <2> DEFINE y == [x EXCEPT !.at = "db"]
  <2>1. exp' = [exp EXCEPT ![e] = y]
    BY <1>5, <1>1 DEF LockExport, ExportInv, ExportTypeOK
  <2>2. y \in ExporterState /\ y.at = "db" /\ y.base = x.base /\ y.copy = x.copy
        /\ y.temp = x.temp
    BY <1>1 DEF ExporterState
  <2>3. Copied(y)
    BY <1>1, <1>5, <2>2 DEF Copied, LockExport
  <2>4. \A o \in Exporter \ {e} : exp[o].at = "idle"
    BY <1>5 DEF LockExport
  <2>5. UNCHANGED <<main, wal, gone, dest>> /\ stops' \in Nat
    BY <1>5, <1>1 DEF LockExport
  <2>6. \A s \in Session : Past(y.base[s], s) /\ Past(y.copy[s], s)
    BY <1>1, <2>2
  <2> HIDE DEF y
  <2> QED BY <2>1, <2>2, <2>3, <2>4, <2>5, <2>6, ExporterHolds
<1>6. ASSUME CopyDatabase(e) PROVE ExportInv'
  <2> DEFINE y == [x EXCEPT !.base = main, !.at = "log"]
  <2>1. exp' = [exp EXCEPT ![e] = y]
    BY <1>6, <1>1 DEF CopyDatabase, ExportInv, ExportTypeOK
  <2>2. y \in ExporterState /\ y.at = "log" /\ y.base = main /\ y.copy = x.copy
        /\ y.temp = x.temp
    BY <1>1, <1>3 DEF ExporterState
  <2>3. Copied(y)
    BY <1>1, <1>6, <2>2 DEF Copied, CopyDatabase
  <2>4. \A o \in Exporter \ {e} : exp[o].at = "idle"
    BY <1>2, <1>6 DEF CopyDatabase
  <2>5. UNCHANGED <<main, wal, gone, dest>> /\ stops' \in Nat
    BY <1>6, <1>1 DEF CopyDatabase
  <2>6. \A s \in Session : Past(y.base[s], s) /\ Past(y.copy[s], s)
    BY <1>1, <2>2 DEF ExportInv, PastInv
  <2> HIDE DEF y
  <2> QED BY <2>1, <2>2, <2>3, <2>4, <2>5, <2>6, ExporterHolds
<1>7. ASSUME CopyLog(e) PROVE ExportInv'
  <2> DEFINE c == Over(x.base, wal)
             y == [x EXCEPT !.base = NoSessions, !.copy = c, !.told = Stored,
                            !.left = Has(c), !.at = "sessions"]
  <2>1. exp' = [exp EXCEPT ![e] = y]
    BY <1>7, <1>1 DEF CopyLog, ExportInv, ExportTypeOK
  <2>2. x.base \in Version /\ x.at = "log" /\ x.temp \in Session \cup {0}
    BY <1>1, <1>7 DEF CopyLog, ExporterState
  <2>3. c \in Version /\ NoSessions \in Version /\ Has(c) \subseteq Session
    BY <1>3, <2>2 DEF Over, Version, Same, NoSessions, Has
  <2>4. /\ y \in ExporterState /\ y.at = "sessions" /\ y.base = NoSessions /\ y.copy = c
        /\ y.told = Stored /\ y.left = Has(c) /\ y.split = x.split /\ y.temp = x.temp
    BY <1>1, <1>3, <2>3 DEF ExporterState
  <2>5. ASSUME ~x.split PROVE c = Stored
    BY <1>1, <2>2, <2>5 DEF Copied, Stored
  <2>6. x.temp = 0
    BY <1>1, <2>2 DEF Copied
  <2>7. ASSUME ~x.split, NEW f \in dest, Alone(f.session)
        PROVE  f.session \in gone \/ f.version <= c[f.session]
    BY <2>5, <2>7 DEF ExportInv, PastInv, Past
  <2>8. Copied(y)
    BY <2>4, <2>5, <2>6, <2>7 DEF Copied
  <2>9. \A o \in Exporter \ {e} : exp[o].at = "idle"
    BY <1>2, <2>2
  <2>10. UNCHANGED <<main, wal, gone, dest>> /\ stops' \in Nat
    BY <1>7, <1>1 DEF CopyLog
  <2>11. \A s \in Session : Past(y.base[s], s) /\ Past(y.copy[s], s)
    <3>1. ASSUME NEW s \in Session PROVE Past(c[s], s)
      <4>1. /\ Past(x.base[s], s) /\ x.base[s] \in Nat /\ Stored[s] \in Nat
            /\ c[s] = IF wal[s] = Same THEN x.base[s] ELSE wal[s]
            /\ Stored[s] = IF wal[s] = Same THEN main[s] ELSE wal[s]
        BY <1>1, <1>3, <2>2 DEF Over, Stored, Version
      <4> QED BY <4>1 DEF Past
    <3>2. ASSUME NEW s \in Session PROVE Past(NoSessions[s], s)
      BY <1>3 DEF NoSessions, Past, Version
    <3> HIDE DEF c, y
    <3> QED BY <2>4, <3>1, <3>2
  <2> HIDE DEF y
  <2> QED BY <2>1, <2>4, <2>8, <2>9, <2>10, <2>11, ExporterHolds
<1>8. ASSUME NEW s \in Session, WriteTemp(e, s) PROVE ExportInv'
  <2> DEFINE y == [x EXCEPT !.temp = s]
  <2>1. exp' = [exp EXCEPT ![e] = y]
    BY <1>8, <1>1 DEF WriteTemp, ExportInv, ExportTypeOK
  <2>2. /\ y \in ExporterState /\ y.at = x.at /\ y.base = x.base /\ y.copy = x.copy
        /\ y.told = x.told /\ y.left = x.left /\ y.split = x.split /\ y.temp = s
    BY <1>1 DEF ExporterState
  <2>3. x.at = "sessions" /\ s \in x.left
    BY <1>8 DEF WriteTemp
  <2>4. Copied(y)
    BY <1>1, <2>2, <2>3 DEF Copied
  <2>5. UNCHANGED <<main, wal, gone, dest>> /\ stops' \in Nat
    BY <1>8, <1>1 DEF WriteTemp
  <2>6. \A t \in Session : Past(y.base[t], t) /\ Past(y.copy[t], t)
    BY <1>1, <2>2
  <2> HIDE DEF y
  <2> QED BY <1>2, <2>1, <2>2, <2>3, <2>4, <2>5, <2>6, ExporterHolds
<1>9. ASSUME ExportReturns(e) \/ StopExport(e) PROVE ExportInv'
  <2>1. exp' = [exp EXCEPT ![e] = NotRunning] /\ UNCHANGED <<main, wal, gone, dest>> /\ stops' \in Nat
    BY <1>9, <1>1 DEF ExportReturns, StopExport
  <2> QED BY <1>4, <2>1, ExporterHolds
<1> QED BY <1>5, <1>6, <1>7, <1>8, <1>9

(***************************************************************************)
(* The directory's steps.                                                  *)
(***************************************************************************)
LEMMA CommitFileHolds ==
    ASSUME ExportInv, NEW e \in Exporter, CommitFile(e)
    PROVE  ExportInv'
<1> DEFINE x == exp[e]
           c == x.copy
           s == x.temp
           nf == FileFor(s, c)
<1>. PICK y : y = [x EXCEPT !.temp = 0, !.left = @ \ {s}]
  OBVIOUS
<1>1. x \in ExporterState /\ Copied(x) /\ x.at = "sessions" /\ s # 0
      /\ \A t \in Session : Past(x.base[t], t) /\ Past(c[t], t)
  BY DEF ExportInv, ExportTypeOK, DatabaseCopyInv, PastInv, CommitFile
<1>2. s \in Session /\ s \in x.left /\ s \in Has(c) /\ c \in Version /\ c[s] \in Nat \ {0}
  BY <1>1 DEF Copied, Has, ExporterState, Version
<1>3. /\ y \in ExporterState /\ y.at = "sessions" /\ y.base = x.base /\ y.copy = c
      /\ y.told = x.told /\ y.left = x.left \ {s} /\ y.split = x.split /\ y.temp = 0
  BY <1>1 DEF ExporterState
<1>4. /\ exp' = [exp EXCEPT ![e] = y] /\ UNCHANGED <<main, wal, gone, stops>>
      /\ dest' = {f \in dest : f.name # nf.name} \cup {nf}
  <2>1. exp' = [exp EXCEPT ![e] = y]
    BY <1>1 DEF CommitFile, ExportInv, ExportTypeOK
  <2>2. dest' = {f \in dest : f.name # nf.name} \cup {nf} /\ UNCHANGED <<main, wal, gone, stops>>
    BY DEF CommitFile, Put, FileFor
  <2> QED BY <2>1, <2>2
<1>5. /\ nf.name = FileName(s, c) /\ nf.session = s /\ nf.version = c[s]
      /\ nf.name[1] = Base[s] /\ (Alone(s) => nf.name = <<Base[s], 1>>)
  BY <1>2, NamesTell DEF FileFor
<1>6. \A f \in dest' : Past(f.version, f.session)
  BY <1>1, <1>2, <1>4, <1>5 DEF ExportInv, PastInv
<1>7. NameInv'
  <2>1. ASSUME NEW f \in dest'
        PROVE  /\ f.session \in Session /\ f.version \in Nat \ {0}
               /\ f.name[1] = Base[f.session]
               /\ Alone(f.session) => f.name = <<Base[f.session], 1>>
    <3>1. CASE f \in dest
      BY <3>1 DEF ExportInv, NameInv
    <3>2. CASE f = nf
      BY <3>2, <1>2, <1>5
    <3> QED BY <1>4, <3>1, <3>2
  <2>2. \A f, g \in dest' : f.name = g.name => f = g
    BY <1>4 DEF ExportInv, NameInv
  <2> QED BY <2>1, <2>2 DEF NameInv, Alone
<1>8. Copied(y)'
  <2>1. ASSUME ~x.split
        PROVE  /\ c = x.told
               /\ \A f \in dest' : Alone(f.session) =>
                     f.session \in gone \/ f.version <= c[f.session]
    <3>1. /\ c = x.told
          /\ \A f \in dest : Alone(f.session) => f.session \in gone \/ f.version <= c[f.session]
      BY <1>1, <2>1 DEF Copied
    <3>2. nf.version <= c[nf.session]
      BY <1>2, <1>5
    <3> QED BY <1>4, <3>1, <3>2
  <2>2. x.left \ {s} \subseteq Has(c)
    BY <1>1 DEF Copied
  <2>3. ASSUME NEW t \in Has(c) \ (x.left \ {s})
        PROVE  FileFor(t, c) \in dest'
    <3>1. CASE t = s
      BY <3>1, <1>4
    <3>2. CASE t # s
      <4>1. FileFor(t, c) \in dest /\ FileFor(t, c).name = FileName(t, c)
        BY <1>1, <2>3, <3>2 DEF Copied, FileFor
      <4>2. FileName(t, c) # FileName(s, c)
        BY <1>2, <2>3, <3>2, NamesDiffer
      <4> QED BY <1>4, <1>5, <4>1, <4>2
    <3> QED BY <3>1, <3>2
  <2>4. /\ y.at = "sessions" /\ y.copy = c /\ y.told = x.told /\ y.left = x.left \ {s}
        /\ y.split = x.split /\ y.temp = 0 /\ UNCHANGED <<main, gone>>
    BY <1>3, <1>4
  <2> HIDE DEF nf, c, x, s
  <2> QED BY <2>1, <2>2, <2>3, <2>4 DEF Copied
<1> QED BY <1>1, <1>3, <1>4, <1>6, <1>7, <1>8, DirectoryHolds

LEMMA PruneFileHolds ==
    ASSUME ExportInv, NEW e \in Exporter, NEW g \in dest, PruneFile(e, g)
    PROVE  ExportInv'
<1>. PICK x : x = exp[e]
  OBVIOUS
<1>1. x \in ExporterState /\ Copied(x) /\ x.at = "sessions"
      /\ \A t \in Session : Past(x.base[t], t) /\ Past(x.copy[t], t)
  BY DEF ExportInv, ExportTypeOK, DatabaseCopyInv, PastInv, PruneFile
<1>2. exp' = [exp EXCEPT ![e] = x] /\ UNCHANGED <<main, wal, gone, stops>> /\ dest' = dest \ {g}
  BY DEF PruneFile, ExportInv, ExportTypeOK
<1>3. \A f \in dest' : Past(f.version, f.session)
  BY <1>2 DEF ExportInv, PastInv
<1>4. NameInv'
  BY <1>2 DEF ExportInv, NameInv
<1>5. \A t \in Has(x.copy) : FileFor(t, x.copy) # g
  BY DEF PruneFile, Kept, FileFor
<1>6. Copied(x)'
  BY <1>1, <1>2, <1>5 DEF Copied
<1> QED BY <1>1, <1>2, <1>3, <1>4, <1>6, DirectoryHolds

LEMMA ExportStarts ==
    ASSUME ExportInit
    PROVE  ExportInv
<1>1. FALSE \in BOOLEAN /\ NoSessions \in Version /\ main \in Version
  BY DEF ExportInit, NoSessions, Version
<1>2. ExportTypeOK
  BY <1>1 DEF ExportInit, ExportTypeOK, NoChange, NotRunning, ExporterState
<1>3. \A s \in Session : Stored[s] = main[s] /\ main[s] \in Nat
  BY <1>1 DEF ExportInit, NoChange, Stored, Over, Version
<1>4. PastInv
  BY <1>3 DEF ExportInit, PastInv, Past, NotRunning, NoSessions
<1>5. NameInv /\ LockInv
  BY DEF ExportInit, NameInv, LockInv, NotRunning
<1>6. DatabaseCopyInv
  BY DEF ExportInit, DatabaseCopyInv, Copied, NotRunning
<1> QED BY <1>2, <1>4, <1>5, <1>6 DEF ExportInv

LEMMA ExportStep ==
    ASSUME ExportInv, [ExportNext]_exportVars
    PROVE  ExportInv'
<1>1. CASE UNCHANGED exportVars
  BY <1>1 DEF exportVars, ExportInv, ExportTypeOK, PastInv, Past, Stored, NameInv, LockInv,
              DatabaseCopyInv, Copied
<1>2. CASE ExportNext
  BY <1>2, OpenCodeSteps, ExporterSteps, CommitFileHolds, PruneFileHolds DEF ExportNext
<1> QED BY <1>1, <1>2

\* The invariant of an export: one exporter at a time, which holds a copy no
\* newer than OpenCode's data and has written its files under names of their own.
THEOREM ExportInvariant == ExportSpec => []ExportInv
BY ExportStarts, ExportStep, PTL DEF ExportSpec

(***************************************************************************)
(* What an export promises.                                                *)
(***************************************************************************)
LEMMA ReturnsTell ==
    ASSUME ExportInv, NEW e \in Exporter, ExportReturns(e), ~exp[e].split
    PROVE  Tells(exp[e].told) /\ Cardinality(dest) = Cardinality(Has(exp[e].told))
<1> DEFINE c == exp[e].copy
           file == [s \in Has(c) |-> FileFor(s, c)]
<1>1. Copied(exp[e]) /\ exp[e].at = "sessions" /\ exp[e].left = {} /\ c = exp[e].told
  BY DEF ExportInv, DatabaseCopyInv, ExportReturns, Copied
<1>2. c \in Version /\ IsFiniteSet(Has(c))
  <2>1. c \in Version
    BY DEF ExportInv, ExportTypeOK, ExporterState
  <2> QED BY <2>1, ExportAssumption, FS_Subset DEF Has
<1>3. \A s \in Has(c) : file[s] \in dest /\ file[s].session = s /\ file[s].version = c[s]
                        /\ file[s].name = FileName(s, c)
  BY <1>1 DEF Copied, FileFor
<1>4. \A f \in dest : \E s \in Has(c) : f = file[s]
  <2>1. ASSUME NEW f \in dest PROVE \E s \in Has(c) : f = file[s]
    <3>1. PICK s \in Has(c) : f.name = FileName(s, c)
      BY DEF ExportReturns, Kept
    <3>2. f = file[s]
      BY <1>3, <3>1 DEF ExportInv, NameInv
    <3> QED BY <3>2
  <2> QED BY <2>1
<1> HIDE DEF file
<1>5. Tells(c)
  <2>1. \A f \in dest : \E s \in Has(c) : <<f.session, f.version>> = <<s, c[s]>>
    BY <1>3, <1>4
  <2>2. \A s \in Has(c) : \E f \in dest : <<f.session, f.version>> = <<s, c[s]>>
    BY <1>3
  <2> HIDE DEF c
  <2> QED BY <2>1, <2>2 DEF Tells
<1>6. Cardinality(dest) = Cardinality(Has(c))
  <2>1. file \in Bijection(Has(c), dest)
    <3>1. file \in [Has(c) -> dest]
      <4>1. file = [s \in Has(c) |-> file[s]]
        BY DEF file
      <4> QED BY <1>3, <4>1
    <3>2. \A s, t \in Has(c) : file[s] = file[t] => s = t
      BY <1>3
    <3> QED BY <1>4, <3>1, <3>2 DEF Bijection, Injection, IsInjective, Surjection
  <2>2. ExistsBijection(Has(c), dest)
    BY <2>1 DEF ExistsBijection
  <2> QED BY <1>2, <2>2, FS_Bijection
<1> QED BY <1>1, <1>5, <1>6

LEMMA TellsStep ==
    ASSUME ExportInv, ExportNext, NEW e \in Exporter,
           exp[e].at = "sessions", exp'[e].at = "idle", stops' = stops
    PROVE  ExportReturns(e)
<1>1. exp \in [Exporter -> ExporterState] /\ stops \in Nat
  BY DEF ExportInv, ExportTypeOK
<1>2. ~((\E s \in Session : CommitSession(s) \/ DeleteSession(s)) \/ Checkpoint)
  BY <1>1 DEF CommitSession, DeleteSession, Checkpoint, ExporterState
<1>3. ASSUME NEW o \in Exporter,
             \/ LockExport(o) \/ CopyDatabase(o) \/ CopyLog(o)
             \/ (\E s \in Session : WriteTemp(o, s)) \/ CommitFile(o)
             \/ (\E f \in dest : PruneFile(o, f)) \/ StopExport(o)
      PROVE  FALSE
  BY <1>1, <1>3 DEF LockExport, CopyDatabase, CopyLog, WriteTemp, CommitFile, PruneFile,
                    StopExport, ExporterState
<1>4. ASSUME NEW o \in Exporter, ExportReturns(o)
      PROVE  o = e
  BY <1>1, <1>4 DEF ExportReturns, ExporterState
<1> QED BY <1>2, <1>3, <1>4 DEF ExportNext

\* An export that returns has brought the directory in line with what OpenCode
\* stored when its log was copied.
THEOREM ExportsTell == ExportSpec => ExportTells
<1>1. ASSUME ExportInv, [ExportNext]_exportVars
      PROVE  [\A e \in Exporter :
                 exp[e].at = "sessions" /\ exp'[e].at = "idle" /\ stops' = stops /\ ~exp[e].split
                 => Tells(exp[e].told)
                    /\ Cardinality(dest) = Cardinality(Has(exp[e].told))]_exportVars
  BY <1>1, TellsStep, ReturnsTell
<1> QED BY <1>1, ExportInvariant, PTL DEF ExportSpec, ExportTells

LEMMA StaysHeld ==
    ASSUME ExportInv, ExportNext, NEW s \in Session, Alone(s), NEW f \in dest, f.session = s,
           \A e \in Exporter : ~exp[e].split
    PROVE  s \in gone \/ \E g \in dest' : g.session = s /\ g.version >= f.version
<1>1. f.version \in Nat /\ f.name = <<Base[s], 1>>
  BY DEF ExportInv, NameInv
<1>2. ASSUME f \in dest'
      PROVE  \E g \in dest' : g.session = s /\ g.version >= f.version
  BY <1>1, <1>2
<1>3. ASSUME NEW e \in Exporter, CommitFile(e), f \notin dest', s \notin gone
      PROVE  \E g \in dest' : g.session = s /\ g.version >= f.version
  <2> DEFINE c == exp[e].copy
             t == exp[e].temp
             nf == FileFor(t, c)
  <2>1. nf \in dest' /\ f.name = nf.name
    BY <1>3 DEF CommitFile, Put, FileFor
  <2>2. t \in Has(c) /\ t \in Session /\ f.version <= c[s] /\ c[s] \in Nat
    BY <1>3 DEF CommitFile, ExportInv, DatabaseCopyInv, Copied, Has, ExportTypeOK, ExporterState, Version
  <2>3. Base[t] = Base[s]
    BY <1>1, <2>1, <2>2, NamesTell DEF FileFor
  <2>4. t = s
    BY <2>2, <2>3 DEF Alone
  <2>5. nf.session = s /\ nf.version = c[s]
    BY <2>4 DEF FileFor
  <2> QED BY <1>1, <2>1, <2>2, <2>5
<1>4. ASSUME NEW e \in Exporter, NEW h \in dest, PruneFile(e, h), f \notin dest', s \notin gone
      PROVE  FALSE
  <2> DEFINE c == exp[e].copy
  <2>1. h = f
    BY <1>4 DEF PruneFile
  <2>2. f.version <= c[s] /\ f.version # 0 /\ c[s] \in Nat
    BY <1>4 DEF PruneFile, ExportInv, DatabaseCopyInv, Copied, NameInv, ExportTypeOK, ExporterState, Version
  <2>3. s \in Has(c)
    BY <1>1, <2>2 DEF Has
  <2>4. FileName(s, c) = <<Base[s], 1>>
    BY <2>3, NamesTell
  <2> QED BY <1>1, <1>4, <2>1, <2>3, <2>4 DEF PruneFile, Kept
<1>5. \/ dest' = dest
      \/ \E e \in Exporter : CommitFile(e) \/ \E h \in dest : PruneFile(e, h)
  BY DEF ExportNext, CommitSession, DeleteSession, Checkpoint, LockExport, CopyDatabase, CopyLog,
         WriteTemp, ExportReturns, StopExport
<1> QED BY <1>2, <1>3, <1>4, <1>5

\* No session's file disappears or goes back in time, wherever exports stop.
THEOREM NoSessionVanishes == ExportSpec => NothingVanishes
<1>1. ASSUME ExportInv, [ExportNext]_exportVars
      PROVE  [\A s \in Session :
                 Alone(s) /\ Held(dest, s) # {} /\ (\A e \in Exporter : ~exp[e].split)
                 => \/ s \in gone
                    \/ \E v \in Held(dest', s) : \A w \in Held(dest, s) : v >= w]_exportVars
  <2>1. ASSUME ExportNext, NEW s \in Session, Alone(s), Held(dest, s) # {},
               \A e \in Exporter : ~exp[e].split, s \notin gone
        PROVE  \E v \in Held(dest', s) : \A w \in Held(dest, s) : v >= w
    <3>1. PICK f \in dest : f.session = s
      BY <2>1 DEF Held
    <3>2. PICK g \in dest' : g.session = s /\ g.version >= f.version
      BY <1>1, <2>1, <3>1, StaysHeld
    <3>3. \A h \in dest : h.session = s => h = f
      BY <1>1, <2>1, <3>1 DEF ExportInv, NameInv
    <3>4. g.version \in Held(dest', s) /\ \A w \in Held(dest, s) : w = f.version
      BY <3>2, <3>3 DEF Held
    <3> QED BY <3>2, <3>4
  <2> QED BY <1>1, <2>1
<1> QED BY <1>1, ExportInvariant, PTL DEF ExportSpec, NothingVanishes
=============================================================================
