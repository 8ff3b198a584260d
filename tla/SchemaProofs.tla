---------------------------- MODULE SchemaProofs ----------------------------
(***************************************************************************)
(* Proofs about Schema: that a database open for writing is whole, for any *)
(* rows and any recorded version, wherever earlier openers were killed.    *)
(***************************************************************************)
EXTENDS Schema, FiniteSetTheorems, TLAPS

(***************************************************************************)
(* What is to hold in the end.  A statement makes a fact or breaks it; a   *)
(* fact will hold after the statements left when it holds and none of them *)
(* breaks it, or one of them makes it and none after that breaks it.       *)
(***************************************************************************)
Rows0 == Message \cup Artifact \cup Subject

WsType(w) ==
    w \in [stored : SUBSET Rows0, built : [Derived -> SUBSET Rows0], legacy : SUBSET Rows0,
           triggers : SUBSET Triggers, shape : {"none", "old", "new"},
           episodes : {"none", "old", "new"}, columns : SUBSET Columns, applied : SUBSET Nat]

Plain(w) ==
    {Do("create_table", "calls"), Do("create_table", "episodes"), Do("drop_table", "episodes"),
     Do("rename", "calls"), Do("copy", "calls")}
        \cup {Do("fill", t) : t \in {"message", "artifact", "tokens"}}
        \cup {Do("empty", t) : t \in {"message", "artifact"}}
        \cup {Do("create_trigger", t) : t \in Triggers}
        \cup {Do("drop_trigger", t) : t \in Triggers}
        \cup {Do("add_columns", v) : v \in Columns}
        \cup {Do("calls", x) : x \in Wanted(w, "calls")} \cup {Do("episodes", x) : x \in Wanted(w, "episodes")}

Makers(t, x) == {Do("fill", t), Do(t, x)}
Breakers(t) == {Do("empty", t), Do("drop_table", t), Do("rename", t)}

Holds(now, s, makers, breakers) ==
    \/ now /\ \A i \in DOMAIN s : s[i] \notin breakers
    \/ \E i \in DOMAIN s : /\ s[i] \in makers
                           /\ \A j \in DOMAIN s : j > i => s[j] \notin breakers

\* One statement of a migration, on each part of the database.
OnTables(w, st, e) ==
    /\ \A t \in Derived : e.built[t] \subseteq Wanted(w, t)
    /\ e.legacy \subseteq Wanted(w, "calls")
    /\ \A t \in Derived : \A x \in Wanted(w, t) :
          st \in Makers(t, x) \/ (x \in w.built[t] /\ st \notin Breakers(t)) => x \in e.built[t]
OnTriggers(w, st, e) ==
    \A t \in Triggers :
        st = Do("create_trigger", t) \/ (t \in w.triggers /\ st # Do("drop_trigger", t)) => t \in e.triggers
OnShapes(w, st, e) ==
    /\ (st = Do("create_table", "calls") /\ w.shape # "old") \/ (w.shape = "new" /\ st # Do("rename", "calls"))
         => e.shape = "new"
    /\ e.shape = "old" => w.shape = "old" /\ st # Do("rename", "calls")
    /\ st = Do("create_table", "episodes") \/ (w.episodes = "new" /\ st # Do("drop_table", "episodes"))
         => e.episodes = "new"
    /\ \A v \in Columns : st = Do("add_columns", v) \/ v \in w.columns => v \in e.columns
EffectParts(w, st, e) ==
    /\ WsType(e) /\ e.stored = w.stored /\ e.applied = w.applied
    /\ OnTables(w, st, e) /\ OnTriggers(w, st, e) /\ OnShapes(w, st, e)

\* The fields of a statement.
LEMMA DoIs == \A a, b : Do(a, b).do = a /\ Do(a, b).on = b
BY DEF Do

\* What one statement does to the tables, triggers and shapes, fact by fact.
LEMMA EffectHas ==
    ASSUME NEW w, WsType(w), \A t \in Derived : w.built[t] \subseteq Wanted(w, t),
           w.legacy \subseteq Wanted(w, "calls"), NEW st \in Plain(w)
    PROVE  EffectParts(w, st, Effect(w, st))
<1> DEFINE e == Effect(w, st)
<1>1. /\ w \in [stored : SUBSET Rows0, built : [Derived -> SUBSET Rows0], legacy : SUBSET Rows0,
                triggers : SUBSET Triggers, shape : {"none", "old", "new"},
                episodes : {"none", "old", "new"}, columns : SUBSET Columns, applied : SUBSET Nat]
      /\ \A t \in Derived : w.built[t] \in SUBSET Rows0 /\ Wanted(w, t) \in SUBSET Rows0
      /\ \A t \in Derived : w.built[t] \subseteq Wanted(w, t)
      /\ w.legacy \subseteq Wanted(w, "calls")
  BY DEF WsType, Wanted
<1>2. CASE st = Do("create_table", "calls")
  <2>1. CASE w.shape = "none"
    <3>1. e = [w EXCEPT !.shape = "new"]
      BY <1>2, <2>1 DEF Effect, Do
    <3>2. WsType(e) /\ OnTables(w, st, e)
      BY <1>1, <1>2, <2>1, <3>1, DoIs DEF WsType, OnTables, Makers, Breakers, Triggers, Derived
    <3> QED BY <1>1, <1>2, <2>1, <3>1, <3>2, DoIs DEF EffectParts, OnTriggers, OnShapes
  <2>2. CASE w.shape # "none"
    <3>1. e = w
      BY <1>2, <2>2 DEF Effect, Do
    <3>2. WsType(e) /\ OnTables(w, st, e)
      BY <1>1, <1>2, <2>2, <3>1, DoIs DEF WsType, OnTables, Makers, Breakers, Triggers, Derived
    <3> QED BY <1>1, <1>2, <2>2, <3>1, <3>2, DoIs DEF EffectParts, OnTriggers, OnShapes
  <2> QED BY <2>1, <2>2
<1>3. CASE st = Do("create_table", "episodes")
  <2>1. e = [w EXCEPT !.episodes = "new"]
    BY <1>3 DEF Effect, Do
  <2>2. WsType(e) /\ OnTables(w, st, e)
    BY <1>1, <1>3, <2>1, DoIs DEF WsType, OnTables, Makers, Breakers, Triggers, Derived
  <2> QED BY <1>1, <1>3, <2>1, <2>2, DoIs DEF EffectParts, OnTriggers, OnShapes
<1>4. CASE st = Do("drop_table", "episodes")
  <2>1. e = [w EXCEPT !.built = [w.built EXCEPT !.episodes = {}], !.episodes = "none"]
    BY <1>4 DEF Effect, Do
  <2>2. [w.built EXCEPT !.episodes = {}] \in [Derived -> SUBSET Rows0]
    BY <1>1 DEF Derived
  <2>3. /\ e.stored = w.stored /\ e.built = [w.built EXCEPT !.episodes = {}] /\ e.legacy = w.legacy
        /\ e.triggers = w.triggers /\ e.shape = w.shape /\ e.episodes = "none"
        /\ e.columns = w.columns /\ e.applied = w.applied
    BY <1>1, <2>1
  <2>4. WsType(e)
    BY <1>1, <2>1, <2>2, <2>3 DEF WsType, Derived
  <2> HIDE DEF e
  <2>5. OnTables(w, st, e)
    BY <1>1, <1>4, <2>3, DoIs DEF OnTables, Makers, Breakers, Derived
  <2>6. OnTriggers(w, st, e) /\ OnShapes(w, st, e)
    BY <1>1, <1>4, <2>3, DoIs DEF OnTriggers, OnShapes
  <2> QED BY <2>3, <2>4, <2>5, <2>6 DEF EffectParts, e
<1>5. CASE st = Do("rename", "calls")
  <2>1. e = [w EXCEPT !.shape = "none", !.legacy = w.legacy \cup w.built.calls, !.built = [w.built EXCEPT !.calls = {}]]
    BY <1>5 DEF Effect, Do
  <2>2. [w.built EXCEPT !.calls = {}] \in [Derived -> SUBSET Rows0]
    BY <1>1 DEF Derived
  <2>3. /\ e.stored = w.stored /\ e.built = [w.built EXCEPT !.calls = {}] /\ e.legacy = w.legacy \cup w.built.calls
        /\ e.triggers = w.triggers /\ e.shape = "none" /\ e.episodes = w.episodes
        /\ e.columns = w.columns /\ e.applied = w.applied
    BY <1>1, <2>1
  <2>4. WsType(e)
    BY <1>1, <2>1, <2>2, <2>3 DEF WsType, Derived
  <2> HIDE DEF e
  <2>5. OnTables(w, st, e)
    BY <1>1, <1>5, <2>3, DoIs DEF OnTables, Makers, Breakers, Derived
  <2>6. OnTriggers(w, st, e) /\ OnShapes(w, st, e)
    BY <1>1, <1>5, <2>3, DoIs DEF OnTriggers, OnShapes
  <2> QED BY <2>3, <2>4, <2>5, <2>6 DEF EffectParts, e
<1>6. CASE st = Do("copy", "calls")
  <2>1. e = [w EXCEPT !.built = [w.built EXCEPT !.calls = w.built.calls \cup w.legacy]]
    BY <1>6 DEF Effect, Do
  <2>2. [w.built EXCEPT !.calls = w.built.calls \cup w.legacy] \in [Derived -> SUBSET Rows0]
    BY <1>1 DEF Derived
  <2>3. WsType(e) /\ OnTables(w, st, e)
    BY <1>1, <1>6, <2>1, <2>2, DoIs DEF WsType, OnTables, Makers, Breakers, Triggers, Derived
  <2> QED BY <1>1, <1>6, <2>1, <2>3, DoIs DEF EffectParts, OnTriggers, OnShapes
<1>7. ASSUME NEW u \in {"message", "artifact", "tokens"}, st = Do("fill", u) PROVE EffectParts(w, st, e)
  <2>1. e = [w EXCEPT !.built = [w.built EXCEPT ![u] = Wanted(w, u)]]
    BY <1>7 DEF Effect, Do
  <2>2. [w.built EXCEPT ![u] = Wanted(w, u)] \in [Derived -> SUBSET Rows0]
    BY <1>1 DEF Derived
  <2>3. WsType(e) /\ OnTables(w, st, e)
    BY <1>1, <1>7, <2>1, <2>2, DoIs DEF WsType, OnTables, Makers, Breakers, Triggers, Derived
  <2> QED BY <1>1, <1>7, <2>1, <2>3, DoIs DEF EffectParts, OnTriggers, OnShapes
<1>8. ASSUME NEW u \in {"message", "artifact"}, st = Do("empty", u) PROVE EffectParts(w, st, e)
  <2>1. e = [w EXCEPT !.built = [w.built EXCEPT ![u] = {}]]
    BY <1>8 DEF Effect, Do
  <2>2. [w.built EXCEPT ![u] = {}] \in [Derived -> SUBSET Rows0]
    BY <1>1 DEF Derived
  <2>3. WsType(e) /\ OnTables(w, st, e)
    BY <1>1, <1>8, <2>1, <2>2, DoIs DEF WsType, OnTables, Makers, Breakers, Triggers, Derived
  <2> QED BY <1>1, <1>8, <2>1, <2>3, DoIs DEF EffectParts, OnTriggers, OnShapes
<1>9. ASSUME NEW u \in Triggers, st = Do("create_trigger", u) PROVE EffectParts(w, st, e)
  <2>1. e = [w EXCEPT !.triggers = w.triggers \cup {u}]
    BY <1>9 DEF Effect, Do
  <2>2. WsType(e) /\ OnTables(w, st, e)
    BY <1>1, <1>9, <2>1, DoIs DEF WsType, OnTables, Makers, Breakers, Triggers, Derived
  <2> QED BY <1>1, <1>9, <2>1, <2>2, DoIs DEF EffectParts, OnTriggers, OnShapes
<1>10. ASSUME NEW u \in Triggers, st = Do("drop_trigger", u) PROVE EffectParts(w, st, e)
  <2>1. e = [w EXCEPT !.triggers = w.triggers \ {u}]
    BY <1>10 DEF Effect, Do
  <2>2. WsType(e) /\ OnTables(w, st, e)
    BY <1>1, <1>10, <2>1, DoIs DEF WsType, OnTables, Makers, Breakers, Triggers, Derived
  <2> QED BY <1>1, <1>10, <2>1, <2>2, DoIs DEF EffectParts, OnTriggers, OnShapes
<1>11. ASSUME NEW u \in Columns, st = Do("add_columns", u) PROVE EffectParts(w, st, e)
  <2>1. e = [w EXCEPT !.columns = w.columns \cup {u}]
    BY <1>11 DEF Effect, Do
  <2>2. WsType(e) /\ OnTables(w, st, e)
    BY <1>1, <1>11, <2>1, DoIs DEF WsType, OnTables, Makers, Breakers, Triggers, Derived
  <2> QED BY <1>1, <1>11, <2>1, <2>2, DoIs DEF EffectParts, OnTriggers, OnShapes
<1>12. ASSUME NEW u \in {"calls", "episodes"}, NEW z \in Wanted(w, u), st = Do(u, z) PROVE EffectParts(w, st, e)
  <2>1. e = [w EXCEPT !.built = [w.built EXCEPT ![u] = w.built[u] \cup {z}]]
    BY <1>12 DEF Effect, Do
  <2>2. [w.built EXCEPT ![u] = w.built[u] \cup {z}] \in [Derived -> SUBSET Rows0]
    BY <1>1 DEF Derived
  <2>3. WsType(e) /\ OnTables(w, st, e)
    BY <1>1, <1>12, <2>1, <2>2, DoIs DEF WsType, OnTables, Makers, Breakers, Triggers, Derived
  <2> QED BY <1>1, <1>12, <2>1, <2>3, DoIs DEF EffectParts, OnTriggers, OnShapes
<1> QED BY <1>2, <1>3, <1>4, <1>5, <1>6, <1>7, <1>8, <1>9, <1>10, <1>11, <1>12 DEF Plain

\* A fact that will hold after a list of statements will hold after its tail, once the
\* first of them has taken effect.
LEMMA HoldsStep ==
    ASSUME NEW s, NEW n \in Nat \ {0}, DOMAIN s = 1..n, NEW r, DOMAIN r = 1..(n - 1),
           \A i \in 1..(n - 1) : r[i] = s[i + 1], NEW makers, NEW breakers,
           NEW now \in BOOLEAN, NEW then \in BOOLEAN, Holds(now, s, makers, breakers),
           s[1] \in makers \/ (now /\ s[1] \notin breakers) => then
    PROVE  Holds(then, r, makers, breakers)
<1>1. CASE now /\ \A i \in DOMAIN s : s[i] \notin breakers
  <2>1. 1 \in DOMAIN s /\ \A i \in 1..(n - 1) : i + 1 \in DOMAIN s
    OBVIOUS
  <2>2. then /\ \A i \in 1..(n - 1) : r[i] \notin breakers
    BY <1>1, <2>1
  <2> QED BY <2>2 DEF Holds
<1>2. CASE \E i \in DOMAIN s : s[i] \in makers /\ \A j \in DOMAIN s : j > i => s[j] \notin breakers
  <2>1. PICK i \in 1..n : s[i] \in makers /\ \A j \in 1..n : j > i => s[j] \notin breakers
    BY <1>2
  <2>2. CASE i = 1
    BY <2>1, <2>2 DEF Holds
  <2>3. CASE i # 1
    <3>1. i - 1 \in 1..(n - 1) /\ r[i - 1] = s[i]
      BY <2>3
    <3>2. \A j \in 1..(n - 1) : j > i - 1 => r[j] \notin breakers
      BY <2>1
    <3> QED BY <2>1, <3>1, <3>2 DEF Holds
  <2> QED BY <2>2, <2>3
<1> QED BY <1>1, <1>2 DEF Holds

Known == {2, 3, 5, 7, 8, 9, 10, 11, 13, 14, 15}
Checks == {Do("check", v) : v \in Known}
Records == {Do("record", v) : v \in Known}

\* The database wherever an opener is killed: what an applied version built is there.
Solid(w) ==
    /\ \A t \in Derived : /\ w.built[t] \subseteq Wanted(w, t)
                          /\ FilledBy[t] \in w.applied => w.built[t] = Wanted(w, t)
    /\ w.legacy \subseteq Wanted(w, "calls")
    /\ 13 \in w.applied => w.shape = "new"
    /\ 15 \in w.applied => w.episodes = "new"
    /\ w.applied \cap Columns \subseteq w.columns
    /\ 7 \in w.applied => 3 \in w.applied

\* What version v is to leave behind holds after the statements s.
WillHold(v, w, s) ==
    /\ \A t \in Derived : FilledBy[t] = v =>
          \A x \in Wanted(w, t) : Holds(x \in w.built[t], s, Makers(t, x), Breakers(t))
    /\ v = 13 => /\ Holds(w.shape = "new", s, {Do("create_table", "calls")}, {Do("rename", "calls")})
                 /\ w.shape = "old" => 1 \in DOMAIN s /\ s[1] = Do("rename", "calls")
    /\ v = 15 => Holds(w.episodes = "new", s, {Do("create_table", "episodes")},
                                              {Do("drop_table", "episodes")})
    /\ v \in Columns => Holds(v \in w.columns, s, {Do("add_columns", v)}, {})

TriggersWillHold(w, s) ==
    \A t \in Triggers : Holds(t \in w.triggers, s, {Do("create_trigger", t)}, {Do("drop_trigger", t)})

\* The statements s an opener has left.
Pending(w, s) ==
    /\ s \in Seq(Plain(w) \cup Checks \cup Records)
    /\ \A i, j \in DOMAIN s : i < j /\ s[i] \in Checks \cup Records => s[j] \in Checks
    /\ \A v \in Known : v \in w.applied \/ \E i \in DOMAIN s : s[i] \in {Do("check", v), Do("record", v)}
    /\ \A i \in DOMAIN s : \A v \in Known : s[i] = Do("record", v) => WillHold(v, w, s)
    /\ \A t \in Derived : FilledBy[t] \in w.applied => \A i \in DOMAIN s : s[i] \notin Breakers(t)
    /\ \A i \in DOMAIN s : s[i] = Do("record", 7) => 3 \in w.applied
    /\ \A i, j \in DOMAIN s : s[i] = Do("check", 7) /\ s[j] \in {Do("check", 3), Do("record", 3)} => j < i
    /\ TriggersWillHold(w, s)

SchemaInv ==
    /\ WsType(ws) /\ Solid(ws)
    /\ status \in [Opener -> {"closed", "opening", "open"}] /\ DOMAIN left = Opener
    /\ \A o \in Opener : status[o] = "opening" => Pending(ws, left[o])
    /\ \A o \in Opener : status[o] = "open" => Known \subseteq ws.applied /\ ws.triggers = Triggers

\* The versions of the code, in its order.
LEMMA VersionsAreKnown == Range(Versions) = Known /\ DOMAIN Versions = 1..11
<1>1. DOMAIN Versions = 1..11
  BY DEF Versions
<1>2. Range(Versions) = {Versions[i] : i \in 1..11}
  BY <1>1 DEF Range
<1>3. /\ Versions[1] = 2 /\ Versions[2] = 3 /\ Versions[3] = 5 /\ Versions[4] = 7 /\ Versions[5] = 8
      /\ Versions[6] = 9 /\ Versions[7] = 10 /\ Versions[8] = 11 /\ Versions[9] = 13
      /\ Versions[10] = 14 /\ Versions[11] = 15
  BY DEF Versions
<1>4. ASSUME NEW i \in 1..11 PROVE Versions[i] \in Known
  <2>1. i \in {1, 2, 3, 4, 5, 6, 7, 8, 9, 10, 11}
    OBVIOUS
  <2> QED BY <1>3, <2>1 DEF Known
<1>5. ASSUME NEW v \in Known PROVE \E i \in 1..11 : Versions[i] = v
  BY <1>3 DEF Known
<1> QED BY <1>1, <1>2, <1>4, <1>5

\* With nothing left to do, what will hold holds.
LEMMA HoldsEnd ==
    ASSUME NEW now, NEW s, NEW makers, NEW breakers, Holds(now, s, makers, breakers),
           \A i \in DOMAIN s : s[i] \notin makers
    PROVE  now
BY DEF Holds

\* A fact that holds and that no statement of a piece breaks will hold after the piece.
LEMMA HoldsThrough ==
    ASSUME NEW now, NEW makers, NEW breakers, NEW n \in Nat, NEW m \in Nat, n <= m,
           NEW s, DOMAIN s = 1..n, NEW r, DOMAIN r = 1..m,
           \A i \in 1..n : r[i] = s[i], \A i \in 1..m : i > n => r[i] \notin breakers,
           Holds(now, s, makers, breakers)
    PROVE  Holds(now, r, makers, breakers)
<1>1. \A i \in 1..n : i \in 1..m
  OBVIOUS
<1>2. CASE now /\ \A i \in 1..n : s[i] \notin breakers
  <2>1. \A i \in 1..m : r[i] \notin breakers
    <3>1. \A i \in 1..m : i <= n => i \in 1..n
      OBVIOUS
    <3>2. \A i \in 1..m : i <= n \/ i > n
      OBVIOUS
    <3> QED BY <1>2, <3>1, <3>2
  <2> QED BY <1>2, <2>1 DEF Holds
<1>3. CASE \E i \in 1..n : s[i] \in makers /\ \A j \in 1..n : j > i => s[j] \notin breakers
  <2>1. PICK i \in 1..n : s[i] \in makers /\ \A j \in 1..n : j > i => s[j] \notin breakers
    BY <1>3
  <2>2. r[i] \in makers /\ i \in 1..m
    BY <2>1, <1>1
  <2>3. ASSUME NEW j \in 1..m, j > i PROVE r[j] \notin breakers
    <3>1. CASE j <= n
      <4>1. j \in 1..n
        BY <3>1
      <4> QED BY <2>1, <2>3, <4>1
    <3>2. CASE j > n
      BY <3>2
    <3> QED BY <3>1, <3>2
  <2> QED BY <2>2, <2>3 DEF Holds
<1> QED BY <1>2, <1>3 DEF Holds

\* A fact that a piece makes, and nothing after it breaks, will hold.
LEMMA HoldsAfter ==
    ASSUME NEW now, NEW makers, NEW breakers, NEW n \in Nat, NEW m \in Nat,
           NEW s, DOMAIN s = 1..n, NEW r, DOMAIN r = 1..(m + n),
           \A i \in 1..n : r[m + i] = s[i], Holds(FALSE, s, makers, breakers)
    PROVE  Holds(now, r, makers, breakers)
<1>1. PICK i \in 1..n : s[i] \in makers /\ \A j \in 1..n : j > i => s[j] \notin breakers
  BY DEF Holds
<1>2. m + i \in 1..(m + n) /\ r[m + i] \in makers
  BY <1>1
<1>3. ASSUME NEW j \in 1..(m + n), j > m + i PROVE r[j] \notin breakers
  <2>1. j - m \in 1..n /\ j - m > i /\ j = m + (j - m)
    BY <1>3
  <2>2. r[j] = s[j - m]
    BY <2>1
  <2> QED BY <1>1, <2>1, <2>2
<1> QED BY <1>2, <1>3 DEF Holds

\* The backfill fills every table it is for.
LEMMA BackfillCovers ==
    ASSUME NEW w, NEW t \in {"calls", "episodes"}
    PROVE  /\ Backfill(t, w) \in Seq({Do(t, x) : x \in Wanted(w, t)})
           /\ \A x \in Wanted(w, t) : \E i \in DOMAIN Backfill(t, w) : Backfill(t, w)[i] = Do(t, x)
<1> DEFINE W == Wanted(w, t)
           f == SetToSeq(W)
           n == Cardinality(W)
<1>1. IsFiniteSet(W) /\ n \in Nat /\ ExistsBijection(1..n, W)
  <2>1. W \in SUBSET Subject
    BY DEF Wanted, Source
  <2>2. IsFiniteSet(W)
    BY <2>1, SchemaAssumption, FS_Subset
  <2> QED BY <2>2, FS_CardinalityType
<1>2. f \in [1..n -> W] /\ IsInjective(f)
  <2>1. \E g \in [1..n -> W] : IsInjective(g)
    BY <1>1 DEF ExistsBijection, Bijection, Injection
  <2> QED BY <2>1 DEF SetToSeq
<1> HIDE DEF f
<1>3. \A x \in W : \E i \in 1..n : f[i] = x
  <2>1. f \in Injection(1..n, W)
    BY <1>2 DEF Injection
  <2>2. IsFiniteSet(1..n) /\ Cardinality(1..n) = n
    BY <1>1, FS_Interval
  <2>3. f \in Surjection(1..n, W)
    BY <1>1, <2>1, <2>2, FS_Injection
  <2> QED BY <2>3 DEF Surjection
<1>4. Backfill(t, w) = [i \in 1..n |-> Do(t, f[i])]
  BY DEF Backfill, f
<1> HIDE DEF n, W
<1>5. Backfill(t, w) \in Seq({Do(t, x) : x \in W})
  BY <1>1, <1>2, <1>4
<1>6. \A x \in W : \E i \in DOMAIN Backfill(t, w) : Backfill(t, w)[i] = Do(t, x)
  BY <1>3, <1>4
<1> QED BY <1>5, <1>6 DEF W

\* A plain statement neither looks at the recorded versions nor records one.
LEMMA PlainIsNeither ==
    ASSUME NEW w, NEW st \in Plain(w)
    PROVE  st \notin Checks /\ st \notin Records /\ \A v : st # Do("check", v) /\ st # Do("record", v)
<1>1. \E a \in {"create_table", "drop_table", "rename", "copy", "fill", "empty", "create_trigger",
                 "drop_trigger", "add_columns", "calls", "episodes"} : \E b : st = Do(a, b)
  BY DEF Plain
<1>2. PICK a, b : st = Do(a, b) /\ a \notin {"check", "record"}
  BY <1>1
<1>3. st.do \notin {"check", "record"}
  BY <1>2 DEF Do
<1>4. \A v : Do("check", v).do = "check" /\ Do("record", v).do = "record"
  BY DEF Do
<1> QED BY <1>3, <1>4 DEF Checks, Records

\* A plain statement keeps what is pending.
LEMMA StepPlain ==
    ASSUME NEW w, WsType(w), Solid(w), NEW s, Pending(w, s), s # <<>>, s[1] \in Plain(w),
           NEW e, e = Effect(w, s[1])
    PROVE  WsType(e) /\ Solid(e) /\ Pending(e, Tail(s))
<1> DEFINE st == s[1]
           r == Tail(s)
           n == Len(s)
<1>1. EffectParts(w, st, e)
  BY EffectHas DEF Solid
<1>2. /\ n \in Nat \ {0} /\ DOMAIN s = 1..n /\ DOMAIN r = 1..(n - 1)
      /\ \A i \in 1..(n - 1) : r[i] = s[i + 1] /\ i + 1 \in 1..n
      /\ 1 \in 1..n
      /\ r \in Seq(Plain(w) \cup Checks \cup Records)
  BY DEF Pending
<1> HIDE DEF r, n
<1>3. Plain(e) = Plain(w) /\ \A t : Wanted(e, t) = Wanted(w, t)
  BY <1>1 DEF EffectParts, OnTables, OnTriggers, OnShapes, Plain, Wanted
<1>4. \A v : st # Do("check", v) /\ st # Do("record", v)
  BY PlainIsNeither
<1>5. \A t \in Derived : FilledBy[t] \in w.applied => \A i \in 1..n : s[i] \notin Breakers(t)
  BY <1>2 DEF Pending
<1>6. WsType(e) /\ e.applied = w.applied
  BY <1>1 DEF EffectParts, OnTables, OnTriggers, OnShapes
<1>7. Solid(e)
  <2>1. \A t \in Derived : e.built[t] \subseteq Wanted(e, t)
    BY <1>1, <1>3 DEF EffectParts, OnTables, OnTriggers, OnShapes
  <2>2. ASSUME NEW t \in Derived, FilledBy[t] \in e.applied PROVE e.built[t] = Wanted(e, t)
    <3>1. w.built[t] = Wanted(w, t)
      BY <1>6, <2>2 DEF Solid
    <3>2. st \notin Breakers(t)
      BY <1>2, <1>5, <1>6, <2>2
    <3>3. \A x \in Wanted(w, t) : x \in e.built[t]
      BY <1>1, <3>1, <3>2 DEF EffectParts, OnTables, OnTriggers, OnShapes
    <3> QED BY <1>3, <2>1, <3>3
  <2>3. e.legacy \subseteq Wanted(e, "calls")
    BY <1>1, <1>3 DEF EffectParts, OnTables, OnTriggers, OnShapes
  <2>4. 13 \in e.applied => e.shape = "new"
    <3>1. ASSUME 13 \in w.applied PROVE st # Do("rename", "calls")
      <4>1. FilledBy["calls"] = 13 /\ "calls" \in Derived
        BY DEF FilledBy, Derived
      <4>2. st \notin Breakers("calls")
        BY <1>2, <1>5, <3>1, <4>1
      <4> QED BY <4>2 DEF Breakers
    <3> QED BY <1>1, <1>6, <3>1 DEF EffectParts, OnTables, OnTriggers, OnShapes, Solid
  <2>5. 15 \in e.applied => e.episodes = "new"
    <3>1. ASSUME 15 \in w.applied PROVE st # Do("drop_table", "episodes")
      <4>1. FilledBy["episodes"] = 15 /\ "episodes" \in Derived
        BY DEF FilledBy, Derived
      <4>2. st \notin Breakers("episodes")
        BY <1>2, <1>5, <3>1, <4>1
      <4> QED BY <4>2 DEF Breakers
    <3> QED BY <1>1, <1>6, <3>1 DEF EffectParts, OnTables, OnTriggers, OnShapes, Solid
  <2>6. e.applied \cap Columns \subseteq e.columns
    <3>1. w.applied \cap Columns \subseteq w.columns
      BY DEF Solid
    <3>2. \A v \in Columns : v \in w.columns => v \in e.columns
      BY <1>1 DEF EffectParts, OnTables, OnTriggers, OnShapes
    <3> QED BY <1>6, <3>1, <3>2
  <2>7. 7 \in e.applied => 3 \in e.applied
    BY <1>6 DEF Solid
  <2> QED BY <2>1, <2>2, <2>3, <2>4, <2>5, <2>6, <2>7 DEF Solid
<1>8. ASSUME NEW v \in Known, WillHold(v, w, s) PROVE WillHold(v, e, r)
  <2>1. ASSUME NEW t \in Derived, FilledBy[t] = v, NEW x \in Wanted(e, t)
        PROVE  Holds(x \in e.built[t], r, Makers(t, x), Breakers(t))
    <3>1. Holds(x \in w.built[t], s, Makers(t, x), Breakers(t))
      BY <1>3, <1>8, <2>1 DEF WillHold
    <3>2. st \in Makers(t, x) \/ (x \in w.built[t] /\ st \notin Breakers(t)) => x \in e.built[t]
      BY <1>1, <1>3 DEF EffectParts, OnTables, OnTriggers, OnShapes
    <3> DEFINE now == x \in w.built[t]
               then == x \in e.built[t]
    <3>3. now \in BOOLEAN /\ then \in BOOLEAN /\ Holds(now, s, Makers(t, x), Breakers(t))
          /\ (s[1] \in Makers(t, x) \/ (now /\ s[1] \notin Breakers(t)) => then)
      BY <3>1, <3>2
    <3> HIDE DEF now, then
    <3>4. Holds(then, r, Makers(t, x), Breakers(t))
      BY <1>2, <3>3, HoldsStep
    <3> QED BY <3>4 DEF then
  <2>2. ASSUME v = 13 PROVE w.shape = "old" => st = Do("rename", "calls")
    BY <1>8, <2>2 DEF WillHold
  <2>3. ASSUME v = 13
        PROVE  Holds(e.shape = "new", r, {Do("create_table", "calls")}, {Do("rename", "calls")})
    <3>1. Holds(w.shape = "new", s, {Do("create_table", "calls")}, {Do("rename", "calls")})
      BY <1>8, <2>3 DEF WillHold
    <3>2. Do("rename", "calls") # Do("create_table", "calls")
      BY DEF Do
    <3>3. st \in {Do("create_table", "calls")} \/ (w.shape = "new" /\ st \notin {Do("rename", "calls")})
             => e.shape = "new"
      BY <1>1, <2>2, <2>3, <3>2 DEF EffectParts, OnTables, OnTriggers, OnShapes
    <3> DEFINE now == w.shape = "new"
               then == e.shape = "new"
               make == {Do("create_table", "calls")}
               break == {Do("rename", "calls")}
    <3>4. now \in BOOLEAN /\ then \in BOOLEAN /\ Holds(now, s, make, break)
          /\ (s[1] \in make \/ (now /\ s[1] \notin break) => then)
      BY <3>1, <3>3
    <3> HIDE DEF now, then, make, break
    <3>5. Holds(then, r, make, break)
      BY <1>2, <3>4, HoldsStep
    <3> QED BY <3>5 DEF then, make, break
  <2>4. v = 13 => e.shape # "old"
    BY <1>1, <2>2 DEF EffectParts, OnTables, OnTriggers, OnShapes
  <2>5. ASSUME v = 15
        PROVE  Holds(e.episodes = "new", r, {Do("create_table", "episodes")}, {Do("drop_table", "episodes")})
    <3>1. Holds(w.episodes = "new", s, {Do("create_table", "episodes")}, {Do("drop_table", "episodes")})
      BY <1>8, <2>5 DEF WillHold
    <3>2. st \in {Do("create_table", "episodes")}
             \/ (w.episodes = "new" /\ st \notin {Do("drop_table", "episodes")}) => e.episodes = "new"
      BY <1>1 DEF EffectParts, OnTables, OnTriggers, OnShapes
    <3> DEFINE now == w.episodes = "new"
               then == e.episodes = "new"
               make == {Do("create_table", "episodes")}
               break == {Do("drop_table", "episodes")}
    <3>3. now \in BOOLEAN /\ then \in BOOLEAN /\ Holds(now, s, make, break)
          /\ (s[1] \in make \/ (now /\ s[1] \notin break) => then)
      BY <3>1, <3>2
    <3> HIDE DEF now, then, make, break
    <3>4. Holds(then, r, make, break)
      BY <1>2, <3>3, HoldsStep
    <3> QED BY <3>4 DEF then, make, break
  <2>6. ASSUME v \in Columns PROVE Holds(v \in e.columns, r, {Do("add_columns", v)}, {})
    <3>1. Holds(v \in w.columns, s, {Do("add_columns", v)}, {})
      BY <1>8, <2>6 DEF WillHold
    <3>2. st \in {Do("add_columns", v)} \/ (v \in w.columns /\ st \notin {}) => v \in e.columns
      BY <1>1, <2>6 DEF EffectParts, OnTables, OnTriggers, OnShapes
    <3> DEFINE now == v \in w.columns
               then == v \in e.columns
               make == {Do("add_columns", v)}
    <3>3. Holds(now, s, make, {}) /\ (s[1] \in make \/ (now /\ s[1] \notin {}) => then)
      BY <3>1, <3>2
    <3>4. now \in BOOLEAN /\ then \in BOOLEAN
      OBVIOUS
    <3> HIDE DEF now, then, make
    <3>5. Holds(then, r, make, {})
      BY <1>2, <3>3, <3>4, HoldsStep
    <3> QED BY <3>5 DEF then, make
  <2> QED BY <2>1, <2>3, <2>4, <2>5, <2>6 DEF WillHold
<1>9. TriggersWillHold(e, r)
  <2> SUFFICES ASSUME NEW t \in Triggers
      PROVE Holds(t \in e.triggers, r, {Do("create_trigger", t)}, {Do("drop_trigger", t)})
    BY DEF TriggersWillHold
  <2>1. Holds(t \in w.triggers, s, {Do("create_trigger", t)}, {Do("drop_trigger", t)})
    BY DEF Pending, TriggersWillHold
  <2>2. st \in {Do("create_trigger", t)} \/ (t \in w.triggers /\ st \notin {Do("drop_trigger", t)})
           => t \in e.triggers
    BY <1>1 DEF EffectParts, OnTables, OnTriggers, OnShapes
  <2> DEFINE now == t \in w.triggers
             then == t \in e.triggers
             make == {Do("create_trigger", t)}
             break == {Do("drop_trigger", t)}
  <2>3. Holds(now, s, make, break) /\ (s[1] \in make \/ (now /\ s[1] \notin break) => then)
    BY <2>1, <2>2
  <2>4. now \in BOOLEAN /\ then \in BOOLEAN
    OBVIOUS
  <2> HIDE DEF now, then, make, break
  <2>5. Holds(then, r, make, break)
    BY <1>2, <2>3, <2>4, HoldsStep
  <2> QED BY <2>5 DEF then, make, break
<1>10. Pending(e, r)
  <2>1. \A i, j \in DOMAIN r : i < j /\ r[i] \in Checks \cup Records => r[j] \in Checks
    <3> SUFFICES ASSUME NEW i \in 1..(n - 1), NEW j \in 1..(n - 1), i < j, r[i] \in Checks \cup Records
        PROVE r[j] \in Checks
      BY <1>2
    <3>1. s[i + 1] \in Checks \cup Records /\ i + 1 < j + 1 /\ i + 1 \in DOMAIN s /\ j + 1 \in DOMAIN s
      BY <1>2
    <3> QED BY <1>2, <3>1 DEF Pending
  <2>2. \A v \in Known : v \in e.applied \/ \E i \in DOMAIN r : r[i] \in {Do("check", v), Do("record", v)}
    <3> SUFFICES ASSUME NEW v \in Known, v \notin w.applied
        PROVE \E i \in DOMAIN r : r[i] \in {Do("check", v), Do("record", v)}
      BY <1>6
    <3>1. PICK i \in 1..n : s[i] \in {Do("check", v), Do("record", v)}
      BY <1>2 DEF Pending
    <3>2. i # 1
      BY <1>4, <3>1
    <3>3. i - 1 \in 1..(n - 1) /\ r[i - 1] = s[i]
      BY <1>2, <3>2
    <3> QED BY <1>2, <3>1, <3>3
  <2>3. \A i \in DOMAIN r : \A v \in Known : r[i] = Do("record", v) => WillHold(v, e, r)
    <3> SUFFICES ASSUME NEW i \in 1..(n - 1), NEW v \in Known, r[i] = Do("record", v) PROVE WillHold(v, e, r)
      BY <1>2
    <3>1. i + 1 \in DOMAIN s /\ s[i + 1] = Do("record", v)
      BY <1>2
    <3>2. WillHold(v, w, s)
      BY <3>1 DEF Pending
    <3> QED BY <1>8, <3>2
  <2>4. \A t \in Derived : FilledBy[t] \in e.applied => \A i \in DOMAIN r : r[i] \notin Breakers(t)
    BY <1>2, <1>5, <1>6
  <2>5. \A i \in DOMAIN r : r[i] = Do("record", 7) => 3 \in e.applied
    <3>1. \A i \in 1..n : s[i] = Do("record", 7) => 3 \in w.applied
      BY <1>2 DEF Pending
    <3> QED BY <1>2, <1>6, <3>1
  <2>6. \A i, j \in DOMAIN r : r[i] = Do("check", 7) /\ r[j] \in {Do("check", 3), Do("record", 3)} => j < i
    <3> SUFFICES ASSUME NEW i \in 1..(n - 1), NEW j \in 1..(n - 1), r[i] = Do("check", 7),
                        r[j] \in {Do("check", 3), Do("record", 3)} PROVE j < i
      BY <1>2
    <3>1. i + 1 \in DOMAIN s /\ j + 1 \in DOMAIN s /\ s[i + 1] = Do("check", 7)
          /\ s[j + 1] \in {Do("check", 3), Do("record", 3)}
      BY <1>2
    <3>2. j + 1 < i + 1
      BY <3>1 DEF Pending
    <3> QED BY <3>2
  <2> QED BY <1>2, <1>3, <1>9, <2>1, <2>2, <2>3, <2>4, <2>5, <2>6 DEF Pending
<1> QED BY <1>6, <1>7, <1>10 DEF r

\* With only checks left, what will hold holds.
LEMMA ChecksAreInert ==
    ASSUME NEW w, NEW s, \A i \in DOMAIN s : s[i] \in Checks \cup Records
    PROVE  /\ \A v \in Known : WillHold(v, w, s) =>
                 /\ \A t \in Derived : FilledBy[t] = v => Wanted(w, t) \subseteq w.built[t]
                 /\ v = 13 => w.shape = "new"
                 /\ v = 15 => w.episodes = "new"
                 /\ v \in Columns => v \in w.columns
           /\ TriggersWillHold(w, s) => Triggers \subseteq w.triggers
<1>1. \A i \in DOMAIN s : s[i].do \in {"check", "record"}
  BY DEF Checks, Records, Do
<1>2. ASSUME NEW now, NEW makers, NEW breakers, Holds(now, s, makers, breakers),
             \A st \in makers : st.do \notin {"check", "record"}
      PROVE now
  BY <1>1, <1>2, HoldsEnd
<1>3. ASSUME NEW v \in Known, WillHold(v, w, s), NEW t \in Derived, FilledBy[t] = v, NEW x \in Wanted(w, t)
      PROVE x \in w.built[t]
  <2> DEFINE now == x \in w.built[t]
  <2>1. Holds(now, s, Makers(t, x), Breakers(t))
    BY <1>3 DEF WillHold
  <2>2. \A st \in Makers(t, x) : st.do \notin {"check", "record"}
    BY DEF Makers, Do, Derived
  <2> HIDE DEF now
  <2>3. now
    BY <1>2, <2>1, <2>2
  <2> QED BY <2>3 DEF now
<1>4. ASSUME WillHold(13, w, s) PROVE w.shape = "new"
  <2> DEFINE now == w.shape = "new"
             make == {Do("create_table", "calls")}
             break == {Do("rename", "calls")}
  <2>1. Holds(now, s, make, break)
    BY <1>4 DEF WillHold
  <2>2. \A st \in make : st.do \notin {"check", "record"}
    BY DoIs
  <2> HIDE DEF now, make, break
  <2>3. now
    BY <1>2, <2>1, <2>2
  <2> QED BY <2>3 DEF now
<1>5. ASSUME WillHold(15, w, s) PROVE w.episodes = "new"
  <2> DEFINE now == w.episodes = "new"
             make == {Do("create_table", "episodes")}
             break == {Do("drop_table", "episodes")}
  <2>1. Holds(now, s, make, break)
    BY <1>5 DEF WillHold
  <2>2. \A st \in make : st.do \notin {"check", "record"}
    BY DoIs
  <2> HIDE DEF now, make, break
  <2>3. now
    BY <1>2, <2>1, <2>2
  <2> QED BY <2>3 DEF now
<1>6. ASSUME NEW v \in Columns, WillHold(v, w, s) PROVE v \in w.columns
  <2> DEFINE now == v \in w.columns
             make == {Do("add_columns", v)}
  <2>1. Holds(now, s, make, {})
    BY <1>6 DEF WillHold
  <2>2. \A st \in make : st.do \notin {"check", "record"}
    BY DoIs
  <2> HIDE DEF now, make
  <2>3. now
    BY <1>2, <2>1, <2>2
  <2> QED BY <2>3 DEF now
<1>7. ASSUME TriggersWillHold(w, s), NEW t \in Triggers PROVE t \in w.triggers
  <2> DEFINE now == t \in w.triggers
             make == {Do("create_trigger", t)}
             break == {Do("drop_trigger", t)}
  <2>1. Holds(now, s, make, break)
    BY <1>7 DEF TriggersWillHold
  <2>2. \A st \in make : st.do \notin {"check", "record"}
    BY DoIs
  <2> HIDE DEF now, make, break
  <2>3. now
    BY <1>2, <2>1, <2>2
  <2> QED BY <2>3 DEF now
<1> QED BY <1>3, <1>4, <1>5, <1>6, <1>7

\* Once a check or a record is first only checks follow.
LEMMA OnlyChecksFollow ==
    ASSUME NEW w, NEW s, Pending(w, s), s # <<>>, s[1] \in Checks \cup Records
    PROVE  /\ Len(s) \in Nat \ {0} /\ DOMAIN s = 1..Len(s) /\ DOMAIN Tail(s) = 1..(Len(s) - 1)
           /\ \A i \in 1..(Len(s) - 1) : Tail(s)[i] = s[i + 1] /\ i + 1 \in DOMAIN s
           /\ \A i \in DOMAIN Tail(s) : Tail(s)[i] \in Checks
           /\ Tail(s) \in Seq(Plain(w) \cup Checks \cup Records)
<1>1. s \in Seq(Plain(w) \cup Checks \cup Records)
  BY DEF Pending
<1>2. /\ Len(s) \in Nat \ {0} /\ DOMAIN s = 1..Len(s) /\ DOMAIN Tail(s) = 1..(Len(s) - 1)
      /\ \A i \in 1..(Len(s) - 1) : Tail(s)[i] = s[i + 1] /\ i + 1 \in DOMAIN s /\ 1 < i + 1
      /\ Tail(s) \in Seq(Plain(w) \cup Checks \cup Records)
      /\ 1 \in DOMAIN s
  BY <1>1
<1>3. \A j \in DOMAIN s : 1 < j => s[j] \in Checks
  BY <1>2 DEF Pending
<1> QED BY <1>2, <1>3

\* A version recorded, now or before, leaves the checks of the later ones.
LEMMA TailPending ==
    ASSUME NEW w, NEW s, Pending(w, s), s # <<>>, NEW v \in Known,
           s[1] \in {Do("check", v), Do("record", v)},
           NEW e, e.stored = w.stored, e.applied = w.applied \cup {v}, Triggers \subseteq e.triggers
    PROVE  Pending(e, Tail(s))
<1> DEFINE r == Tail(s)
           n == Len(s)
<1>1. s[1] \in Checks \cup Records
  BY DEF Checks, Records
<1>2. /\ n \in Nat \ {0} /\ DOMAIN s = 1..n /\ DOMAIN r = 1..(n - 1)
      /\ \A i \in 1..(n - 1) : r[i] = s[i + 1] /\ i + 1 \in DOMAIN s
      /\ \A i \in DOMAIN r : r[i] \in Checks
      /\ r \in Seq(Plain(w) \cup Checks \cup Records)
  BY <1>1, OnlyChecksFollow
<1> HIDE DEF r, n
<1>3. /\ n \in Nat \ {0} /\ DOMAIN s = 1..n /\ DOMAIN r = 1..(n - 1)
      /\ \A i \in 1..(n - 1) : r[i] = s[i + 1] /\ i + 1 \in 1..n
      /\ \A i \in 1..(n - 1) : r[i] \in Checks
      /\ r \in Seq(Plain(w) \cup Checks \cup Records)
      /\ 1 \in 1..n
  BY <1>2
<1>4. e.applied = w.applied \cup {v} /\ Triggers \subseteq e.triggers
  OBVIOUS
<1>5. Plain(e) = Plain(w)
  BY DEF Plain, Wanted
<1>6. \A i \in 1..(n - 1) : r[i].do = "check"
  BY <1>3 DEF Checks, Do
<1>7. Pending(e, r)
  <2>1. r \in Seq(Plain(e) \cup Checks \cup Records)
    BY <1>3, <1>5
  <2>2. \A i, j \in DOMAIN r : i < j /\ r[i] \in Checks \cup Records => r[j] \in Checks
    BY <1>3
  <2>3. \A u \in Known : u \in e.applied \/ \E i \in DOMAIN r : r[i] \in {Do("check", u), Do("record", u)}
    <3> SUFFICES ASSUME NEW u \in Known, u \notin w.applied, u # v
        PROVE \E i \in DOMAIN r : r[i] \in {Do("check", u), Do("record", u)}
      BY <1>4
    <3>1. PICK i \in 1..n : s[i] \in {Do("check", u), Do("record", u)}
      BY <1>3 DEF Pending
    <3>2. i # 1
      BY <3>1, DoIs
    <3>3. i - 1 \in 1..(n - 1) /\ r[i - 1] = s[i]
      BY <1>3, <3>2
    <3> QED BY <1>3, <3>1, <3>3
  <2>4. \A i \in DOMAIN r : \A u \in Known : r[i] = Do("record", u) => WillHold(u, e, r)
    BY <1>3, <1>6 DEF Do
  <2>5. \A t \in Derived : FilledBy[t] \in e.applied => \A i \in DOMAIN r : r[i] \notin Breakers(t)
    BY <1>3, <1>6, DoIs DEF Breakers
  <2>6. \A i \in DOMAIN r : r[i] = Do("record", 7) => 3 \in e.applied
    BY <1>3, <1>6 DEF Do
  <2>7. \A i, j \in DOMAIN r : r[i] = Do("check", 7) /\ r[j] \in {Do("check", 3), Do("record", 3)} => j < i
    <3> SUFFICES ASSUME NEW i \in 1..(n - 1), NEW j \in 1..(n - 1), r[i] = Do("check", 7),
                        r[j] \in {Do("check", 3), Do("record", 3)} PROVE j < i
      BY <1>3
    <3>1. i + 1 \in DOMAIN s /\ j + 1 \in DOMAIN s /\ s[i + 1] = Do("check", 7)
          /\ s[j + 1] \in {Do("check", 3), Do("record", 3)}
      BY <1>3
    <3>2. j + 1 < i + 1
      BY <3>1 DEF Pending
    <3> QED BY <3>2
  <2>8. TriggersWillHold(e, r)
    <3> SUFFICES ASSUME NEW t \in Triggers
        PROVE Holds(t \in e.triggers, r, {Do("create_trigger", t)}, {Do("drop_trigger", t)})
      BY DEF TriggersWillHold
    <3>1. t \in e.triggers /\ \A i \in DOMAIN r : r[i] \notin {Do("drop_trigger", t)}
      BY <1>3, <1>4, <1>6, DoIs
    <3> QED BY <3>1 DEF Holds
  <2> QED BY <2>1, <2>2, <2>3, <2>4, <2>5, <2>6, <2>7, <2>8 DEF Pending
<1> QED BY <1>7 DEF r

\* Recording a version keeps what is pending: what the version is for holds by then.
LEMMA StepRecord ==
    ASSUME NEW w, WsType(w), Solid(w), NEW s, Pending(w, s), s # <<>>,
           NEW v \in Known, s[1] = Do("record", v), NEW e, e = Effect(w, s[1])
    PROVE  WsType(e) /\ Solid(e) /\ Pending(e, Tail(s))
<1> DEFINE r == Tail(s)
           n == Len(s)
<1>1. s[1] \in Records
  BY DEF Records
<1>2. /\ n \in Nat \ {0} /\ DOMAIN s = 1..n /\ DOMAIN r = 1..(n - 1)
      /\ \A i \in 1..(n - 1) : r[i] = s[i + 1] /\ i + 1 \in DOMAIN s
      /\ \A i \in DOMAIN r : r[i] \in Checks
      /\ r \in Seq(Plain(w) \cup Checks \cup Records)
  BY <1>1, OnlyChecksFollow
<1> HIDE DEF r, n
<1>3. /\ n \in Nat \ {0} /\ DOMAIN s = 1..n /\ DOMAIN r = 1..(n - 1)
      /\ \A i \in 1..(n - 1) : r[i] = s[i + 1] /\ i + 1 \in 1..n
      /\ \A i \in 1..(n - 1) : r[i] \in Checks
      /\ r \in Seq(Plain(w) \cup Checks \cup Records)
      /\ 1 \in 1..n
  BY <1>2
<1>4. e = [w EXCEPT !.applied = w.applied \cup {v}]
  BY DEF Effect, Do
<1>5. w \in [stored : SUBSET Rows0, built : [Derived -> SUBSET Rows0], legacy : SUBSET Rows0,
             triggers : SUBSET Triggers, shape : {"none", "old", "new"},
             episodes : {"none", "old", "new"}, columns : SUBSET Columns, applied : SUBSET Nat]
  BY DEF WsType
<1>6. /\ e.stored = w.stored /\ e.built = w.built /\ e.legacy = w.legacy /\ e.triggers = w.triggers
      /\ e.shape = w.shape /\ e.episodes = w.episodes /\ e.columns = w.columns
      /\ e.applied = w.applied \cup {v}
  BY <1>4, <1>5
<1>7. WsType(e)
  BY <1>4, <1>5 DEF WsType, Known
<1>8. Plain(e) = Plain(w) /\ \A t : Wanted(e, t) = Wanted(w, t)
  BY <1>6 DEF Plain, Wanted
<1>9. WillHold(v, w, s) /\ TriggersWillHold(w, s)
  BY <1>3 DEF Pending
<1>10. \A i \in 1..n : s[i] \in Checks \cup Records
  <2>1. \A i \in 1..n : i = 1 \/ (i - 1 \in 1..(n - 1) /\ i = (i - 1) + 1)
    BY <1>3
  <2> QED BY <1>1, <1>3, <2>1
<1>11. /\ \A t \in Derived : FilledBy[t] = v => Wanted(w, t) \subseteq w.built[t]
       /\ v = 13 => w.shape = "new"
       /\ v = 15 => w.episodes = "new"
       /\ v \in Columns => v \in w.columns
       /\ Triggers \subseteq w.triggers
  BY <1>3, <1>9, <1>10, ChecksAreInert
<1>12. v = 7 => 3 \in w.applied
  BY <1>3 DEF Pending
<1>13. Solid(e)
  <2>1. ASSUME NEW t \in Derived
        PROVE  e.built[t] \subseteq Wanted(e, t) /\ (FilledBy[t] \in e.applied => e.built[t] = Wanted(e, t))
    <3>1. w.built[t] \subseteq Wanted(w, t) /\ (FilledBy[t] \in w.applied => w.built[t] = Wanted(w, t))
      BY DEF Solid
    <3>2. FilledBy[t] = v => Wanted(w, t) \subseteq w.built[t]
      BY <1>11
    <3>3. Wanted(e, t) = Wanted(w, t) /\ e.built[t] = w.built[t]
      BY <1>6, <1>8
    <3>4. FilledBy[t] \in e.applied => FilledBy[t] \in w.applied \/ FilledBy[t] = v
      BY <1>6
    <3>5. FilledBy[t] = v => w.built[t] = Wanted(w, t)
      BY <3>1, <3>2
    <3>6. FilledBy[t] \in e.applied => w.built[t] = Wanted(w, t)
      BY <3>1, <3>4, <3>5
    <3>7. w.built[t] \subseteq Wanted(w, t)
      BY <3>1
    <3> QED BY <3>3, <3>6, <3>7, Zenon
  <2>2. e.legacy \subseteq Wanted(e, "calls")
    BY <1>6, <1>8 DEF Solid
  <2>3. /\ 13 \in e.applied => e.shape = "new"
        /\ 15 \in e.applied => e.episodes = "new"
        /\ e.applied \cap Columns \subseteq e.columns
    BY <1>6, <1>11 DEF Solid
  <2>4. 7 \in e.applied => 3 \in e.applied
    BY <1>6, <1>12 DEF Solid
  <2> QED BY <2>1, <2>2, <2>3, <2>4 DEF Solid
<1>14. Pending(e, r)
  BY <1>1, <1>6, <1>11, TailPending DEF r
<1> QED BY <1>7, <1>13, <1>14 DEF r

\* Length, domain and elements of a concatenation.
LEMMA Concat ==
    ASSUME NEW S, NEW a \in Seq(S), NEW b \in Seq(S)
    PROVE  /\ Len(a) \in Nat /\ DOMAIN a = 1..Len(a) /\ Len(b) \in Nat /\ DOMAIN b = 1..Len(b)
           /\ a \o b \in Seq(S) /\ Len(a \o b) = Len(a) + Len(b)
           /\ DOMAIN (a \o b) = 1..(Len(a) + Len(b))
           /\ \A i \in 1..Len(a) : (a \o b)[i] = a[i]
           /\ \A i \in 1..Len(b) : (a \o b)[Len(a) + i] = b[i]
OBVIOUS

\* What the statements of version v, about to be executed on w, do.
GoodPiece(v, w, p) ==
    /\ p \in Seq(Plain(w))
    /\ \A t \in Derived : FilledBy[t] \in w.applied => \A i \in DOMAIN p : p[i] \notin Breakers(t)
    /\ WillHold(v, w, p)
    /\ \A t \in Triggers : Holds(TRUE, p, {Do("create_trigger", t)}, {Do("drop_trigger", t)})

\* What holds after the statements p holds after checks and records that follow them.
LEMMA WillHoldThrough ==
    ASSUME NEW w, NEW v \in Known, NEW n \in Nat, NEW m \in Nat, n <= m, NEW p, DOMAIN p = 1..n,
           NEW q, DOMAIN q = 1..m, \A i \in 1..n : q[i] = p[i],
           \A i \in 1..m : i > n => q[i] \in Checks \cup Records
    PROVE  /\ WillHold(v, w, p) => WillHold(v, w, q)
           /\ \A t : Holds(TRUE, p, {Do("create_trigger", t)}, {Do("drop_trigger", t)})
                       => Holds(TRUE, q, {Do("create_trigger", t)}, {Do("drop_trigger", t)})
<1>1. \A i \in 1..m : i > n => q[i].do \in {"check", "record"}
  BY DoIs DEF Checks, Records
<1>2. ASSUME NEW now, NEW makers, NEW breakers, Holds(now, p, makers, breakers),
             \A st \in breakers : st.do \notin {"check", "record"}
      PROVE  Holds(now, q, makers, breakers)
  <2>1. \A i \in 1..m : i > n => q[i] \notin breakers
    BY <1>1, <1>2
  <2> QED BY <1>2, <2>1, HoldsThrough
<1>3. ASSUME WillHold(v, w, p) PROVE WillHold(v, w, q)
  <2>1. ASSUME NEW t \in Derived, FilledBy[t] = v, NEW x \in Wanted(w, t)
        PROVE Holds(x \in w.built[t], q, Makers(t, x), Breakers(t))
    <3> DEFINE now == x \in w.built[t]
    <3>1. Holds(now, p, Makers(t, x), Breakers(t))
      BY <1>3, <2>1 DEF WillHold
    <3>2. \A st \in Breakers(t) : st.do \notin {"check", "record"}
      BY DoIs DEF Breakers
    <3> HIDE DEF now
    <3>3. Holds(now, q, Makers(t, x), Breakers(t))
      BY <1>2, <3>1, <3>2
    <3> QED BY <3>3 DEF now
  <2>2. ASSUME v = 13
        PROVE  Holds(w.shape = "new", q, {Do("create_table", "calls")}, {Do("rename", "calls")})
    <3> DEFINE now == w.shape = "new"
               make == {Do("create_table", "calls")}
               break == {Do("rename", "calls")}
    <3>1. Holds(now, p, make, break)
      BY <1>3, <2>2 DEF WillHold
    <3>2. \A st \in break : st.do \notin {"check", "record"}
      BY DoIs
    <3> HIDE DEF now, make, break
    <3>3. Holds(now, q, make, break)
      BY <1>2, <3>1, <3>2
    <3> QED BY <3>3 DEF now, make, break
  <2>3. ASSUME v = 13, w.shape = "old" PROVE 1 \in DOMAIN q /\ q[1] = Do("rename", "calls")
    <3>1. 1 \in 1..n /\ p[1] = Do("rename", "calls")
      BY <1>3, <2>3 DEF WillHold
    <3> QED BY <3>1
  <2>4. ASSUME v = 15
        PROVE  Holds(w.episodes = "new", q, {Do("create_table", "episodes")}, {Do("drop_table", "episodes")})
    <3> DEFINE now == w.episodes = "new"
               make == {Do("create_table", "episodes")}
               break == {Do("drop_table", "episodes")}
    <3>1. Holds(now, p, make, break)
      BY <1>3, <2>4 DEF WillHold
    <3>2. \A st \in break : st.do \notin {"check", "record"}
      BY DoIs
    <3> HIDE DEF now, make, break
    <3>3. Holds(now, q, make, break)
      BY <1>2, <3>1, <3>2
    <3> QED BY <3>3 DEF now, make, break
  <2>5. ASSUME v \in Columns PROVE Holds(v \in w.columns, q, {Do("add_columns", v)}, {})
    <3> DEFINE now == v \in w.columns
               make == {Do("add_columns", v)}
    <3>1. Holds(now, p, make, {})
      BY <1>3, <2>5 DEF WillHold
    <3> HIDE DEF now, make
    <3>2. Holds(now, q, make, {})
      BY <1>2, <3>1
    <3> QED BY <3>2 DEF now, make
  <2> QED BY <2>1, <2>2, <2>3, <2>4, <2>5 DEF WillHold
<1>4. ASSUME NEW t, Holds(TRUE, p, {Do("create_trigger", t)}, {Do("drop_trigger", t)})
      PROVE Holds(TRUE, q, {Do("create_trigger", t)}, {Do("drop_trigger", t)})
  <2> DEFINE make == {Do("create_trigger", t)}
             break == {Do("drop_trigger", t)}
  <2>1. \A st \in break : st.do \notin {"check", "record"}
    BY DoIs
  <2>2. Holds(TRUE, p, make, break)
    BY <1>4
  <2> HIDE DEF make, break
  <2>3. Holds(TRUE, q, make, break)
    BY <1>2, <2>1, <2>2
  <2> QED BY <2>3 DEF make, break
<1> QED BY <1>3, <1>4

\* At a check every trigger is there.
LEMMA TriggersAtCheck ==
    ASSUME NEW w, NEW s, Pending(w, s), s # <<>>, s[1] \in Checks
    PROVE  Triggers \subseteq w.triggers
<1> DEFINE n == Len(s)
           r == Tail(s)
<1>1. s[1] \in Checks \cup Records
  OBVIOUS
<1>2. /\ n \in Nat \ {0} /\ DOMAIN s = 1..n /\ DOMAIN r = 1..(n - 1)
      /\ \A i \in 1..(n - 1) : r[i] = s[i + 1]
      /\ \A i \in DOMAIN r : r[i] \in Checks
  BY <1>1, OnlyChecksFollow
<1> HIDE DEF n, r
<1>3. \A i \in DOMAIN s : s[i] \in Checks \cup Records
  <2>1. \A i \in 1..n : i = 1 \/ (i - 1 \in 1..(n - 1) /\ i = (i - 1) + 1)
    BY <1>2
  <2> QED BY <1>1, <1>2, <2>1
<1> QED BY <1>3, ChecksAreInert DEF Pending

\* A version not yet recorded puts its statements in front of the rest.
LEMMA StepCheckApply ==
    ASSUME NEW w, Solid(w), NEW s, Pending(w, s), s # <<>>, NEW v \in Known, s[1] = Do("check", v),
           NEW p, GoodPiece(v, w, p)
    PROVE  Pending(w, (p \o <<Do("record", v)>>) \o Tail(s))
<1> DEFINE r == Tail(s)
           q == (p \o <<Do("record", v)>>) \o r
           n == Len(p)
           k == Len(s) - 1
           All == Plain(w) \cup Checks \cup Records
<1>1. s[1] \in Checks /\ s[1] \in Checks \cup Records /\ Do("record", v) \in Records
  BY DEF Checks, Records
<1>2. /\ k \in Nat /\ DOMAIN s = 1..(k + 1) /\ DOMAIN r = 1..k
      /\ \A i \in 1..k : r[i] = s[i + 1] /\ i + 1 \in DOMAIN s
      /\ \A i \in DOMAIN r : r[i] \in Checks
      /\ r \in Seq(All) /\ Len(r) = k
  <2> DEFINE l == Len(s)
  <2>1. /\ l \in Nat \ {0} /\ DOMAIN s = 1..l /\ DOMAIN r = 1..(l - 1)
        /\ \A i \in 1..(l - 1) : r[i] = s[i + 1] /\ i + 1 \in DOMAIN s
        /\ \A i \in DOMAIN r : r[i] \in Checks
        /\ r \in Seq(All)
    BY <1>1, OnlyChecksFollow
  <2>2. k = l - 1
    OBVIOUS
  <2> HIDE DEF l, r, k, All
  <2>3. Len(r) = k
    BY <2>1, <2>2
  <2> QED BY <2>1, <2>2, <2>3
<1>3. n \in Nat /\ DOMAIN p = 1..n /\ p \in Seq(All)
  BY DEF GoodPiece
<1>4. /\ q \in Seq(All) /\ DOMAIN q = 1..(n + 1 + k)
      /\ \A i \in 1..n : q[i] = p[i]
      /\ q[n + 1] = Do("record", v)
      /\ \A i \in 1..(n + 1 + k) : i > n + 1 => q[i] = r[i - (n + 1)] /\ i - (n + 1) \in 1..k
  <2> DEFINE rec == <<Do("record", v)>>
             a == p \o rec
  <2>1. rec \in Seq(All) /\ Len(rec) = 1 /\ rec[1] = Do("record", v)
    BY <1>1
  <2> HIDE DEF r, n, k, All, rec
  <2>2. /\ a \in Seq(All) /\ Len(a) = n + 1
        /\ \A i \in 1..n : a[i] = p[i]
        /\ a[n + 1] = Do("record", v)
    <3>1. Len(p) = n
      BY DEF n
    <3>2. 1 \in 1..1
      OBVIOUS
    <3> QED BY <1>3, <2>1, <3>1, <3>2, Concat
  <2> HIDE DEF a
  <2>3. /\ a \o r \in Seq(All) /\ DOMAIN (a \o r) = 1..((n + 1) + k)
        /\ \A i \in 1..(n + 1) : (a \o r)[i] = a[i]
        /\ \A i \in 1..k : (a \o r)[(n + 1) + i] = r[i]
    <3>1. /\ a \o r \in Seq(All) /\ DOMAIN (a \o r) = 1..(Len(a) + Len(r))
          /\ \A i \in 1..Len(a) : (a \o r)[i] = a[i]
          /\ \A i \in 1..Len(r) : (a \o r)[Len(a) + i] = r[i]
      <4>1. a \in Seq(All) /\ r \in Seq(All)
        BY <1>2, <2>2
      <4> QED BY <4>1, Concat
    <3> QED BY <1>2, <2>2, <3>1
  <2>4. q = a \o r
    BY DEF a, rec
  <2> HIDE DEF q
  <2>5. ASSUME NEW i \in 1..(n + 1 + k), i > n + 1 PROVE q[i] = r[i - (n + 1)] /\ i - (n + 1) \in 1..k
    <3>1. i - (n + 1) \in 1..k /\ i = (n + 1) + (i - (n + 1))
      BY <1>2, <1>3, <2>5
    <3> QED BY <2>3, <2>4, <3>1
  <2>6. \A i \in 1..n : i \in 1..(n + 1)
    BY <1>3
  <2>7. n + 1 \in 1..(n + 1)
    BY <1>3
  <2> QED BY <1>2, <1>3, <2>2, <2>3, <2>4, <2>5, <2>6, <2>7
<1> HIDE DEF r, q, n, k, All
<1>5. /\ \A i \in 1..n : q[i] \in Plain(w) /\ q[i] \notin Checks /\ q[i] \notin Records
                         /\ \A u : q[i] # Do("check", u) /\ q[i] # Do("record", u)
      /\ \A i \in 1..(n + 1 + k) : i > n + 1 => q[i] \in Checks
  <2>1. \A i \in 1..n : p[i] \in Plain(w)
    BY <1>3 DEF GoodPiece
  <2> QED BY <1>4, <1>2, <2>1, PlainIsNeither
<1>6. \A i \in 1..(n + 1 + k) : i \in 1..n \/ i = n + 1 \/ i > n + 1
  BY <1>2, <1>3
<1>7. \A i \in 1..(n + 1 + k) : q[i].do = "record" => i \in 1..n \/ i = n + 1
  BY <1>5, <1>6, DoIs DEF Checks
<1>8. \A i, j \in DOMAIN q : i < j /\ q[i] \in Checks \cup Records => q[j] \in Checks
  <2> SUFFICES ASSUME NEW i \in 1..(n + 1 + k), NEW j \in 1..(n + 1 + k), i < j, q[i] \in Checks \cup Records
      PROVE q[j] \in Checks
    BY <1>4
  <2>1. i \notin 1..n
    BY <1>5
  <2>2. j > n + 1
    BY <1>2, <1>3, <1>6, <2>1
  <2> QED BY <1>5, <2>2
<1>9. \A u \in Known : u \in w.applied \/ \E i \in DOMAIN q : q[i] \in {Do("check", u), Do("record", u)}
  <2> SUFFICES ASSUME NEW u \in Known, u \notin w.applied
      PROVE \E i \in DOMAIN q : q[i] \in {Do("check", u), Do("record", u)}
    OBVIOUS
  <2>1. PICK i \in 1..(k + 1) : s[i] \in {Do("check", u), Do("record", u)}
    BY <1>2 DEF Pending
  <2>2. CASE i = 1
    <3>1. u = v
      BY <2>1, <2>2, DoIs
    <3>2. n + 1 \in DOMAIN q
      BY <1>2, <1>3, <1>4
    <3> QED BY <1>4, <3>1, <3>2
  <2>3. CASE i # 1
    <3>1. i - 1 \in 1..k /\ r[i - 1] = s[i] /\ n + i \in 1..(n + 1 + k) /\ n + i > n + 1
          /\ (n + i) - (n + 1) = i - 1
      BY <1>2, <1>3, <2>3
    <3>2. q[n + i] = s[i]
      BY <1>4, <3>1
    <3> QED BY <1>4, <2>1, <3>1, <3>2
  <2> QED BY <2>2, <2>3
<1>10. \A i \in DOMAIN q : \A u : q[i] = Do("record", u) => u = v
  <2> SUFFICES ASSUME NEW i \in 1..(n + 1 + k), NEW u, q[i] = Do("record", u) PROVE u = v
    BY <1>4
  <2>1. i = n + 1
    BY <1>5, <1>7, DoIs
  <2> QED BY <1>4, <2>1, DoIs
<1> DEFINE m == n + 1 + k
<1>11. \A i \in 1..m : i > n => q[i] \in Checks \cup Records
  <2> SUFFICES ASSUME NEW i \in 1..m, i > n PROVE q[i] \in Checks \cup Records
    OBVIOUS
  <2>1. i = n + 1 \/ i > n + 1
    BY <1>3
  <2> QED BY <1>1, <1>4, <1>5, <2>1
<1>12. m \in Nat /\ n <= m /\ DOMAIN q = 1..m
  BY <1>2, <1>3, <1>4
<1> HIDE DEF m
<1>13. \A i \in DOMAIN q : \A u \in Known : q[i] = Do("record", u) => WillHold(u, w, q)
  <2>1. WillHold(v, w, q)
    BY <1>3, <1>4, <1>11, <1>12, WillHoldThrough DEF GoodPiece
  <2> QED BY <1>10, <2>1
<1>14. \A t \in Derived : FilledBy[t] \in w.applied => \A i \in DOMAIN q : q[i] \notin Breakers(t)
  <2> SUFFICES ASSUME NEW t \in Derived, FilledBy[t] \in w.applied, NEW i \in 1..(n + 1 + k)
      PROVE q[i] \notin Breakers(t)
    BY <1>4
  <2>1. CASE i \in 1..n
    BY <1>3, <1>4, <2>1 DEF GoodPiece
  <2>2. CASE i \notin 1..n
    <3>1. q[i] \in Checks \cup Records
      BY <1>11, <1>3, <2>2 DEF m
    <3>2. q[i].do \in {"check", "record"}
      BY <3>1, DoIs DEF Checks, Records
    <3> QED BY <3>2, DoIs DEF Breakers
  <2> QED BY <2>1, <2>2
<1>15. v = 7 => 3 \in w.applied
  <2> SUFFICES ASSUME v = 7, 3 \notin w.applied PROVE FALSE
    OBVIOUS
  <2>1. PICK j \in 1..(k + 1) : s[j] \in {Do("check", 3), Do("record", 3)}
    BY <1>2 DEF Pending, Known
  <2>2. 1 \in DOMAIN s
    BY <1>2
  <2>3. j < 1
    BY <1>2, <2>1, <2>2 DEF Pending
  <2> QED BY <2>3
<1>16. \A i, j \in DOMAIN q : q[i] = Do("check", 7) /\ q[j] \in {Do("check", 3), Do("record", 3)} => j < i
  <2> SUFFICES ASSUME NEW i \in 1..(n + 1 + k), NEW j \in 1..(n + 1 + k), q[i] = Do("check", 7),
                      q[j] \in {Do("check", 3), Do("record", 3)}, ~ (j < i)
      PROVE FALSE
    BY <1>4
  <2>1. i > n + 1
    BY <1>4, <1>5, <1>6, DoIs
  <2>2. j > n + 1
    BY <1>2, <1>3, <2>1
  <2>3. /\ i - n \in 1..(k + 1) /\ q[i] = s[i - n]
        /\ j - n \in 1..(k + 1) /\ q[j] = s[j - n]
    <3>1. q[i] = r[i - (n + 1)] /\ i - (n + 1) \in 1..k /\ (i - (n + 1)) + 1 = i - n
      BY <1>2, <1>3, <1>4, <2>1
    <3>2. q[j] = r[j - (n + 1)] /\ j - (n + 1) \in 1..k /\ (j - (n + 1)) + 1 = j - n
      BY <1>2, <1>3, <1>4, <2>2
    <3> QED BY <1>2, <3>1, <3>2
  <2>4. j - n < i - n
    BY <1>2, <2>3 DEF Pending
  <2> QED BY <1>3, <2>4
<1>17. TriggersWillHold(w, q)
  <2> SUFFICES ASSUME NEW t \in Triggers
      PROVE Holds(t \in w.triggers, q, {Do("create_trigger", t)}, {Do("drop_trigger", t)})
    BY DEF TriggersWillHold
  <2>1. Holds(TRUE, q, {Do("create_trigger", t)}, {Do("drop_trigger", t)})
    BY <1>3, <1>4, <1>11, <1>12, WillHoldThrough DEF GoodPiece
  <2>2. t \in w.triggers
    BY <1>1, TriggersAtCheck
  <2> QED BY <2>1, <2>2 DEF Holds
<1> QED BY <1>4, <1>8, <1>9, <1>10, <1>13, <1>14, <1>15, <1>16, <1>17 DEF Pending, q, r, All

\* Sequences of one length with the same elements are the same.
LEMMA SameElements ==
    ASSUME NEW S, NEW x \in Seq(S), NEW y \in Seq(S), Len(x) = Len(y), \A i \in 1..Len(x) : x[i] = y[i]
    PROVE  x = y
OBVIOUS
\* Two pieces written as one list.
LEMMA JoinPairs ==
    ASSUME NEW a, NEW b, NEW c, NEW d PROVE <<a, b>> \o <<c, d>> = <<a, b, c, d>>
<1> DEFINE x == <<a, b>> \o <<c, d>>
           y == <<a, b, c, d>>
<1>1. x \in Seq({a, b, c, d}) /\ Len(x) = 4 /\ x[1] = a /\ x[2] = b /\ x[3] = c /\ x[4] = d
  OBVIOUS
<1>2. y \in Seq({a, b, c, d}) /\ Len(y) = 4 /\ y[1] = a /\ y[2] = b /\ y[3] = c /\ y[4] = d
  OBVIOUS
<1> HIDE DEF x, y
<1>3. \A i \in 1..4 : i \in {1, 2, 3, 4}
  OBVIOUS
<1>4. x = y
  BY <1>1, <1>2, <1>3, SameElements
<1> QED BY <1>4 DEF x, y
\* Two pieces written as one list.
LEMMA JoinFourAndTwo ==
    ASSUME NEW a, NEW b, NEW c, NEW d, NEW e, NEW f
    PROVE  <<a, b, c, d>> \o <<e, f>> = <<a, b, c, d, e, f>>
<1> DEFINE x == <<a, b, c, d>> \o <<e, f>>
           y == <<a, b, c, d, e, f>>
<1>1. x \in Seq({a, b, c, d, e, f}) /\ Len(x) = 6
      /\ x[1] = a /\ x[2] = b /\ x[3] = c /\ x[4] = d /\ x[5] = e /\ x[6] = f
  OBVIOUS
<1>2. y \in Seq({a, b, c, d, e, f}) /\ Len(y) = 6
      /\ y[1] = a /\ y[2] = b /\ y[3] = c /\ y[4] = d /\ y[5] = e /\ y[6] = f
  OBVIOUS
<1> HIDE DEF x, y
<1>3. \A i \in 1..6 : i \in {1, 2, 3, 4, 5, 6}
  OBVIOUS
<1>4. x = y
  BY <1>1, <1>2, <1>3, SameElements
<1> QED BY <1>4 DEF x, y
\* Two pieces written as one list.
LEMMA JoinSixAndTwo ==
    ASSUME NEW a, NEW b, NEW c, NEW d, NEW e, NEW f, NEW g, NEW h
    PROVE  <<a, b, c, d, e, f>> \o <<g, h>> = <<a, b, c, d, e, f, g, h>>
<1> DEFINE x == <<a, b, c, d, e, f>> \o <<g, h>>
           y == <<a, b, c, d, e, f, g, h>>
<1>1. x \in Seq({a, b, c, d, e, f, g, h}) /\ Len(x) = 8
      /\ x[1] = a /\ x[2] = b /\ x[3] = c /\ x[4] = d /\ x[5] = e /\ x[6] = f /\ x[7] = g /\ x[8] = h
  OBVIOUS
<1>2. y \in Seq({a, b, c, d, e, f, g, h}) /\ Len(y) = 8
      /\ y[1] = a /\ y[2] = b /\ y[3] = c /\ y[4] = d /\ y[5] = e /\ y[6] = f /\ y[7] = g /\ y[8] = h
  OBVIOUS
<1> HIDE DEF x, y
<1>3. \A i \in 1..8 : i \in {1, 2, 3, 4, 5, 6, 7, 8}
  OBVIOUS
<1>4. x = y
  BY <1>1, <1>2, <1>3, SameElements
<1> QED BY <1>4 DEF x, y

\* Two pieces written as one list.
LEMMA JoinOneAndTwo ==
    ASSUME NEW a, NEW b, NEW c
    PROVE  <<a>> \o <<b, c>> = <<a, b, c>>
<1> DEFINE x == <<a>> \o <<b, c>>
           y == <<a, b, c>>
<1>1. x \in Seq({a, b, c}) /\ Len(x) = 3 /\ x[1] = a /\ x[2] = b /\ x[3] = c
  OBVIOUS
<1>2. y \in Seq({a, b, c}) /\ Len(y) = 3 /\ y[1] = a /\ y[2] = b /\ y[3] = c
  OBVIOUS
<1> HIDE DEF x, y
<1>3. \A i \in 1..3 : i \in {1, 2, 3}
  OBVIOUS
<1>4. x = y
  BY <1>1, <1>2, <1>3, SameElements
<1> QED BY <1>4 DEF x, y

\* Two pieces written as one list.
LEMMA JoinThreeAndTwo ==
    ASSUME NEW a, NEW b, NEW c, NEW d, NEW e
    PROVE  <<a, b, c>> \o <<d, e>> = <<a, b, c, d, e>>
<1> DEFINE x == <<a, b, c>> \o <<d, e>>
           y == <<a, b, c, d, e>>
<1>1. x \in Seq({a, b, c, d, e}) /\ Len(x) = 5 /\ x[1] = a /\ x[2] = b /\ x[3] = c /\ x[4] = d /\ x[5] = e
  OBVIOUS
<1>2. y \in Seq({a, b, c, d, e}) /\ Len(y) = 5 /\ y[1] = a /\ y[2] = b /\ y[3] = c /\ y[4] = d /\ y[5] = e
  OBVIOUS
<1> HIDE DEF x, y
<1>3. \A i \in 1..5 : i \in {1, 2, 3, 4, 5}
  OBVIOUS
<1>4. x = y
  BY <1>1, <1>2, <1>3, SameElements
<1> QED BY <1>4 DEF x, y

\* Every derived table is filled by one version.
LEMMA FillingVersions ==
    /\ FilledBy["message"] = 3 /\ FilledBy["artifact"] = 7 /\ FilledBy["tokens"] = 5
    /\ FilledBy["calls"] = 13 /\ FilledBy["episodes"] = 15
    /\ \A t \in Derived : /\ FilledBy[t] \in {3, 5, 7, 13, 15}
                          /\ FilledBy[t] = 3 => t = "message"
                          /\ FilledBy[t] = 5 => t = "tokens"
                          /\ FilledBy[t] = 7 => t = "artifact"
                          /\ FilledBy[t] = 13 => t = "calls"
                          /\ FilledBy[t] = 15 => t = "episodes"
BY DEF FilledBy, Derived

\* The statements of the versions that add columns.
LEMMA ColumnsPiece ==
    ASSUME NEW w, NEW v \in Columns PROVE GoodPiece(v, w, Statements(v, w))
<1> DEFINE p == Statements(v, w)
<1>1. v \notin {3, 5, 7, 13, 14, 15}
  BY DEF Columns
<1>2. p = <<Do("add_columns", v)>>
  BY <1>1 DEF Statements, AddColumns
<1>3. DOMAIN p = 1..1 /\ p[1] = Do("add_columns", v) /\ \A i \in 1..1 : i = 1
  BY <1>2
<1>4. Do("add_columns", v) \in Plain(w)
  BY DEF Plain
<1>5. p \in Seq(Plain(w))
  <2>1. \A st \in Plain(w) : <<st>> \in Seq(Plain(w))
    OBVIOUS
  <2> HIDE DEF p
  <2> QED BY <1>2, <1>4, <2>1
<1> HIDE DEF p
<1>6. \A t \in Derived : \A i \in DOMAIN p : p[i] \notin Breakers(t)
  BY <1>3, DoIs DEF Breakers
<1>7. WillHold(v, w, p)
  <2>1. \A t \in Derived : FilledBy[t] # v
    BY <1>1, FillingVersions
  <2>2. Holds(v \in w.columns, p, {Do("add_columns", v)}, {})
    BY <1>3 DEF Holds
  <2> QED BY <1>1, <2>1, <2>2 DEF WillHold
<1>8. \A t \in Triggers : Holds(TRUE, p, {Do("create_trigger", t)}, {Do("drop_trigger", t)})
  BY <1>3, DoIs DEF Holds
<1> QED BY <1>5, <1>6, <1>7, <1>8 DEF GoodPiece, p

\* The statements of the version that adds token counts.
LEMMA TokensPiece ==
    ASSUME NEW w PROVE GoodPiece(5, w, Statements(5, w))
<1> DEFINE p == Statements(5, w)
<1>1. 5 \notin Columns
  BY DEF Columns
<1>2. p = <<Do("fill", "tokens")>>
  BY <1>1 DEF Statements, FillTokens
<1>3. DOMAIN p = 1..1 /\ p[1] = Do("fill", "tokens") /\ \A i \in 1..1 : i = 1
  BY <1>2
<1>4. Do("fill", "tokens") \in Plain(w)
  BY DEF Plain
<1>5. p \in Seq(Plain(w))
  <2>1. \A st \in Plain(w) : <<st>> \in Seq(Plain(w))
    OBVIOUS
  <2> HIDE DEF p
  <2> QED BY <1>2, <1>4, <2>1
<1> HIDE DEF p
<1>6. \A t \in Derived : \A i \in DOMAIN p : p[i] \notin Breakers(t)
  BY <1>3, DoIs DEF Breakers
<1>7. WillHold(5, w, p)
  <2>1. ASSUME NEW t \in Derived, FilledBy[t] = 5, NEW x \in Wanted(w, t)
        PROVE Holds(x \in w.built[t], p, Makers(t, x), Breakers(t))
    <3>1. p[1] \in Makers(t, x) /\ \A j \in DOMAIN p : ~ (j > 1)
      BY <1>3, <2>1, FillingVersions DEF Makers
    <3> QED BY <1>3, <3>1 DEF Holds
  <2> QED BY <1>1, <2>1 DEF WillHold
<1>8. \A t \in Triggers : Holds(TRUE, p, {Do("create_trigger", t)}, {Do("drop_trigger", t)})
  BY <1>3, DoIs DEF Holds
<1> QED BY <1>5, <1>6, <1>7, <1>8 DEF GoodPiece, p

\* The statements of the versions that build the text index again.
LEMMA TextPiece ==
    ASSUME NEW w, Solid(w), 3 \notin w.applied PROVE GoodPiece(3, w, Statements(3, w))
<1> DEFINE p == Statements(3, w)
<1>1. 3 \notin Columns /\ 7 \notin w.applied
  BY DEF Columns, Solid
<1>2. p = <<Do("drop_trigger", "message"), Do("drop_trigger", "artifact"),
            Do("empty", "message"), Do("fill", "message"), Do("empty", "artifact"), Do("fill", "artifact"),
            Do("create_trigger", "message"), Do("create_trigger", "artifact")>>
  <2>1. p = <<Do("drop_trigger", "message"), Do("drop_trigger", "artifact")>>
              \o Rebuild("message") \o Rebuild("artifact")
              \o <<Do("create_trigger", "message"), Do("create_trigger", "artifact")>>
    BY <1>1 DEF Statements
  <2> DEFINE a == Do("drop_trigger", "message")
             b == Do("drop_trigger", "artifact")
             c == Do("empty", "message")
             d == Do("fill", "message")
             e == Do("empty", "artifact")
             f == Do("fill", "artifact")
             g == Do("create_trigger", "message")
             h == Do("create_trigger", "artifact")
  <2>2. p = <<a, b>> \o <<c, d>> \o <<e, f>> \o <<g, h>>
    BY <2>1 DEF Rebuild
  <2> HIDE DEF p, a, b, c, d, e, f, g, h
  <2>3. p = <<a, b, c, d, e, f, g, h>>
    <3>1. <<a, b>> \o <<c, d>> = <<a, b, c, d>>
      BY JoinPairs
    <3>2. <<a, b, c, d>> \o <<e, f>> = <<a, b, c, d, e, f>>
      BY JoinFourAndTwo
    <3>3. <<a, b, c, d, e, f>> \o <<g, h>> = <<a, b, c, d, e, f, g, h>>
      BY JoinSixAndTwo
    <3> QED BY <2>2, <3>1, <3>2, <3>3
  <2> QED BY <2>3 DEF a, b, c, d, e, f, g, h
<1>3. /\ DOMAIN p = 1..8
      /\ p[1] = Do("drop_trigger", "message") /\ p[2] = Do("drop_trigger", "artifact")
      /\ p[3] = Do("empty", "message") /\ p[4] = Do("fill", "message")
      /\ p[5] = Do("empty", "artifact") /\ p[6] = Do("fill", "artifact")
      /\ p[7] = Do("create_trigger", "message") /\ p[8] = Do("create_trigger", "artifact")
      /\ \A i \in 1..8 : i \in {1, 2, 3, 4, 5, 6, 7, 8}
  BY <1>2
<1>4. \A i \in 1..8 : p[i] \in Plain(w)
  BY <1>3 DEF Plain, Triggers
<1>5. p \in Seq(Plain(w))
  <2>1. \A a, b, c, d, e, f, g, h \in Plain(w) : <<a, b, c, d, e, f, g, h>> \in Seq(Plain(w))
    OBVIOUS
  <2> HIDE DEF p
  <2> QED BY <1>2, <1>3, <1>4, <2>1
<1> HIDE DEF p
<1>6. ASSUME NEW t \in Derived, FilledBy[t] \in w.applied, NEW i \in DOMAIN p PROVE p[i] \notin Breakers(t)
  <2>1. t \notin {"message", "artifact"}
    BY <1>1, <1>6, FillingVersions
  <2> QED BY <1>3, <2>1, DoIs DEF Breakers
<1>7. WillHold(3, w, p)
  <2>1. ASSUME NEW t \in Derived, FilledBy[t] = 3, NEW x \in Wanted(w, t)
        PROVE Holds(x \in w.built[t], p, Makers(t, x), Breakers(t))
    <3>1. t = "message"
      BY <2>1, FillingVersions
    <3>2. p[4] \in Makers(t, x)
      BY <1>3, <3>1 DEF Makers
    <3>3. \A j \in DOMAIN p : j > 4 => p[j] \notin Breakers(t)
      BY <1>3, <3>1, DoIs DEF Breakers
    <3> QED BY <1>3, <3>2, <3>3 DEF Holds
  <2> QED BY <1>1, <2>1 DEF WillHold
<1>8. ASSUME NEW t \in Triggers
      PROVE Holds(TRUE, p, {Do("create_trigger", t)}, {Do("drop_trigger", t)})
  <2>1. CASE t = "message"
    BY <1>3, <2>1, DoIs DEF Holds
  <2>2. CASE t = "artifact"
    BY <1>3, <2>2, DoIs DEF Holds
  <2>3. CASE t = "calls"
    BY <1>3, <2>3, DoIs DEF Holds
  <2> QED BY <2>1, <2>2, <2>3 DEF Triggers
<1> QED BY <1>5, <1>6, <1>7, <1>8 DEF GoodPiece, p

\* The statements of the versions that build the artifact tables again.
LEMMA ArtifactPiece ==
    ASSUME NEW w, 7 \notin w.applied PROVE GoodPiece(7, w, Statements(7, w))
<1> DEFINE p == Statements(7, w)
<1>1. 7 \notin Columns
  BY DEF Columns
<1>2. p = <<Do("drop_trigger", "artifact"), Do("create_trigger", "artifact"),
            Do("empty", "artifact"), Do("fill", "artifact")>>
  <2>1. p = <<Do("drop_trigger", "artifact"), Do("create_trigger", "artifact")>> \o Rebuild("artifact")
    BY <1>1 DEF Statements
  <2> HIDE DEF p
  <2> QED BY <2>1, JoinPairs DEF Rebuild
<1>3. /\ DOMAIN p = 1..4
      /\ p[1] = Do("drop_trigger", "artifact") /\ p[2] = Do("create_trigger", "artifact")
      /\ p[3] = Do("empty", "artifact") /\ p[4] = Do("fill", "artifact")
      /\ \A i \in 1..4 : i \in {1, 2, 3, 4}
  BY <1>2
<1>4. \A i \in 1..4 : p[i] \in Plain(w)
  BY <1>3 DEF Plain, Triggers
<1>5. p \in Seq(Plain(w))
  <2>1. \A a, b, c, d \in Plain(w) : <<a, b, c, d>> \in Seq(Plain(w))
    OBVIOUS
  <2> HIDE DEF p
  <2> QED BY <1>2, <1>3, <1>4, <2>1
<1> HIDE DEF p
<1>6. ASSUME NEW t \in Derived, FilledBy[t] \in w.applied, NEW i \in DOMAIN p PROVE p[i] \notin Breakers(t)
  <2>1. t # "artifact"
    BY <1>6, FillingVersions
  <2> QED BY <1>3, <2>1, DoIs DEF Breakers
<1>7. WillHold(7, w, p)
  <2>1. ASSUME NEW t \in Derived, FilledBy[t] = 7, NEW x \in Wanted(w, t)
        PROVE Holds(x \in w.built[t], p, Makers(t, x), Breakers(t))
    <3>1. p[4] \in Makers(t, x) /\ \A j \in DOMAIN p : ~ (j > 4)
      BY <1>3, <2>1, FillingVersions DEF Makers
    <3> QED BY <1>3, <3>1 DEF Holds
  <2> QED BY <1>1, <2>1 DEF WillHold
<1>8. ASSUME NEW t \in Triggers
      PROVE Holds(TRUE, p, {Do("create_trigger", t)}, {Do("drop_trigger", t)})
  <2>1. CASE t = "artifact"
    BY <1>3, <2>1, DoIs DEF Holds
  <2>2. CASE t # "artifact"
    BY <1>3, <2>2, DoIs DEF Holds
  <2> QED BY <2>1, <2>2
<1> QED BY <1>5, <1>6, <1>7, <1>8 DEF GoodPiece, p

\* A backfill of t after other statements.
WithBackfill(a, t, w) == a \o Backfill(t, w)

\* A piece that ends in the backfill makes what the backfill makes.
LEMMA ThenBackfill ==
    ASSUME NEW w, NEW t \in {"calls", "episodes"}, NEW a \in Seq(Plain(w)),
           NEW p, p = WithBackfill(a, t, w)
    PROVE  /\ p \in Seq(Plain(w)) /\ Len(a) \in Nat /\ Len(p) \in Nat /\ DOMAIN p = 1..Len(p)
           /\ Len(a) <= Len(p)
           /\ \A i \in 1..Len(a) : p[i] = a[i]
           /\ \A i \in 1..Len(p) : i > Len(a) => \E x \in Wanted(w, t) : p[i] = Do(t, x)
           /\ \A x \in Wanted(w, t) : \A now : Holds(now, p, Makers(t, x), Breakers(t))
<1> DEFINE b == Backfill(t, w)
           k == Len(a)
           n == Len(b)
<1>1. /\ b \in Seq({Do(t, x) : x \in Wanted(w, t)})
      /\ \A x \in Wanted(w, t) : \E i \in DOMAIN b : b[i] = Do(t, x)
  BY BackfillCovers
<1>2. {Do(t, x) : x \in Wanted(w, t)} \subseteq Plain(w)
  BY DEF Plain
<1> HIDE DEF b
<1>3. /\ n \in Nat /\ DOMAIN b = 1..n /\ b \in Seq(Plain(w))
      /\ \A i \in 1..n : \E x \in Wanted(w, t) : b[i] = Do(t, x)
  BY <1>1, <1>2
<1>4. /\ k \in Nat /\ DOMAIN a = 1..k
      /\ p \in Seq(Plain(w)) /\ Len(p) = k + n /\ DOMAIN p = 1..(k + n)
      /\ \A i \in 1..k : p[i] = a[i]
      /\ \A i \in 1..n : p[k + i] = b[i]
  <2>1. p = a \o b
    BY DEF b, WithBackfill
  <2>2. /\ k \in Nat /\ DOMAIN a = 1..k
        /\ a \o b \in Seq(Plain(w)) /\ Len(a \o b) = k + n /\ DOMAIN (a \o b) = 1..(k + n)
        /\ \A i \in 1..k : (a \o b)[i] = a[i]
        /\ \A i \in 1..n : (a \o b)[k + i] = b[i]
    BY <1>3, Concat
  <2> QED BY <2>1, <2>2
<1> HIDE DEF k, n
<1>5. \A i \in 1..(k + n) : i > k => \E x \in Wanted(w, t) : p[i] = Do(t, x)
  <2> SUFFICES ASSUME NEW i \in 1..(k + n), i > k PROVE \E x \in Wanted(w, t) : p[i] = Do(t, x)
    OBVIOUS
  <2>1. i - k \in 1..n /\ k + (i - k) = i
    BY <1>3, <1>4
  <2> QED BY <1>3, <1>4, <2>1
<1>6. ASSUME NEW x \in Wanted(w, t), NEW now PROVE Holds(now, p, Makers(t, x), Breakers(t))
  <2>1. PICK i \in 1..n : b[i] = Do(t, x)
    BY <1>1, <1>3
  <2>2. \A j \in 1..n : b[j] \notin Breakers(t)
    <3>1. \A j \in 1..n : b[j].do = t
      BY <1>3, DoIs
    <3>2. \A st \in Breakers(t) : st.do \in {"empty", "drop_table", "rename"}
      BY DoIs DEF Breakers
    <3> QED BY <3>1, <3>2
  <2> DEFINE make == Makers(t, x)
             break == Breakers(t)
  <2>3. b[i] \in make
    BY <2>1 DEF Makers
  <2> HIDE DEF make, break
  <2>4. Holds(FALSE, b, make, break)
    BY <1>3, <2>2, <2>3 DEF Holds, break
  <2>5. Holds(now, p, make, break)
    BY <1>3, <1>4, <2>4, HoldsAfter
  <2> QED BY <2>5 DEF make, break
<1> QED BY <1>3, <1>4, <1>5, <1>6 DEF k

\* The statements before a backfill of t, and the backfill.
LeadIn(v, w, a) ==
    /\ a \in Seq(Plain(w))
    /\ \A u \in Derived : FilledBy[u] \in w.applied => \A i \in DOMAIN a : a[i] \notin Breakers(u)
    /\ \A u \in Triggers : Holds(TRUE, a, {Do("create_trigger", u)}, {Do("drop_trigger", u)})
    /\ v = 13 => /\ Holds(w.shape = "new", a, {Do("create_table", "calls")}, {Do("rename", "calls")})
                 /\ w.shape = "old" => 1 \in DOMAIN a /\ a[1] = Do("rename", "calls")
    /\ v = 15 => Holds(w.episodes = "new", a, {Do("create_table", "episodes")},
                                              {Do("drop_table", "episodes")})

\* The statements of the versions that only fill tables.
LEMMA BackfillPiece ==
    ASSUME NEW w, NEW t \in {"calls", "episodes"}, NEW v \in {13, 14, 15},
           v = 13 => t = "calls", v = 15 => t = "episodes", NEW a, LeadIn(v, w, a)
    PROVE  GoodPiece(v, w, WithBackfill(a, t, w))
<1> DEFINE p == WithBackfill(a, t, w)
           k == Len(a)
           n == Len(p)
<1>1. DOMAIN a = 1..k /\ a \in Seq(Plain(w))
  BY DEF LeadIn
<1>2. /\ p \in Seq(Plain(w)) /\ k \in Nat /\ n \in Nat /\ DOMAIN p = 1..n /\ k <= n /\ DOMAIN a = 1..k
      /\ \A i \in 1..k : p[i] = a[i]
      /\ \A i \in 1..n : i > k => \E x \in Wanted(w, t) : p[i] = Do(t, x)
      /\ \A x \in Wanted(w, t) : \A now : Holds(now, p, Makers(t, x), Breakers(t))
  BY <1>1, ThenBackfill
<1> HIDE DEF k, n, p
<1>3. \A i \in 1..n : i > k => p[i].do \in {"calls", "episodes"}
  BY <1>2, DoIs
<1>4. ASSUME NEW now, NEW makers, NEW breakers, Holds(now, a, makers, breakers),
             \A st \in breakers : st.do \notin {"calls", "episodes"}
      PROVE  Holds(now, p, makers, breakers)
  <2>1. \A i \in 1..n : i > k => p[i] \notin breakers
    BY <1>3, <1>4
  <2> QED BY <1>2, <1>4, <2>1, HoldsThrough
<1>5. ASSUME NEW u \in Derived, FilledBy[u] \in w.applied, NEW i \in DOMAIN p PROVE p[i] \notin Breakers(u)
  <2>1. CASE i \in 1..k
    BY <1>2, <1>5, <2>1 DEF LeadIn
  <2>2. CASE i \notin 1..k
    <3>1. p[i].do \in {"calls", "episodes"}
      BY <1>2, <1>3, <2>2
    <3> QED BY <3>1, DoIs DEF Breakers
  <2> QED BY <2>1, <2>2
<1>6. ASSUME NEW u \in Triggers
      PROVE Holds(TRUE, p, {Do("create_trigger", u)}, {Do("drop_trigger", u)})
  <2> DEFINE make == {Do("create_trigger", u)}
             break == {Do("drop_trigger", u)}
  <2>1. \A st \in break : st.do \notin {"calls", "episodes"}
    BY DoIs
  <2>2. Holds(TRUE, a, make, break)
    BY DEF LeadIn
  <2> HIDE DEF make, break
  <2>3. Holds(TRUE, p, make, break)
    BY <1>4, <2>1, <2>2
  <2> QED BY <2>3 DEF make, break
<1>7. WillHold(v, w, p)
  <2>1. ASSUME NEW u \in Derived, FilledBy[u] = v, NEW x \in Wanted(w, u)
        PROVE Holds(x \in w.built[u], p, Makers(u, x), Breakers(u))
    <3>1. u = t
      BY <2>1, FillingVersions
    <3> DEFINE now == x \in w.built[u]
    <3> HIDE DEF now
    <3>2. Holds(now, p, Makers(u, x), Breakers(u))
      BY <1>2, <2>1, <3>1
    <3> QED BY <3>2 DEF now
  <2>2. ASSUME v = 13
        PROVE  /\ Holds(w.shape = "new", p, {Do("create_table", "calls")}, {Do("rename", "calls")})
               /\ w.shape = "old" => 1 \in DOMAIN p /\ p[1] = Do("rename", "calls")
    <3> DEFINE now == w.shape = "new"
               make == {Do("create_table", "calls")}
               break == {Do("rename", "calls")}
    <3>1. \A st \in break : st.do \notin {"calls", "episodes"}
      BY DoIs
    <3>2. Holds(now, a, make, break)
      BY <2>2 DEF LeadIn
    <3> HIDE DEF now, make, break
    <3>3. Holds(now, p, make, break)
      BY <1>4, <3>1, <3>2
    <3>4. w.shape = "old" => 1 \in DOMAIN p /\ p[1] = Do("rename", "calls")
      <4>1. w.shape = "old" => 1 \in 1..k /\ a[1] = Do("rename", "calls")
        BY <1>2, <2>2 DEF LeadIn
      <4> QED BY <1>2, <4>1
    <3> QED BY <3>3, <3>4 DEF now, make, break
  <2>3. ASSUME v = 15
        PROVE  Holds(w.episodes = "new", p, {Do("create_table", "episodes")}, {Do("drop_table", "episodes")})
    <3> DEFINE now == w.episodes = "new"
               make == {Do("create_table", "episodes")}
               break == {Do("drop_table", "episodes")}
    <3>1. \A st \in break : st.do \notin {"calls", "episodes"}
      BY DoIs
    <3>2. Holds(now, a, make, break)
      BY <2>3 DEF LeadIn
    <3> HIDE DEF now, make, break
    <3>3. Holds(now, p, make, break)
      BY <1>4, <3>1, <3>2
    <3> QED BY <3>3 DEF now, make, break
  <2>4. v \notin Columns
    BY DEF Columns
  <2> QED BY <2>1, <2>2, <2>3, <2>4 DEF WillHold
<1> QED BY <1>2, <1>5, <1>6, <1>7 DEF GoodPiece, p

\* The statements of the versions that create and fill the episodes.
LEMMA EpisodesPieces ==
    ASSUME NEW w, NEW v \in {14, 15}, v \notin w.applied PROVE GoodPiece(v, w, Statements(v, w))
<1>1. v \notin Columns
  BY DEF Columns
<1>2. CASE v = 14
  <2> DEFINE a == <<Do("create_table", "episodes")>>
  <2>1. Statements(v, w) = WithBackfill(a, "episodes", w)
    BY <1>1, <1>2 DEF Statements, WithBackfill
  <2>2. Do("create_table", "episodes") \in Plain(w)
    BY DEF Plain
  <2>3. a \in Seq(Plain(w)) /\ DOMAIN a = 1..1 /\ a[1] = Do("create_table", "episodes") /\ \A i \in 1..1 : i = 1
    BY <2>2
  <2> HIDE DEF a
  <2>4. \A u \in Derived : \A i \in DOMAIN a : a[i] \notin Breakers(u)
    BY <2>3, DoIs DEF Breakers
  <2>5. \A u \in Triggers : Holds(TRUE, a, {Do("create_trigger", u)}, {Do("drop_trigger", u)})
    BY <2>3, DoIs DEF Holds
  <2>6. LeadIn(14, w, a)
    <3>1. 14 # 13 /\ 14 # 15
      OBVIOUS
    <3> QED BY <3>1, <2>3, <2>4, <2>5, Zenon DEF LeadIn
  <2> QED BY <1>2, <2>1, <2>6, BackfillPiece
<1>3. CASE v = 15
  <2> DEFINE a == <<Do("drop_table", "episodes"), Do("create_table", "episodes")>>
  <2>1. Statements(v, w) = WithBackfill(a, "episodes", w)
    BY <1>1, <1>3 DEF Statements, RecreateEpisodes, WithBackfill
  <2>2. Do("create_table", "episodes") \in Plain(w) /\ Do("drop_table", "episodes") \in Plain(w)
    BY DEF Plain
  <2>3. a \in Seq(Plain(w)) /\ DOMAIN a = 1..2 /\ a[1] = Do("drop_table", "episodes")
        /\ a[2] = Do("create_table", "episodes") /\ \A i \in 1..2 : i \in {1, 2}
    BY <2>2
  <2> HIDE DEF a
  <2>4. ASSUME NEW u \in Derived, FilledBy[u] \in w.applied, NEW i \in DOMAIN a PROVE a[i] \notin Breakers(u)
    <3>1. u # "episodes"
      BY <1>3, <2>4, FillingVersions
    <3> QED BY <2>3, <3>1, DoIs DEF Breakers
  <2>5. \A u \in Triggers : Holds(TRUE, a, {Do("create_trigger", u)}, {Do("drop_trigger", u)})
    BY <2>3, DoIs DEF Holds
  <2>6. Holds(w.episodes = "new", a, {Do("create_table", "episodes")}, {Do("drop_table", "episodes")})
    <3>1. \A j \in DOMAIN a : ~ (j > 2)
      BY <2>3
    <3> QED BY <2>3, <3>1 DEF Holds
  <2>7. LeadIn(15, w, a)
    <3>1. 15 # 13
      OBVIOUS
    <3> QED BY <3>1, <2>3, <2>4, <2>5, <2>6, Zenon DEF LeadIn
  <2> QED BY <1>3, <2>1, <2>7, BackfillPiece
<1> QED BY <1>2, <1>3

\* The statements of the version that creates the tool invocations.
LEMMA CallsPiece ==
    ASSUME NEW w, w.shape \in {"none", "old", "new"}, 13 \notin w.applied
    PROVE  GoodPiece(13, w, Statements(13, w))
<1> DEFINE a == EnsureInvocations(w)
           drop == Do("drop_trigger", "calls")
           create == Do("create_trigger", "calls")
           table == Do("create_table", "calls")
           rename == Do("rename", "calls")
           copy == Do("copy", "calls")
<1>1. 13 \notin Columns
  BY DEF Columns
<1>2. Statements(13, w) = WithBackfill(a, "calls", w)
  BY <1>1 DEF Statements, WithBackfill
<1>3. {drop, create, table, rename, copy} \subseteq Plain(w)
  BY DEF Plain, Triggers
<1>4. \/ w.shape = "none" /\ a = <<table, drop, create>>
      \/ w.shape = "old" /\ a = <<rename, table, copy, drop, create>>
      \/ w.shape = "new" /\ a = <<drop, create>>
  BY JoinOneAndTwo, JoinThreeAndTwo DEF EnsureInvocations
<1> HIDE DEF a
<1>5. PICK k \in {2, 3, 5} :
        /\ a \in Seq(Plain(w)) /\ DOMAIN a = 1..k
        /\ a[k - 1] = drop /\ a[k] = create
        /\ \A i \in 1..k : a[i] \in {drop, create, table, rename, copy}
        /\ w.shape = "none" => k = 3 /\ a[1] = table
        /\ w.shape = "old" => k = 5 /\ a[1] = rename /\ a[2] = table /\ a[3] = copy
        /\ w.shape = "new" => k = 2
  <2>1. CASE w.shape = "none"
    <3>1. a = <<table, drop, create>>
      BY <1>4, <2>1
    <3> HIDE DEF drop, create, table, rename, copy
    <3>2. a \in Seq(Plain(w)) /\ DOMAIN a = 1..3 /\ a[1] = table /\ a[2] = drop /\ a[3] = create
          /\ \A i \in 1..3 : i \in {1, 2, 3}
      BY <1>3, <3>1
    <3> QED BY <2>1, <3>2
  <2>2. CASE w.shape = "old"
    <3>1. a = <<rename, table, copy, drop, create>>
      BY <1>4, <2>2
    <3> HIDE DEF drop, create, table, rename, copy
    <3>2. a \in Seq(Plain(w)) /\ DOMAIN a = 1..5 /\ a[1] = rename /\ a[2] = table /\ a[3] = copy
          /\ a[4] = drop /\ a[5] = create
          /\ \A i \in 1..5 : i \in {1, 2, 3, 4, 5}
      BY <1>3, <3>1
    <3> QED BY <2>2, <3>2
  <2>3. CASE w.shape = "new"
    <3>1. a = <<drop, create>>
      BY <1>4, <2>3
    <3> HIDE DEF drop, create, table, rename, copy
    <3>2. a \in Seq(Plain(w)) /\ DOMAIN a = 1..2 /\ a[1] = drop /\ a[2] = create
          /\ \A i \in 1..2 : i \in {1, 2}
      BY <1>3, <3>1
    <3> QED BY <2>3, <3>2
  <2> QED BY <2>1, <2>2, <2>3
<1>6. ASSUME NEW u \in Derived, FilledBy[u] \in w.applied, NEW i \in DOMAIN a PROVE a[i] \notin Breakers(u)
  <2>1. u # "calls"
    BY <1>6, FillingVersions
  <2> QED BY <1>5, <2>1, DoIs DEF Breakers
<1>7. ASSUME NEW u \in Triggers PROVE Holds(TRUE, a, {Do("create_trigger", u)}, {Do("drop_trigger", u)})
  <2>1. CASE u = "calls"
    <3>1. k \in DOMAIN a /\ a[k] \in {Do("create_trigger", u)} /\ \A j \in DOMAIN a : ~ (j > k)
      BY <1>5, <2>1
    <3> QED BY <3>1 DEF Holds
  <2>2. CASE u # "calls"
    <3>1. \A i \in DOMAIN a : a[i] \notin {Do("drop_trigger", u)}
      BY <1>5, <2>2, DoIs
    <3> QED BY <3>1 DEF Holds
  <2> QED BY <2>1, <2>2
<1>8. Holds(w.shape = "new", a, {table}, {rename})
  <2>1. CASE w.shape = "none"
    <3>1. 1 \in DOMAIN a /\ a[1] = table /\ \A j \in DOMAIN a : j > 1 => a[j] # rename
      <4>1. k = 3 /\ a[1] = table /\ a[2] = drop /\ a[3] = create /\ \A j \in 1..3 : j \in {1, 2, 3}
        BY <1>5, <2>1
      <4> QED BY <1>5, <4>1, DoIs
    <3> QED BY <3>1 DEF Holds
  <2>2. CASE w.shape = "old"
    <3>1. 2 \in DOMAIN a /\ a[2] = table /\ \A j \in DOMAIN a : j > 2 => a[j] # rename
      <4>1. k = 5 /\ a[2] = table /\ a[3] = copy /\ a[4] = drop /\ a[5] = create
            /\ \A j \in 1..5 : j \in {1, 2, 3, 4, 5}
        BY <1>5, <2>2
      <4> QED BY <1>5, <4>1, DoIs
    <3> QED BY <3>1 DEF Holds
  <2>3. CASE w.shape = "new"
    <3>1. \A j \in DOMAIN a : a[j] # rename
      <4>1. k = 2 /\ a[1] = drop /\ a[2] = create /\ \A j \in 1..2 : j \in {1, 2}
        BY <1>5, <2>3
      <4> QED BY <1>5, <4>1, DoIs
    <3> QED BY <2>3, <3>1 DEF Holds
  <2> QED BY <2>1, <2>2, <2>3
<1>9. w.shape = "old" => 1 \in DOMAIN a /\ a[1] = rename
  BY <1>5
<1>10. LeadIn(13, w, a)
  <2>1. 13 # 15 /\ a \in Seq(Plain(w))
    BY <1>5
  <2> QED BY <2>1, <1>6, <1>7, <1>8, <1>9, Zenon DEF LeadIn
<1> QED BY <1>2, <1>10, BackfillPiece

\* Every version does what it is for, and undoes nothing of another one that is not
\* done again after it.
LEMMA EveryPiece ==
    ASSUME NEW w, WsType(w), Solid(w), NEW v \in Known, v \notin w.applied
    PROVE  GoodPiece(v, w, Statements(v, w))
<1>1. w.shape \in {"none", "old", "new"}
  BY DEF WsType
<1>2. v \in Columns \/ v = 3 \/ v = 5 \/ v = 7 \/ v = 13 \/ v \in {14, 15}
  BY DEF Known, Columns
<1> QED BY <1>1, <1>2, ColumnsPiece, TextPiece, TokensPiece, ArtifactPiece, CallsPiece, EpisodesPieces

\* A version recorded already is passed over.
LEMMA StepCheckDone ==
    ASSUME NEW w, WsType(w), NEW s, Pending(w, s), s # <<>>, NEW v \in Known, s[1] = Do("check", v),
           v \in w.applied
    PROVE  Pending(w, Tail(s))
<1>1. w.applied = w.applied \cup {v}
  OBVIOUS
<1>2. Triggers \subseteq w.triggers
  BY TriggersAtCheck DEF Checks
<1> QED BY <1>1, <1>2, TailPending

\* Whatever a killed opener left behind, the statements of a new one will make all
\* of it whole.
LEMMA BeginPending ==
    ASSUME NEW w PROVE Pending(w, CreateAll \o [i \in DOMAIN Versions |-> Do("check", Versions[i])])
<1> DEFINE a == CreateAll
           c == [i \in DOMAIN Versions |-> Do("check", Versions[i])]
           q == a \o c
           All == Plain(w) \cup Checks \cup Records
<1>1. /\ DOMAIN Versions = 1..11
      /\ Versions[1] = 2 /\ Versions[2] = 3 /\ Versions[3] = 5 /\ Versions[4] = 7 /\ Versions[5] = 8
      /\ Versions[6] = 9 /\ Versions[7] = 10 /\ Versions[8] = 11 /\ Versions[9] = 13
      /\ Versions[10] = 14 /\ Versions[11] = 15
      /\ \A i \in 1..11 : i \in {1, 2, 3, 4, 5, 6, 7, 8, 9, 10, 11}
  BY DEF Versions
<1>2. \A i \in 1..11 : Versions[i] \in Known /\ (Versions[i] = 7 => i = 4) /\ (Versions[i] = 3 => i = 2)
  BY <1>1 DEF Known
<1>3. \A v \in Known : \E i \in 1..11 : Versions[i] = v
  BY <1>1 DEF Known
<1>4. /\ c \in Seq(All) /\ Len(c) = 11
      /\ \A i \in 1..11 : c[i] = Do("check", Versions[i])
  <2>1. \A i \in 1..11 : Do("check", Versions[i]) \in Checks
    BY <1>2 DEF Checks
  <2>2. c = [i \in 1..11 |-> Do("check", Versions[i])]
    BY <1>1
  <2> HIDE DEF c
  <2> QED BY <2>1, <2>2
<1>5. /\ a \in Seq(All) /\ Len(a) = 4
      /\ a[1] = Do("create_table", "calls") /\ a[2] = Do("create_trigger", "message")
      /\ a[3] = Do("create_trigger", "artifact") /\ a[4] = Do("create_trigger", "calls")
  <2>1. {Do("create_table", "calls"), Do("create_trigger", "message"),
         Do("create_trigger", "artifact"), Do("create_trigger", "calls")} \subseteq All
    BY DEF Plain, Triggers
  <2> HIDE DEF All
  <2> QED BY <2>1 DEF CreateAll
<1> HIDE DEF a, c, All
<1>6. /\ q \in Seq(All) /\ DOMAIN q = 1..15
      /\ \A i \in 1..4 : q[i] = a[i]
      /\ \A i \in 1..11 : q[4 + i] = Do("check", Versions[i])
  <2>1. /\ a \o c \in Seq(All)
        /\ DOMAIN (a \o c) = 1..(Len(a) + Len(c))
        /\ \A i \in 1..Len(a) : (a \o c)[i] = a[i]
        /\ \A i \in 1..Len(c) : (a \o c)[Len(a) + i] = c[i]
    <3>1. a \in Seq(All) /\ c \in Seq(All)
      BY <1>4, <1>5
    <3> QED BY <3>1, Concat
  <2>2. q = a \o c
    OBVIOUS
  <2> HIDE DEF q
  <2>3. /\ q \in Seq(All) /\ DOMAIN q = 1..(Len(a) + Len(c))
        /\ \A i \in 1..Len(a) : q[i] = a[i]
        /\ \A i \in 1..Len(c) : q[Len(a) + i] = c[i]
    BY <2>1, <2>2
  <2> QED BY <1>4, <1>5, <2>3
<1> HIDE DEF q
<1>7. \A i \in 1..15 : i \in 1..4 \/ (i - 4 \in 1..11 /\ i = 4 + (i - 4))
  OBVIOUS
<1>8. /\ \A i \in 1..4 : q[i].do \in {"create_table", "create_trigger"}
      /\ \A i \in 1..15 : i \notin 1..4 => q[i] = Do("check", Versions[i - 4]) /\ q[i] \in Checks /\ q[i].do = "check"
  <2>1. \A i \in 1..4 : i \in {1, 2, 3, 4}
    OBVIOUS
  <2>2. \A i \in 1..4 : q[i].do \in {"create_table", "create_trigger"}
    BY <1>5, <1>6, <2>1, DoIs
  <2>3. ASSUME NEW i \in 1..15, i \notin 1..4
        PROVE q[i] = Do("check", Versions[i - 4]) /\ q[i] \in Checks /\ q[i].do = "check"
    <3>1. i - 4 \in 1..11 /\ i = 4 + (i - 4)
      BY <1>7, <2>3
    <3>2. q[i] = Do("check", Versions[i - 4])
      BY <1>6, <3>1
    <3> QED BY <1>2, <3>1, <3>2, DoIs DEF Checks
  <2> QED BY <2>2, <2>3
<1>9. \A i, j \in DOMAIN q : i < j /\ q[i] \in Checks \cup Records => q[j] \in Checks
  <2> SUFFICES ASSUME NEW i \in 1..15, NEW j \in 1..15, i < j, q[i] \in Checks \cup Records PROVE q[j] \in Checks
    BY <1>6
  <2>1. q[i].do \in {"check", "record"}
    BY DoIs DEF Checks, Records
  <2>2. i \notin 1..4
    BY <1>8, <2>1
  <2>3. j \notin 1..4
    BY <2>2
  <2> QED BY <1>8, <2>3
<1>10. \A v \in Known : \E i \in DOMAIN q : q[i] \in {Do("check", v), Do("record", v)}
  <2> SUFFICES ASSUME NEW v \in Known PROVE \E i \in DOMAIN q : q[i] \in {Do("check", v), Do("record", v)}
    OBVIOUS
  <2>1. PICK i \in 1..11 : Versions[i] = v
    BY <1>3
  <2>2. 4 + i \in 1..15 /\ q[4 + i] = Do("check", v)
    BY <1>6, <2>1
  <2> QED BY <1>6, <2>2
<1>11. \A i \in DOMAIN q : q[i].do \in {"create_table", "create_trigger", "check"}
  BY <1>6, <1>8
<1>12. \A i \in DOMAIN q : \A v : q[i] # Do("record", v)
  BY <1>11, DoIs
<1>13. \A t : \A i \in DOMAIN q : q[i] \notin Breakers(t) /\ q[i] # Do("drop_trigger", t)
  BY <1>11, DoIs DEF Breakers
<1>14. \A i, j \in DOMAIN q : q[i] = Do("check", 7) /\ q[j] \in {Do("check", 3), Do("record", 3)} => j < i
  <2> SUFFICES ASSUME NEW i \in 1..15, NEW j \in 1..15, q[i] = Do("check", 7),
                      q[j] \in {Do("check", 3), Do("record", 3)} PROVE j < i
    BY <1>6
  <2>1. q[j] = Do("check", 3)
    BY <1>6, <1>12
  <2>2. i \notin 1..4 /\ j \notin 1..4
    BY <1>8, <2>1, DoIs
  <2>3. Versions[i - 4] = 7 /\ Versions[j - 4] = 3 /\ i - 4 \in 1..11 /\ j - 4 \in 1..11
    BY <1>7, <1>8, <2>1, <2>2, DoIs
  <2>4. i - 4 = 4 /\ j - 4 = 2
    BY <1>2, <2>3
  <2> QED BY <2>4
<1>15. TriggersWillHold(w, q)
  <2> SUFFICES ASSUME NEW t \in Triggers
      PROVE Holds(t \in w.triggers, q, {Do("create_trigger", t)}, {Do("drop_trigger", t)})
    BY DEF TriggersWillHold
  <2>1. PICK i \in 1..4 : q[i] = Do("create_trigger", t)
    <3>1. \A u \in Triggers : \E i \in {2, 3, 4} : a[i] = Do("create_trigger", u)
      BY <1>5 DEF Triggers
    <3> QED BY <1>6, <3>1
  <2>2. i \in DOMAIN q /\ q[i] \in {Do("create_trigger", t)} /\ \A j \in DOMAIN q : q[j] \notin {Do("drop_trigger", t)}
    BY <1>6, <1>13, <2>1
  <2> QED BY <2>2 DEF Holds
<1>16. Pending(w, q)
  <2>1. q \in Seq(Plain(w) \cup Checks \cup Records)
    BY <1>6 DEF All
  <2> QED BY <2>1, <1>9, <1>10, <1>12, <1>13, <1>14, <1>15 DEF Pending
<1> QED BY <1>16 DEF q, a, c

\* A database of any recorded age starts with what its versions are for.
LEMMA InitSolid == SchemaInit => WsType(ws) /\ Solid(ws)
<1> SUFFICES ASSUME SchemaInit PROVE WsType(ws) /\ Solid(ws)
  OBVIOUS
<1>1. Range(Versions) = Known
  BY VersionsAreKnown
<1>2. PICK n \in {1} \cup Range(Versions), rows \in SUBSET (Message \cup Artifact \cup Subject) :
        \E old \in BOOLEAN, part \in SUBSET (rows \cap Subject) :
          ws = [stored   |-> rows,
                built    |-> [t \in Derived |->
                    IF n >= FilledBy[t] THEN rows \cap Source(t)
                    ELSE IF t = "calls" /\ old THEN part ELSE {}],
                legacy   |-> {},
                triggers |-> IF n >= 3 THEN Triggers ELSE {},
                shape    |-> IF n >= 13 THEN "new" ELSE IF old THEN "old" ELSE "none",
                episodes |-> IF n >= 15 THEN "new" ELSE IF n = 14 THEN "old" ELSE "none",
                columns  |-> {v \in Columns : v <= n},
                applied  |-> {1} \cup {v \in Range(Versions) : v <= n}]
  BY Zenon DEF SchemaInit
<1>3. PICK old \in BOOLEAN, part \in SUBSET (rows \cap Subject) :
          ws = [stored   |-> rows,
                built    |-> [t \in Derived |->
                    IF n >= FilledBy[t] THEN rows \cap Source(t)
                    ELSE IF t = "calls" /\ old THEN part ELSE {}],
                legacy   |-> {},
                triggers |-> IF n >= 3 THEN Triggers ELSE {},
                shape    |-> IF n >= 13 THEN "new" ELSE IF old THEN "old" ELSE "none",
                episodes |-> IF n >= 15 THEN "new" ELSE IF n = 14 THEN "old" ELSE "none",
                columns  |-> {v \in Columns : v <= n},
                applied  |-> {1} \cup {v \in Range(Versions) : v <= n}]
  BY <1>2, Zenon
<1>4. /\ n \in {1} \cup Known /\ rows \in SUBSET Rows0 /\ part \subseteq rows /\ part \subseteq Subject
      /\ ws = [stored   |-> rows,
                built    |-> [t \in Derived |->
                    IF n >= FilledBy[t] THEN rows \cap Source(t)
                    ELSE IF t = "calls" /\ old THEN part ELSE {}],
                legacy   |-> {},
                triggers |-> IF n >= 3 THEN Triggers ELSE {},
                shape    |-> IF n >= 13 THEN "new" ELSE IF old THEN "old" ELSE "none",
                episodes |-> IF n >= 15 THEN "new" ELSE IF n = 14 THEN "old" ELSE "none",
                columns  |-> {v \in Columns : v <= n},
                applied  |-> {1} \cup {v \in Known : v <= n}]
  <2>1. n \in {1} \cup Known /\ rows \in SUBSET Rows0 /\ part \subseteq rows /\ part \subseteq Subject
    BY <1>1 DEF Rows0
  <2> QED BY <1>1, <1>3, <2>1
<1>5. n \in Nat
  BY <1>4 DEF Known
<1>6. /\ ws.stored = rows /\ ws.legacy = {} /\ ws.applied = {1} \cup {v \in Known : v <= n}
      /\ ws.triggers \in SUBSET Triggers /\ ws.shape \in {"none", "old", "new"}
      /\ ws.episodes \in {"none", "old", "new"} /\ ws.columns = {v \in Columns : v <= n}
      /\ n >= 13 => ws.shape = "new"
      /\ n >= 15 => ws.episodes = "new"
      /\ ws.built = [t \in Derived |->
                    IF n >= FilledBy[t] THEN rows \cap Source(t)
                    ELSE IF t = "calls" /\ old THEN part ELSE {}]
  BY <1>4
<1>7. \A t \in Derived : /\ FilledBy[t] \in Nat /\ FilledBy[t] # 1
                         /\ FilledBy[t] \in ws.applied => n >= FilledBy[t]
  BY <1>5, <1>6, FillingVersions DEF Known
<1>8. ASSUME NEW t \in Derived
      PROVE /\ ws.built[t] \subseteq rows \cap Source(t)
            /\ n >= FilledBy[t] => ws.built[t] = rows \cap Source(t)
  <2>1. Source("calls") = Subject
    BY DEF Source
  <2> QED BY <1>4, <1>6, <2>1
<1>9. ws.built \in [Derived -> SUBSET Rows0]
  <2>1. \A t \in Derived : ws.built[t] \in SUBSET Rows0
    BY <1>4, <1>8
  <2> QED BY <1>6, <2>1
<1>10. WsType(ws)
  <2>1. ws.applied \in SUBSET Nat /\ ws.columns \in SUBSET Columns /\ ws.legacy \in SUBSET Rows0
        /\ ws.stored \in SUBSET Rows0
    BY <1>4, <1>6 DEF Known
  <2>2. ws = [stored |-> ws.stored, built |-> ws.built, legacy |-> ws.legacy, triggers |-> ws.triggers,
              shape |-> ws.shape, episodes |-> ws.episodes, columns |-> ws.columns, applied |-> ws.applied]
    BY <1>4
  <2> QED BY <1>6, <1>9, <2>1, <2>2 DEF WsType
<1>11. Solid(ws)
  <2>1. \A t : Wanted(ws, t) = rows \cap Source(t)
    BY <1>6 DEF Wanted
  <2>2. \A t \in Derived : /\ ws.built[t] \subseteq Wanted(ws, t)
                           /\ FilledBy[t] \in ws.applied => ws.built[t] = Wanted(ws, t)
    BY <1>7, <1>8, <2>1
  <2>3. ws.legacy \subseteq Wanted(ws, "calls")
    BY <1>6
  <2>4. /\ 13 \in ws.applied => ws.shape = "new"
        /\ 15 \in ws.applied => ws.episodes = "new"
        /\ 7 \in ws.applied => 3 \in ws.applied
    BY <1>5, <1>6 DEF Known
  <2>5. ws.applied \cap Columns \subseteq ws.columns
    BY <1>6 DEF Columns
  <2> QED BY <2>2, <2>3, <2>4, <2>5 DEF Solid
<1> QED BY <1>10, <1>11

\* An ingest keeps a whole database whole.
LEMMA StoreKeeps ==
    ASSUME NEW o \in Opener, NEW x \in Rows0, Store(o, x), WsType(ws), Solid(ws), Known \subseteq ws.applied,
           ws.triggers = Triggers
    PROVE  WsType(ws') /\ Solid(ws') /\ Known \subseteq ws'.applied /\ ws'.triggers = Triggers
<1> DEFINE built == [t \in Derived |->
                     IF x \in Source(t) /\ (t \in {"message", "artifact"} => t \in ws.triggers)
                     THEN ws.built[t] \cup {x} ELSE ws.built[t]]
<1>1. ws \in [stored : SUBSET Rows0, built : [Derived -> SUBSET Rows0], legacy : SUBSET Rows0,
              triggers : SUBSET Triggers, shape : {"none", "old", "new"},
              episodes : {"none", "old", "new"}, columns : SUBSET Columns, applied : SUBSET Nat]
  BY DEF WsType
<1>2. ws' = [ws EXCEPT !.stored = ws.stored \cup {x}, !.built = built]
  BY <1>1 DEF Store
<1>3. \A t \in Derived : ws.built[t] \in SUBSET Rows0
  BY <1>1
<1>4. built \in [Derived -> SUBSET Rows0]
  BY <1>3
<1>5. \A t \in Derived : built[t] = IF x \in Source(t) THEN ws.built[t] \cup {x} ELSE ws.built[t]
  BY DEF Triggers
<1> HIDE DEF built
<1>6. /\ ws'.stored = ws.stored \cup {x} /\ ws'.built = built /\ ws'.legacy = ws.legacy
      /\ ws'.triggers = ws.triggers /\ ws'.shape = ws.shape /\ ws'.episodes = ws.episodes
      /\ ws'.columns = ws.columns /\ ws'.applied = ws.applied
  BY <1>1, <1>2
<1>7. WsType(ws')
  BY <1>1, <1>2, <1>4 DEF WsType
<1>8. \A t : Wanted(ws', t) = IF x \in Source(t) THEN Wanted(ws, t) \cup {x} ELSE Wanted(ws, t)
  BY <1>6 DEF Wanted
<1>9. \A t \in Derived : ws.built[t] = Wanted(ws, t)
  BY FillingVersions DEF Solid, Known
<1>10. \A t \in Derived : ws'.built[t] = Wanted(ws', t)
  BY <1>5, <1>6, <1>8, <1>9
<1>11. ws'.legacy \subseteq Wanted(ws', "calls")
  BY <1>6, <1>8 DEF Solid
<1>12. Solid(ws')
  BY <1>6, <1>10, <1>11 DEF Solid
<1> QED BY <1>6, <1>7, <1>12

\* The next statement of an opener.
LEMMA NextStatement ==
    ASSUME NEW w, WsType(w), Solid(w), NEW s, Pending(w, s), s # <<>>
    PROVE  /\ Head(s) = s[1]
           /\ Head(s).do # "check" => /\ WsType(Effect(w, Head(s))) /\ Solid(Effect(w, Head(s)))
                                      /\ Pending(Effect(w, Head(s)), Tail(s))
           /\ Head(s).do = "check" =>
                Pending(w, (IF Head(s).on \in w.applied THEN <<>> ELSE Apply(Head(s).on, w)) \o Tail(s))
<1>1. s \in Seq(Plain(w) \cup Checks \cup Records)
  BY DEF Pending
<1>2. Head(s) = s[1] /\ s[1] \in Plain(w) \cup Checks \cup Records
      /\ Tail(s) \in Seq(Plain(w) \cup Checks \cup Records)
  BY <1>1
<1>3. s[1] \in Plain(w) => s[1].do # "check"
  BY PlainIsNeither DEF Plain, Do
<1>4. ASSUME s[1].do # "check"
      PROVE  /\ WsType(Effect(w, s[1])) /\ Solid(Effect(w, s[1])) /\ Pending(Effect(w, s[1]), Tail(s))
  <2>1. CASE s[1] \in Plain(w)
    BY <2>1, StepPlain
  <2>2. CASE s[1] \in Records
    <3>1. PICK v \in Known : s[1] = Do("record", v)
      BY <2>2 DEF Records
    <3> QED BY <3>1, StepRecord
  <2>3. s[1] \notin Checks
    BY <1>4, DoIs DEF Checks
  <2> QED BY <1>2, <2>1, <2>2, <2>3
<1>5. ASSUME s[1].do = "check"
      PROVE  Pending(w, (IF s[1].on \in w.applied THEN <<>> ELSE Apply(s[1].on, w)) \o Tail(s))
  <2>1. PICK v \in Known : s[1] = Do("check", v)
    <3>1. s[1] \notin Records
      BY <1>5, DoIs DEF Records
    <3> QED BY <1>2, <1>3, <1>5, <3>1 DEF Checks
  <2>2. s[1].on = v
    BY <2>1, DoIs
  <2>3. CASE v \in w.applied
    <3>1. Pending(w, Tail(s))
      BY <2>1, <2>3, StepCheckDone
    <3>2. <<>> \o Tail(s) = Tail(s)
      <4> DEFINE r == Tail(s)
      <4>1. r \in Seq(Plain(w) \cup Checks \cup Records)
        BY <1>2
      <4> HIDE DEF r
      <4>2. <<>> \o r = r
        BY <4>1
      <4> QED BY <4>2 DEF r
    <3> QED BY <2>2, <2>3, <3>1, <3>2
  <2>4. CASE v \notin w.applied
    <3>1. GoodPiece(v, w, Statements(v, w))
      BY <2>4, EveryPiece
    <3>2. Pending(w, (Statements(v, w) \o <<Do("record", v)>>) \o Tail(s))
      BY <2>1, <3>1, StepCheckApply
    <3> QED BY <2>2, <2>4, <3>2 DEF Apply
  <2> QED BY <2>3, <2>4
<1> QED BY <1>2, <1>4, <1>5

\* At most one process has the database open for writing or is opening it.
OneAtATime == \A o, p \in Opener : status[o] # "closed" /\ status[p] # "closed" => o = p

\* Where openers follow one another, each of them closed or killed anywhere, the
\* statements the running one has left make every recorded and every missing
\* version whole (migrate and the migrations it runs).
THEOREM SchemaInvariant == SchemaSpec /\ []OneAtATime => []SchemaInv
<1>1. SchemaInit => SchemaInv
  <2> SUFFICES ASSUME SchemaInit PROVE SchemaInv
    OBVIOUS
  <2>1. WsType(ws) /\ Solid(ws)
    BY InitSolid
  <2>2. left = [o \in Opener |-> <<>>] /\ status = [o \in Opener |-> "closed"]
    BY DEF SchemaInit
  <2> QED BY <2>1, <2>2 DEF SchemaInv
<1>2. SchemaInv /\ OneAtATime' /\ [SchemaNext]_schemaVars => SchemaInv'
  <2> SUFFICES ASSUME SchemaInv, OneAtATime', [SchemaNext]_schemaVars PROVE SchemaInv'
    OBVIOUS
  <2>1. /\ WsType(ws) /\ Solid(ws)
        /\ status \in [Opener -> {"closed", "opening", "open"}] /\ DOMAIN left = Opener
        /\ \A o \in Opener : status[o] = "opening" => Pending(ws, left[o])
        /\ \A o \in Opener : status[o] = "open" => Known \subseteq ws.applied /\ ws.triggers = Triggers
    BY DEF SchemaInv
  <2>2. ASSUME NEW o \in Opener, OpenForWriting(o) PROVE SchemaInv'
    <3>1. /\ status' \in [Opener -> {"closed", "opening", "open"}] /\ DOMAIN left' = Opener
          /\ status'[o] = "opening" /\ ws' = ws
          /\ left'[o] = CreateAll \o [i \in DOMAIN Versions |-> Do("check", Versions[i])]
      BY <2>1, <2>2 DEF OpenForWriting
    <3>2. Pending(ws', left'[o])
      BY <3>1, BeginPending
    <3>3. \A p \in Opener : p = o \/ (status'[p] = "closed" /\ status[p] = "closed")
      BY <2>1, <2>2, <3>1 DEF OneAtATime, OpenForWriting
    <3> QED BY <2>1, <3>1, <3>2, <3>3 DEF SchemaInv
  <2>3. ASSUME NEW o \in Opener, Execute(o) PROVE SchemaInv'
    <3>1. /\ status' = status /\ status[o] = "opening" /\ DOMAIN left' = Opener
          /\ left[o] # <<>> /\ Head(left[o]).do # "check"
          /\ ws' = Effect(ws, Head(left[o])) /\ left'[o] = Tail(left[o])
      BY <2>1, <2>3 DEF Execute
    <3>2. Pending(ws, left[o])
      BY <2>1, <3>1
    <3>3. WsType(ws') /\ Solid(ws') /\ Pending(ws', left'[o])
      BY <2>1, <3>1, <3>2, NextStatement
    <3>4. \A p \in Opener : p = o \/ (status'[p] = "closed" /\ status[p] = "closed")
      BY <2>1, <2>3, <3>1 DEF OneAtATime, Execute
    <3> QED BY <2>1, <3>1, <3>3, <3>4 DEF SchemaInv
  <2>4. ASSUME NEW o \in Opener, CheckVersion(o) PROVE SchemaInv'
    <3>1. /\ status' = status /\ status[o] = "opening" /\ DOMAIN left' = Opener /\ ws' = ws
          /\ left[o] # <<>> /\ Head(left[o]).do = "check"
          /\ left'[o] = (IF Head(left[o]).on \in ws.applied THEN <<>> ELSE Apply(Head(left[o]).on, ws))
                           \o Tail(left[o])
      BY <2>1, <2>4 DEF CheckVersion
    <3>2. Pending(ws, left[o])
      BY <2>1, <3>1
    <3>3. Pending(ws', left'[o])
      BY <2>1, <3>1, <3>2, NextStatement
    <3>4. \A p \in Opener : p = o \/ (status'[p] = "closed" /\ status[p] = "closed")
      BY <2>1, <2>4, <3>1 DEF OneAtATime, CheckVersion
    <3> QED BY <2>1, <3>1, <3>3, <3>4 DEF SchemaInv
  <2>5. ASSUME NEW o \in Opener, Opened(o) PROVE SchemaInv'
    <3>1. /\ status[o] = "opening" /\ left[o] = <<>> /\ left' = left /\ ws' = ws
          /\ status' \in [Opener -> {"closed", "opening", "open"}] /\ status'[o] = "open"
      BY <2>1, <2>5 DEF Opened
    <3>2. Pending(ws, <<>>)
      BY <2>1, <3>1
    <3>3. Known \subseteq ws.applied
      BY <3>2 DEF Pending
    <3>4. ws.triggers = Triggers
      <4>1. Triggers \subseteq ws.triggers
        BY <3>2, ChecksAreInert DEF Pending
      <4> QED BY <2>1, <4>1 DEF WsType
    <3>5. \A p \in Opener : p = o \/ (status'[p] = "closed" /\ status[p] = "closed")
      BY <2>1, <2>5, <3>1 DEF OneAtATime, Opened
    <3> QED BY <2>1, <3>1, <3>3, <3>4, <3>5 DEF SchemaInv
  <2>6. ASSUME NEW o \in Opener, NEW x \in Message \cup Artifact \cup Subject, Store(o, x) PROVE SchemaInv'
    <3>1. status[o] = "open" /\ status' = status /\ left' = left /\ x \in Rows0
      BY <2>6 DEF Store, Rows0
    <3>2. WsType(ws') /\ Solid(ws') /\ Known \subseteq ws'.applied /\ ws'.triggers = Triggers
      BY <2>1, <2>6, <3>1, StoreKeeps
    <3>3. \A p \in Opener : p = o \/ (status'[p] = "closed" /\ status[p] = "closed")
      BY <2>1, <2>6, <3>1 DEF OneAtATime, Store
    <3> QED BY <2>1, <3>1, <3>2, <3>3 DEF SchemaInv
  <2>7. ASSUME NEW o \in Opener, CloseWorkspace(o) PROVE SchemaInv'
    <3>1. /\ status' \in [Opener -> {"closed", "opening", "open"}] /\ status'[o] = "closed"
          /\ left' = left /\ ws' = ws /\ \A p \in Opener : p = o \/ status'[p] = status[p]
      BY <2>1, <2>7 DEF CloseWorkspace
    <3> QED BY <2>1, <3>1 DEF SchemaInv
  <2>8. ASSUME NEW o \in Opener, KillOpener(o) PROVE SchemaInv'
    <3>1. /\ status' \in [Opener -> {"closed", "opening", "open"}] /\ status'[o] = "closed"
          /\ DOMAIN left' = Opener /\ ws' = ws
          /\ \A p \in Opener : p = o \/ (status'[p] = status[p] /\ left'[p] = left[p])
      BY <2>1, <2>8 DEF KillOpener
    <3> QED BY <2>1, <3>1 DEF SchemaInv
  <2>9. CASE UNCHANGED schemaVars
    BY <2>1, <2>9 DEF schemaVars, SchemaInv
  <2> QED BY <2>2, <2>3, <2>4, <2>5, <2>6, <2>7, <2>8, <2>9 DEF SchemaNext
<1> QED BY <1>1, <1>2, PTL DEF SchemaSpec

\* A database open for writing is whole, whatever version it had and wherever
\* earlier openers were killed, for any rows (what Open promises).
THEOREM OpenedWhole == SchemaSpec /\ []OneAtATime => []OpenedIsWhole
<1>1. SchemaInv => OpenedIsWhole
  <2> SUFFICES ASSUME SchemaInv, NEW o \in Opener, status[o] = "open"
      PROVE /\ \A t \in Derived : ws.built[t] = Wanted(ws, t)
            /\ ws.triggers = Triggers /\ ws.columns = Columns
            /\ ws.shape = "new" /\ ws.episodes = "new"
            /\ Range(Versions) \subseteq ws.applied
    BY DEF OpenedIsWhole
  <2>1. WsType(ws) /\ Solid(ws) /\ Known \subseteq ws.applied /\ ws.triggers = Triggers
    BY DEF SchemaInv
  <2>2. \A t \in Derived : ws.built[t] = Wanted(ws, t)
    BY <2>1, FillingVersions DEF Solid, Known
  <2>3. ws.columns = Columns
    <3>1. Columns \subseteq ws.applied
      BY <2>1 DEF Known, Columns
    <3>2. ws.columns \subseteq Columns
      BY <2>1 DEF WsType
    <3> QED BY <2>1, <3>1, <3>2 DEF Solid
  <2>4. ws.shape = "new" /\ ws.episodes = "new"
    BY <2>1 DEF Solid, Known
  <2> QED BY <2>1, <2>2, <2>3, <2>4, VersionsAreKnown
<1>2. SchemaSpec /\ []OneAtATime => []SchemaInv
  BY SchemaInvariant
<1> QED BY <1>1, <1>2, PTL
=============================================================================
