------------------------------- MODULE Export -------------------------------
(***************************************************************************)
(* Exporting an OpenCode database to session files                         *)
(* (internal/opencodeexport, called by the opencode adapter's Discover).   *)
(* Exporters copy the live SQLite database and its write-ahead log byte    *)
(* for byte, query the copy, and bring a shared destination directory in   *)
(* line with it one file at a time, while OpenCode commits, checkpoints    *)
(* and removes sessions and any exporter may be killed.                    *)
(***************************************************************************)
EXTENDS FiniteSets, Integers

CONSTANTS
    Exporter,    \* processes that discover the same database
    Session,     \* session ids, as numbers in "order by id"
    Base,        \* the sanitised file name of a session id
    MaxChanges,  \* bound on OpenCode's commits
    MaxStops     \* bound on killed and failed exports

ASSUME ExportAssumption ==
    /\ IsFiniteSet(Session) /\ Session \subseteq Nat \ {0}
    /\ MaxChanges \in Nat /\ MaxStops \in Nat

VARIABLES
    main,    \* OpenCode's database file: the version of each session, 0 if it has none
    wal,     \* its write-ahead log: the version of each session it changes, or Same
    gone,    \* sessions OpenCode has deleted; their ids are not used again
    dest,    \* the destination's .jsonl files, as [name, session, version]
    exp,     \* each exporter's local state
    changes, stops

exportVars == <<main, wal, gone, dest, exp, changes, stops>>

Same == -1
Over(base, ch) == [s \in Session |-> IF ch[s] = Same THEN base[s] ELSE ch[s]]
Stored == Over(main, wal)       \* what OpenCode itself reads
NoChange == [s \in Session |-> Same]
NoSessions == [s \in Session |-> 0]
NotRunning == [at |-> "idle", base |-> NoSessions, copy |-> NoSessions, told |-> NoSessions,
               split |-> FALSE, left |-> {}, temp |-> 0]

Has(copy) == {s \in Session : copy[s] # 0}

\* Mutant of FileName: every session gets its sanitised name.
FileNameAsGiven(s, copy) == <<Base[s], 1>>

\* uniqueFileName: the second session of a sanitised name is "<name>-2", and so on.
FileName(s, copy) == <<Base[s], Cardinality({t \in Has(copy) : Base[t] = Base[s] /\ t <= s})>>

Put(fs, name, s, v) == {f \in fs : f.name # name} \cup {[name |-> name, session |-> s, version |-> v]}

ExportInit ==
    /\ main \in [Session -> {0, 1}]
    /\ wal = NoChange /\ gone = {} /\ dest = {} /\ changes = 0 /\ stops = 0
    /\ exp = [e \in Exporter |-> NotRunning]

(***************************************************************************)
(* OpenCode.                                                               *)
(***************************************************************************)
CommitSession(s) ==
    /\ s \notin gone /\ changes < MaxChanges
    /\ wal' = [wal EXCEPT ![s] = Stored[s] + 1]
    /\ changes' = changes + 1
    /\ UNCHANGED <<main, gone, dest, exp, stops>>

DeleteSession(s) ==
    /\ Stored[s] # 0 /\ changes < MaxChanges
    /\ wal' = [wal EXCEPT ![s] = 0]
    /\ gone' = gone \cup {s}
    /\ changes' = changes + 1
    /\ UNCHANGED <<main, dest, exp, stops>>

\* A checkpoint that copies the log into the database and starts it over, or
\* removes it with OpenCode's last connection.
Checkpoint ==
    /\ wal # NoChange
    /\ main' = Stored /\ wal' = NoChange
    /\ exp' = [e \in Exporter |-> [exp[e] EXCEPT !.split = @ \/ exp[e].at = "log"]]
    /\ UNCHANGED <<gone, dest, changes, stops>>

(***************************************************************************)
(* An export.                                                              *)
(***************************************************************************)
\* Mutant of LockExport: the Windows and Unix locks left out.
LockNothing(e) ==
    /\ exp[e].at = "idle"
    /\ exp' = [exp EXCEPT ![e].at = "db"]
    /\ UNCHANGED <<main, wal, gone, dest, changes, stops>>

LockExport(e) ==        \* and a private work directory under the destination
    /\ exp[e].at = "idle"
    /\ \A o \in Exporter : exp[o].at = "idle"
    /\ exp' = [exp EXCEPT ![e].at = "db"]
    /\ UNCHANGED <<main, wal, gone, dest, changes, stops>>

CopyDatabase(e) ==
    /\ exp[e].at = "db"
    /\ exp' = [exp EXCEPT ![e].base = main, ![e].at = "log"]
    /\ UNCHANGED <<main, wal, gone, dest, changes, stops>>

\* A log that is not there, or vanishes first, is skipped.  The copy must then
\* pass quick_check; files of two generations may pass as well.
CopyLog(e) ==
    LET copy == Over(exp[e].base, wal) IN
    /\ exp[e].at = "log"
    /\ exp' = [exp EXCEPT ![e].base = NoSessions, ![e].copy = copy, ![e].told = Stored,
                          ![e].left = Has(copy), ![e].at = "sessions"]
    /\ UNCHANGED <<main, wal, gone, dest, changes, stops>>

WriteTemp(e, s) ==      \* sessions in order of their ids, to a hidden temporary file
    /\ exp[e].at = "sessions" /\ exp[e].temp = 0
    /\ s \in exp[e].left /\ \A t \in exp[e].left : s <= t
    /\ exp' = [exp EXCEPT ![e].temp = s]
    /\ UNCHANGED <<main, wal, gone, dest, changes, stops>>

CommitFile(e) ==
    LET s == exp[e].temp IN
    /\ exp[e].at = "sessions" /\ s # 0
    /\ dest' = Put(dest, FileName(s, exp[e].copy), s, exp[e].copy[s])
    /\ exp' = [exp EXCEPT ![e].temp = 0, ![e].left = @ \ {s}]
    /\ UNCHANGED <<main, wal, gone, changes, stops>>

Kept(e) == {FileName(s, exp[e].copy) : s \in Has(exp[e].copy)}

PruneFile(e, f) ==
    /\ exp[e].at = "sessions" /\ exp[e].left = {}
    /\ f \in dest /\ f.name \notin Kept(e)
    /\ dest' = dest \ {f}
    /\ UNCHANGED <<main, wal, gone, exp, changes, stops>>

ExportReturns(e) ==
    /\ exp[e].at = "sessions" /\ exp[e].left = {}
    /\ \A f \in dest : f.name \in Kept(e)
    /\ exp' = [exp EXCEPT ![e] = NotRunning]
    /\ UNCHANGED <<main, wal, gone, dest, changes, stops>>

\* Killed, cancelled, over the byte limit, or a call that failed: the lock goes
\* with the process, the files written so far stay.
StopExport(e) ==
    /\ exp[e].at # "idle" /\ stops < MaxStops
    /\ exp' = [exp EXCEPT ![e] = NotRunning]
    /\ stops' = stops + 1
    /\ UNCHANGED <<main, wal, gone, dest, changes>>

ExportNext ==
    \/ \E s \in Session : CommitSession(s) \/ DeleteSession(s)
    \/ Checkpoint
    \/ \E e \in Exporter :
        \/ LockExport(e) \/ CopyDatabase(e) \/ CopyLog(e)
        \/ (\E s \in Session : WriteTemp(e, s)) \/ CommitFile(e)
        \/ (\E f \in dest : PruneFile(e, f)) \/ ExportReturns(e) \/ StopExport(e)

ExportSpec == ExportInit /\ [][ExportNext]_exportVars

(***************************************************************************)
(* When an export returns, the destination holds one file for each session *)
(* OpenCode had when the log was copied, with that session's content, and  *)
(* nothing else: whatever earlier exports were stopped where, and whoever  *)
(* exports beside it.  The exception is a log that started over between    *)
(* the two copies: the package comment advises to close OpenCode first.    *)
(***************************************************************************)
Tells(copy) == {<<f.session, f.version>> : f \in dest} = {<<s, copy[s]>> : s \in Has(copy)}
ExportTells ==
    [][\A e \in Exporter :
          exp[e].at = "sessions" /\ exp'[e].at = "idle" /\ stops' = stops /\ ~exp[e].split
          => Tells(exp[e].told) /\ Cardinality(dest) = Cardinality(Has(exp[e].told))]_exportVars

(***************************************************************************)
(* A discovery that reads the destination at any moment, also after a      *)
(* stopped export, finds every session it found before, as new or newer,   *)
(* unless OpenCode has deleted it.  Sessions that share a sanitised name   *)
(* take over one another's file and are exempt.                            *)
(***************************************************************************)
Held(fs, s) == {f.version : f \in {x \in fs : x.session = s}}
Alone(s) == \A t \in Session : Base[t] = Base[s] => t = s
NothingVanishes ==
    [][\A s \in Session :
          Alone(s) /\ Held(dest, s) # {} /\ (\A e \in Exporter : ~exp[e].split)
          => \/ s \in gone
             \/ \E v \in Held(dest', s) : \A w \in Held(dest, s) : v >= w]_exportVars
=============================================================================
