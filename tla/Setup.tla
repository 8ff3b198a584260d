------------------------------- MODULE Setup --------------------------------
(***************************************************************************)
(* The commands that decide what a machine works with (internal/cli:       *)
(* command_init.go, command_archive.go, command_workspace.go), the one     *)
(* configuration file they share (internal/config) and the markers of the  *)
(* Archives it can select (internal/depot: V2.Init and the marker rules).  *)
(* A command loads the whole configuration, inspects, changes its own      *)
(* field, and writes the whole configuration back; nothing locks the file, *)
(* and a command may be killed before any of its steps.                    *)
(***************************************************************************)
EXTENDS FiniteSets

CONSTANTS
    Cli,           \* aha processes
    Place,         \* Archive addresses
    Dir,           \* Workspace directories
    DefaultPlace,  \* config.Default()
    DefaultDir

MarkerKind == {"none", "v1", "old", "newer", "bad", "current"}

ASSUME SetupAssumption ==
    DefaultPlace \in Place /\ DefaultDir \in Dir /\ Cli \cap MarkerKind = {}

VARIABLES
    conf,     \* the configuration file, or Default() with there = FALSE when absent
    marker,   \* each place's marker: see MarkerKind; a process's name is one it created
    registered,   \* the places whose machines index lists a machine
    cmd       \* each process's command

setupVars == <<conf, marker, registered, cmd>>

Default == [there |-> FALSE, archive |-> DefaultPlace, dir |-> DefaultDir, ack |-> FALSE,
            notes |-> FALSE]
NoCommand == [op |-> "none", at |-> "idle", place |-> DefaultPlace, cfg |-> Default,
              notes |-> FALSE, alone |-> TRUE]

Current(a)  == marker[a] \in Cli \cup {"current"}       \* validateMarkerForWrite
Readable(a) == Current(a) \/ marker[a] = "old"          \* decodeAndValidateMarkerForRead

\* inspectArchive over InspectMetadata; damage is ArchiveInspection's.
StateOf(a) ==
    CASE marker[a] = "newer" -> "upgrade_required"
      [] marker[a] \in {"v1", "bad"} -> "damaged"
      [] marker[a] = "none" -> "uninitialised"
      [] OTHER -> IF a \in registered THEN "populated" ELSE "empty"

\* model.ArchiveTransition: the states an operation is allowed in, and its outcome.
Transition(op, from) ==
    CASE op = "init" /\ from = "uninitialised" -> {"empty"}
      [] op = "upload" /\ from \in {"empty", "populated"} -> {"populated"}
      [] op \in {"set_default", "download"} /\ from \in {"empty", "populated"} -> {from}
      [] op = "verify" /\ from \in {"empty", "populated", "damaged"} -> {from}
      [] op = "status" -> {from}
      [] OTHER -> {}

SetupInit ==
    /\ conf = Default
    /\ marker \in [Place -> MarkerKind] /\ marker[DefaultPlace] \in {"none", "current"}
    /\ registered \in SUBSET {a \in Place : Readable(a)}
    /\ cmd = [p \in Cli |-> NoCommand]

Begin(p, op, at, a, cfg) ==
    /\ cmd[p].at = "idle"
    /\ cmd' = [cmd EXCEPT ![p] = [op |-> op, at |-> at, place |-> a,
                                  cfg |-> [cfg EXCEPT !.there = TRUE, !.notes = FALSE],
                                  notes |-> FALSE, alone |-> TRUE]]
    /\ UNCHANGED <<conf, marker, registered>>

\* aha init refuses a configuration that exists, then makes the default Archive.
BeginInit(p) ==
    /\ ~conf.there
    /\ Begin(p, "setup", "look", DefaultPlace, [Default EXCEPT !.ack = TRUE])

BeginArchiveInit(p, a) ==
    /\ StateOf(a) = "uninitialised"
    /\ Begin(p, "init", "look", a, Default)

BeginSelectArchive(p, a) ==
    /\ StateOf(a) \in {"empty", "populated"}
    /\ Begin(p, "set_default", "read", DefaultPlace, [conf EXCEPT !.archive = a])

BeginSelectWorkspace(p, d) ==
    Begin(p, "set_workspace", "read", DefaultPlace, [conf EXCEPT !.dir = d])

\* Mutant of LookForMarker: init writes the configuration first.
LookAfterwards(p) ==
    /\ cmd[p].at = "look"
    /\ cmd' = [cmd EXCEPT ![p].at = IF cmd[p].op = "setup" THEN "read" ELSE "create"]
    /\ UNCHANGED <<conf, marker, registered>>

\* V2.Init: a v1 layout, a marker of another format and a garbled one are
\* refused; an existing current marker is taken as it is.
LookForMarker(p) ==
    LET a == cmd[p].place IN
    /\ cmd[p].at = "look"
    /\ cmd' = [cmd EXCEPT ![p] =
                 IF marker[a] = "none" THEN [@ EXCEPT !.at = "create"]
                 ELSE IF Current(a) /\ @.op = "setup" THEN [@ EXCEPT !.at = "read"]
                 ELSE NoCommand]
    /\ UNCHANGED <<conf, marker, registered>>

\* Mutant of CreateMarker: an unconditional put.
PutMarker(p) ==
    /\ cmd[p].at = "create"
    /\ marker' = [marker EXCEPT ![cmd[p].place] = p]
    /\ cmd' = [cmd EXCEPT ![p] = IF @.op = "setup" THEN [@ EXCEPT !.at = "read"] ELSE NoCommand]
    /\ UNCHANGED <<conf, registered>>

\* Put if absent; a lost race looks again.
CreateMarker(p) ==
    LET a == cmd[p].place IN
    /\ cmd[p].at = "create"
    /\ marker' = [marker EXCEPT ![a] = IF @ = "none" THEN p ELSE @]
    /\ cmd' = [cmd EXCEPT ![p] = IF @.op = "setup" /\ (marker[a] = "none" \/ Current(a))
                                 THEN [@ EXCEPT !.at = "read"] ELSE NoCommand]
    /\ UNCHANGED <<conf, registered>>

\* config.Write: mergeConfigJSONC keeps the comments and extensions of the file
\* it reads and takes every known field from the command.
MergeConfigJSONC(c) == [c.cfg EXCEPT !.notes = c.notes]

ReadPrevious(p) ==
    /\ cmd[p].at = "read"
    /\ cmd' = [cmd EXCEPT ![p].notes = conf.notes, ![p].at = "rename"]
    /\ UNCHANGED <<conf, marker, registered>>

\* History: who has lost sight of the file, after p has replaced it.
Lonely(c, phases) == [c EXCEPT !.alone = @ /\ c.at \notin phases]
Disturbed(p, phases) ==
    [q \in Cli |-> IF q = p THEN NoCommand ELSE Lonely(cmd[q], phases)]

\* Mutant of ReplaceConfig: nothing of the previous file is merged.
ReplaceConfigPlainly(p) ==
    /\ cmd[p].at = "rename"
    /\ conf' = cmd[p].cfg
    /\ cmd' = Disturbed(p, {"look", "create", "read", "rename"})
    /\ UNCHANGED <<marker, registered>>

ReplaceConfig(p) ==     \* a synced temporary file renamed over it
    /\ cmd[p].at = "rename"
    /\ conf' = MergeConfigJSONC(cmd[p])
    /\ cmd' = Disturbed(p, {"look", "create", "read", "rename"})
    /\ UNCHANGED <<marker, registered>>

\* Archive has the publication itself.
PrepareUpload(a) == Current(a) /\ Transition("upload", StateOf(a)) # {}

FirstUpload(p, a) ==
    /\ cmd[p].at = "idle"
    /\ conf.ack /\ PrepareUpload(a)
    /\ registered' = registered \cup {a}
    /\ UNCHANGED <<conf, marker, cmd>>

KillCommand(p) ==
    /\ cmd[p].at # "idle"
    /\ cmd' = [cmd EXCEPT ![p] = NoCommand]
    /\ UNCHANGED <<conf, marker, registered>>

\* The operator adds a comment or an extension.
EditConfig ==
    /\ conf.there /\ ~conf.notes
    /\ conf' = [conf EXCEPT !.notes = TRUE]
    /\ cmd' = [q \in Cli |-> Lonely(cmd[q], {"rename"})]
    /\ UNCHANGED <<marker, registered>>

SetupNext ==
    \/ \E p \in Cli :
        \/ BeginInit(p)
        \/ (\E a \in Place : BeginArchiveInit(p, a) \/ BeginSelectArchive(p, a) \/ FirstUpload(p, a))
        \/ (\E d \in Dir : BeginSelectWorkspace(p, d))
        \/ LookForMarker(p) \/ CreateMarker(p) \/ ReadPrevious(p) \/ ReplaceConfig(p)
        \/ KillCommand(p)
    \/ EditConfig

SetupSpec == SetupInit /\ [][SetupNext]_setupVars

(***************************************************************************)
(* The Archive that a configuration selects can be read, wherever init or  *)
(* a selection was killed and whatever ran beside it: init makes the       *)
(* Archive before it writes the file that names it.  A configuration that  *)
(* init has not written may still hold the default.                        *)
(***************************************************************************)
SelectedIsInitialised ==
    conf.there /\ (conf.ack \/ conf.archive # DefaultPlace) => Readable(conf.archive)

(***************************************************************************)
(* A command that replaces the configuration changes the field it is for,  *)
(* keeps every other setting, and keeps the comments and extensions it     *)
(* found, unless somebody else replaced the file since it was loaded:      *)
(* then the whole of what was loaded comes back.                           *)
(***************************************************************************)
OwnChange(op, old, new) ==
    CASE op = "set_default"   -> new = [old EXCEPT !.there = TRUE, !.archive = new.archive]
      [] op = "set_workspace" -> new = [old EXCEPT !.there = TRUE, !.dir = new.dir]
      [] OTHER                -> op = "setup" /\ ~old.there
ChangesAreOwn ==
    [][\A p \in Cli :
          cmd[p].at = "rename" /\ cmd'[p].at = "idle" /\ conf' # conf /\ cmd[p].alone
          => OwnChange(cmd[p].op, conf, conf')]_setupVars

(***************************************************************************)
(* An Archive moves only along model.ArchiveTransition, and the marker     *)
(* that Workspaces are bound to is never replaced, also when two processes *)
(* initialise one address.                                                 *)
(***************************************************************************)
MovesByTable ==
    [][\A a \in Place :
          /\ marker[a] # "none" => marker'[a] = marker[a]
          /\ StateOf(a)' # StateOf(a) =>
                \E op \in {"init", "upload"} : StateOf(a)' \in Transition(op, StateOf(a))]_setupVars

(***************************************************************************)
(* What every step preserves, for the proofs: a configuration about to be  *)
(* written names an Archive that is there, and while nobody else replaced  *)
(* the file, it is the file's content but for the command's own field.     *)
(***************************************************************************)
Setting == [there: BOOLEAN, archive: Place, dir: Dir, ack: BOOLEAN, notes: BOOLEAN]
SetupCommand == [op: {"none", "setup", "init", "set_default", "set_workspace"},
                 at: {"idle", "look", "create", "read", "rename"},
                 place: Place, cfg: Setting, notes: BOOLEAN, alone: BOOLEAN]
SetupTypeOK ==
    /\ conf \in Setting /\ cmd \in [Cli -> SetupCommand]
    /\ marker \in [Place -> Cli \cup MarkerKind]
    /\ registered \subseteq Place

Chosen(c) == c.there /\ (c.ack \/ c.archive # DefaultPlace) => Readable(c.archive)

CommandHolds(c) ==
    /\ c.at \in {"look", "create"} =>
          /\ c.op \in {"setup", "init"}
          /\ c.op = "setup" => c.place = DefaultPlace /\ c.cfg.archive = DefaultPlace
    /\ c.at \in {"read", "rename"} =>
          c.op \in {"setup", "set_default", "set_workspace"} /\ Chosen(c.cfg)
    /\ c.at # "idle" => c.cfg.there

KnowsTheFile(c) ==
    c.at # "idle" /\ c.alone =>
        /\ c.op = "setup" => ~conf.there
        /\ c.op = "set_default" =>
              c.cfg = [conf EXCEPT !.there = TRUE, !.archive = c.cfg.archive, !.notes = FALSE]
        /\ c.op = "set_workspace" =>
              c.cfg = [conf EXCEPT !.there = TRUE, !.dir = c.cfg.dir, !.notes = FALSE]
        /\ c.at = "rename" => c.notes = conf.notes

SetupInv ==
    /\ SetupTypeOK
    /\ conf.there \/ conf = Default
    /\ Chosen(conf)
    /\ \A a \in registered : Readable(a)
    /\ \A p \in Cli : CommandHolds(cmd[p]) /\ KnowsTheFile(cmd[p])
=============================================================================
