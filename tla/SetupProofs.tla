---------------------------- MODULE SetupProofs -----------------------------
(***************************************************************************)
(* Proofs about Setup, for any number of processes, Archives and Workspace *)
(* directories.                                                            *)
(***************************************************************************)
EXTENDS Setup, TLAPS

\* Markers appear and never change: Archives that could be read still can.
MarkersStay ==
    /\ marker' \in [Place -> Cli \cup MarkerKind]
    /\ \A a \in Place : marker[a] # "none" => marker'[a] = marker[a]

LEMMA ReadableStays ==
    ASSUME MarkersStay, NEW a \in Place, Readable(a) PROVE Readable(a)'
<1>1. marker[a] # "none"
  BY SetupAssumption DEF Readable, Current, MarkerKind
<1> QED BY <1>1 DEF MarkersStay, Readable, Current

LEMMA ChosenStays ==
    ASSUME MarkersStay, NEW c \in Setting, Chosen(c) PROVE Chosen(c)'
<1>1. c.archive \in Place
  BY DEF Setting
<1> QED BY <1>1, ReadableStays DEF Chosen

LEMMA HoldsStays ==
    ASSUME MarkersStay, NEW c \in SetupCommand, CommandHolds(c) PROVE CommandHolds(c)'
<1>1. c.cfg \in Setting
  BY DEF SetupCommand
<1>2. Chosen(c.cfg) => Chosen(c.cfg)'
  <2>1. PICK s \in Setting : s = c.cfg
    BY <1>1
  <2> QED BY <2>1, ChosenStays
<1> QED BY <1>2 DEF CommandHolds

\* One process takes a step that leaves the configuration alone.
LEMMA CommandStep ==
    ASSUME SetupInv, MarkersStay, NEW p \in Cli, NEW c \in SetupCommand,
           cmd' = [cmd EXCEPT ![p] = c], UNCHANGED <<conf, registered>>,
           CommandHolds(c)', KnowsTheFile(c)
    PROVE  SetupInv'
<1>1. SetupTypeOK /\ cmd' \in [Cli -> SetupCommand]
  BY DEF SetupInv, SetupTypeOK
<1>2. SetupTypeOK'
  BY <1>1 DEF SetupTypeOK, MarkersStay
<1>3. Chosen(conf)'
  <2>1. PICK s \in Setting : s = conf
    BY <1>1 DEF SetupTypeOK
  <2> QED BY <2>1, ChosenStays DEF SetupInv
<1>4. \A a \in registered' : Readable(a)'
  BY <1>1, ReadableStays DEF SetupInv, SetupTypeOK
<1>5. ASSUME NEW q \in Cli PROVE CommandHolds(cmd[q])' /\ KnowsTheFile(cmd[q])'
  <2>1. CASE q = p
    <3>1. cmd'[q] = c
      BY <2>1, <1>1 DEF SetupTypeOK
    <3> QED BY <3>1 DEF KnowsTheFile, CommandHolds, Chosen, Readable, Current
  <2>2. CASE q # p
    <3>1. PICK d \in SetupCommand : d = cmd[q] /\ d = cmd'[q]
      BY <2>2, <1>1 DEF SetupTypeOK
    <3>2. CommandHolds(d) /\ KnowsTheFile(d)
      BY <3>1 DEF SetupInv
    <3>3. CommandHolds(d)'
      BY <3>2, HoldsStays
    <3> QED BY <3>1, <3>2, <3>3 DEF KnowsTheFile, CommandHolds, Chosen, Readable, Current
  <2> QED BY <2>1, <2>2
<1>6. conf'.there \/ conf' = Default
  BY DEF SetupInv
<1> QED BY <1>2, <1>3, <1>4, <1>5, <1>6 DEF SetupInv

LEMMA SameMarkers == ASSUME SetupTypeOK, UNCHANGED marker PROVE MarkersStay
BY DEF SetupTypeOK, MarkersStay

LEMMA NoCommandHolds ==
    /\ NoCommand \in SetupCommand
    /\ CommandHolds(NoCommand) /\ KnowsTheFile(NoCommand)
    /\ CommandHolds(NoCommand)'
BY SetupAssumption DEF NoCommand, SetupCommand, Setting, Default, CommandHolds, KnowsTheFile

LEMMA InitHolds == SetupInit => SetupInv
<1> SUFFICES ASSUME SetupInit PROVE SetupInv
  OBVIOUS
<1>1. conf \in Setting /\ conf = Default
  BY SetupAssumption DEF SetupInit, Setting, Default
<1>2. cmd \in [Cli -> SetupCommand] /\ \A p \in Cli : cmd[p] = NoCommand
  BY NoCommandHolds DEF SetupInit
<1>3. SetupTypeOK
  BY <1>1, <1>2 DEF SetupInit, SetupTypeOK
<1>4. Chosen(conf)
  BY <1>1 DEF Chosen, Default
<1> QED BY <1>1, <1>2, <1>3, <1>4, NoCommandHolds DEF SetupInv, SetupInit

(***************************************************************************)
(* The steps.                                                              *)
(***************************************************************************)
\* An Archive that is empty or populated can be read.
LEMMA StateReadable ==
    ASSUME SetupTypeOK, NEW a \in Place, StateOf(a) \in {"empty", "populated"}
    PROVE  Readable(a)
BY SetupAssumption DEF SetupTypeOK, StateOf, Readable, Current, MarkerKind

LEMMA BeginStep ==
    ASSUME SetupInv, NEW p \in Cli, NEW op \in {"setup", "init", "set_default", "set_workspace"},
           NEW at \in {"look", "create", "read", "rename"}, NEW a \in Place, NEW cfg \in Setting,
           NEW c, c = [op |-> op, at |-> at, place |-> a,
                       cfg |-> [cfg EXCEPT !.there = TRUE, !.notes = FALSE],
                       notes |-> FALSE, alone |-> TRUE],
           Begin(p, op, at, a, cfg), CommandHolds(c), KnowsTheFile(c)
    PROVE  SetupInv'
<1>1. c \in SetupCommand
  BY DEF SetupCommand, Setting
<1>2. cmd' = [cmd EXCEPT ![p] = c] /\ UNCHANGED <<conf, marker, registered>>
  BY DEF Begin
<1>3. MarkersStay
  BY <1>2, SameMarkers DEF SetupInv
<1>4. CommandHolds(c)'
  BY <1>1, <1>3, HoldsStays
<1> QED BY <1>1, <1>2, <1>3, <1>4, CommandStep

LEMMA BeginInitStep == ASSUME SetupInv, NEW p \in Cli, BeginInit(p) PROVE SetupInv'
<1> DEFINE cfg == [Default EXCEPT !.ack = TRUE]
<1>1. cfg \in Setting /\ cfg.archive = DefaultPlace
  BY SetupAssumption DEF Default, Setting
<1>2. PICK c : c = [op |-> "setup", at |-> "look", place |-> DefaultPlace,
                    cfg |-> [cfg EXCEPT !.there = TRUE, !.notes = FALSE],
                    notes |-> FALSE, alone |-> TRUE]
  OBVIOUS
<1>3. c.cfg.there /\ c.cfg.archive = DefaultPlace
  BY <1>1, <1>2 DEF Setting
<1>4. CommandHolds(c) /\ KnowsTheFile(c)
  BY <1>2, <1>3 DEF BeginInit, CommandHolds, KnowsTheFile
<1>5. Begin(p, "setup", "look", DefaultPlace, cfg)
  BY DEF BeginInit
<1> HIDE DEF cfg
<1> QED BY <1>1, <1>2, <1>4, <1>5, BeginStep, SetupAssumption

LEMMA BeginArchiveInitStep ==
    ASSUME SetupInv, NEW p \in Cli, NEW a \in Place, BeginArchiveInit(p, a) PROVE SetupInv'
<1>1. Default \in Setting
  BY SetupAssumption DEF Default, Setting
<1>2. PICK c : c = [op |-> "init", at |-> "look", place |-> a,
                    cfg |-> [Default EXCEPT !.there = TRUE, !.notes = FALSE],
                    notes |-> FALSE, alone |-> TRUE]
  OBVIOUS
<1>3. CommandHolds(c) /\ KnowsTheFile(c)
  BY <1>1, <1>2 DEF CommandHolds, KnowsTheFile, Setting
<1> QED BY <1>1, <1>2, <1>3, BeginStep DEF BeginArchiveInit

LEMMA BeginSelectArchiveStep ==
    ASSUME SetupInv, NEW p \in Cli, NEW a \in Place, BeginSelectArchive(p, a) PROVE SetupInv'
<1>1. PICK cfg \in Setting : cfg = [conf EXCEPT !.archive = a]
  BY DEF SetupInv, SetupTypeOK, Setting
<1>2. PICK c : c = [op |-> "set_default", at |-> "read", place |-> DefaultPlace,
                    cfg |-> [cfg EXCEPT !.there = TRUE, !.notes = FALSE],
                    notes |-> FALSE, alone |-> TRUE]
  OBVIOUS
<1>3. Readable(a)
  BY StateReadable DEF BeginSelectArchive, SetupInv
<1>4. c.cfg.archive = a /\ c.cfg.there
      /\ c.cfg = [conf EXCEPT !.there = TRUE, !.archive = a, !.notes = FALSE]
  BY <1>1, <1>2 DEF SetupInv, SetupTypeOK, Setting
<1>5. Chosen(c.cfg)
  BY <1>3, <1>4 DEF Chosen
<1>6. CommandHolds(c) /\ KnowsTheFile(c)
  BY <1>2, <1>4, <1>5 DEF CommandHolds, KnowsTheFile
<1>7. Begin(p, "set_default", "read", DefaultPlace, cfg)
  BY <1>1 DEF BeginSelectArchive
<1> QED BY <1>1, <1>2, <1>6, <1>7, BeginStep, SetupAssumption

LEMMA BeginSelectWorkspaceStep ==
    ASSUME SetupInv, NEW p \in Cli, NEW d \in Dir, BeginSelectWorkspace(p, d) PROVE SetupInv'
<1>1. PICK cfg \in Setting : cfg = [conf EXCEPT !.dir = d]
  BY DEF SetupInv, SetupTypeOK, Setting
<1>2. PICK c : c = [op |-> "set_workspace", at |-> "read", place |-> DefaultPlace,
                    cfg |-> [cfg EXCEPT !.there = TRUE, !.notes = FALSE],
                    notes |-> FALSE, alone |-> TRUE]
  OBVIOUS
<1>3. /\ c.cfg.there /\ c.cfg.ack = conf.ack /\ c.cfg.archive = conf.archive /\ c.cfg.dir = d
      /\ c.cfg = [conf EXCEPT !.there = TRUE, !.dir = d, !.notes = FALSE]
  BY <1>1, <1>2 DEF SetupInv, SetupTypeOK, Setting
<1>4. Chosen(c.cfg)
  BY <1>3 DEF Chosen, SetupInv, Default
<1>5. CommandHolds(c) /\ KnowsTheFile(c)
  BY <1>2, <1>3, <1>4 DEF CommandHolds, KnowsTheFile
<1>6. Begin(p, "set_workspace", "read", DefaultPlace, cfg)
  BY <1>1 DEF BeginSelectWorkspace
<1> QED BY <1>1, <1>2, <1>5, <1>6, BeginStep, SetupAssumption

LEMMA KillStep == ASSUME SetupInv, NEW p \in Cli, KillCommand(p) PROVE SetupInv'
<1>1. MarkersStay
  BY SameMarkers DEF SetupInv, KillCommand
<1> QED BY <1>1, NoCommandHolds, CommandStep DEF KillCommand

\* A command that goes on to its next step, with the Archive it made or found.
LEMMA NextPhase ==
    ASSUME SetupInv, NEW p \in Cli, MarkersStay, UNCHANGED <<conf, registered>>,
           cmd[p].at \in {"look", "create"}, NEW a \in Place, a = cmd[p].place,
           \/ cmd' = [cmd EXCEPT ![p] = NoCommand]
           \/ cmd' = [cmd EXCEPT ![p] = [@ EXCEPT !.at = "create"]]
           \/ /\ cmd[p].op = "setup" /\ Readable(a)'
              /\ cmd' = [cmd EXCEPT ![p] = [@ EXCEPT !.at = "read"]]
    PROVE  SetupInv'
<1>1. PICK c \in SetupCommand : c = cmd[p]
  BY DEF SetupInv, SetupTypeOK
<1>2. CommandHolds(c) /\ KnowsTheFile(c) /\ c.cfg \in Setting
  BY <1>1 DEF SetupInv, SetupCommand
<1>3. CommandHolds(c)'
  BY <1>2, HoldsStays
<1>4. CASE cmd' = [cmd EXCEPT ![p] = NoCommand]
  BY <1>4, NoCommandHolds, CommandStep
<1>5. CASE cmd' = [cmd EXCEPT ![p] = [@ EXCEPT !.at = "create"]]
  <2>1. PICK d \in SetupCommand : d = [c EXCEPT !.at = "create"]
    BY <1>1 DEF SetupCommand
  <2>2. d.at = "create" /\ d.op = c.op /\ d.cfg = c.cfg /\ d.place = c.place /\ d.alone = c.alone
    BY <2>1 DEF SetupCommand
  <2>3. CommandHolds(d)' /\ KnowsTheFile(d)
    BY <2>2, <1>1, <1>2, <1>3 DEF CommandHolds, KnowsTheFile
  <2> QED BY <1>1, <1>5, <2>1, <2>3, CommandStep
<1>6. CASE /\ cmd[p].op = "setup" /\ Readable(a)'
           /\ cmd' = [cmd EXCEPT ![p] = [@ EXCEPT !.at = "read"]]
  <2>1. PICK d \in SetupCommand : d = [c EXCEPT !.at = "read"]
    BY <1>1 DEF SetupCommand
  <2>2. d.at = "read" /\ d.op = c.op /\ d.cfg = c.cfg /\ d.alone = c.alone
    BY <2>1 DEF SetupCommand
  <2>3. c.place = DefaultPlace /\ c.cfg.archive = DefaultPlace
    BY <1>1, <1>2, <1>6 DEF CommandHolds
  <2>4. Chosen(d.cfg)'
    BY <2>2, <2>3, <1>1, <1>6 DEF Chosen, Readable, Current
  <2>5. CommandHolds(d)' /\ KnowsTheFile(d)
    BY <2>2, <2>4, <1>1, <1>2, <1>6 DEF CommandHolds, KnowsTheFile
  <2> QED BY <1>1, <1>6, <2>1, <2>5, CommandStep
<1> QED BY <1>4, <1>5, <1>6

LEMMA LookStep == ASSUME SetupInv, NEW p \in Cli, LookForMarker(p) PROVE SetupInv'
<1>1. MarkersStay
  BY SameMarkers DEF SetupInv, LookForMarker
<1>2. PICK a \in Place : a = cmd[p].place
  BY DEF SetupInv, SetupTypeOK, SetupCommand
<1>3. Current(a) => Readable(a)'
  BY DEF LookForMarker, Readable, Current
<1> QED BY <1>1, <1>2, <1>3, NextPhase DEF LookForMarker

LEMMA CreateStep == ASSUME SetupInv, NEW p \in Cli, CreateMarker(p) PROVE SetupInv'
<1>1. PICK a \in Place : a = cmd[p].place
  BY DEF SetupInv, SetupTypeOK, SetupCommand
<1>2. MarkersStay
  BY <1>1 DEF SetupInv, SetupTypeOK, CreateMarker, MarkersStay
<1>3. marker[a] = "none" \/ Current(a) => Readable(a)'
  BY <1>1, SetupAssumption
     DEF SetupInv, SetupTypeOK, CreateMarker, Readable, Current, MarkerKind
<1> QED BY <1>1, <1>2, <1>3, NextPhase DEF CreateMarker

LEMMA ReadPreviousStep == ASSUME SetupInv, NEW p \in Cli, ReadPrevious(p) PROVE SetupInv'
<1>1. PICK c \in SetupCommand : c = cmd[p]
  BY DEF SetupInv, SetupTypeOK
<1>2. CommandHolds(c) /\ KnowsTheFile(c) /\ conf.notes \in BOOLEAN
  BY <1>1 DEF SetupInv, SetupTypeOK, Setting
<1>3. PICK d \in SetupCommand : d = [c EXCEPT !.notes = conf.notes, !.at = "rename"]
  BY <1>2 DEF SetupCommand
<1>4. /\ d.at = "rename" /\ d.op = c.op /\ d.cfg = c.cfg /\ d.alone = c.alone
      /\ d.notes = conf.notes
  BY <1>3 DEF SetupCommand
<1>5. c.at = "read"
  BY <1>1 DEF ReadPrevious
<1>6. CommandHolds(d) /\ KnowsTheFile(d)
  BY <1>2, <1>4, <1>5 DEF CommandHolds, KnowsTheFile
<1>7. MarkersStay
  BY SameMarkers DEF SetupInv, ReadPrevious
<1>8. CommandHolds(d)'
  BY <1>6, <1>7, HoldsStays
<1>9. cmd' = [cmd EXCEPT ![p] = d] /\ UNCHANGED <<conf, registered>>
  BY <1>1, <1>3 DEF ReadPrevious
<1> QED BY <1>6, <1>7, <1>8, <1>9, CommandStep

\* Whoever loses sight of the file knows nothing of it any more.
LEMMA LonelyHolds ==
    ASSUME NEW c \in SetupCommand, NEW phases, CommandHolds(c)
    PROVE  /\ Lonely(c, phases) \in SetupCommand
           /\ CommandHolds(Lonely(c, phases))
           /\ Lonely(c, phases).at = c.at /\ Lonely(c, phases).op = c.op
           /\ Lonely(c, phases).cfg = c.cfg /\ Lonely(c, phases).notes = c.notes
           /\ Lonely(c, phases).alone = (c.alone /\ c.at \notin phases)
<1>1. PICK b \in BOOLEAN : b = (c.alone /\ c.at \notin phases)
  BY DEF SetupCommand
<1>2. Lonely(c, phases) = [c EXCEPT !.alone = b]
  BY <1>1 DEF Lonely
<1>3. /\ Lonely(c, phases) \in SetupCommand
      /\ Lonely(c, phases).at = c.at /\ Lonely(c, phases).op = c.op
      /\ Lonely(c, phases).cfg = c.cfg /\ Lonely(c, phases).notes = c.notes
      /\ Lonely(c, phases).place = c.place /\ Lonely(c, phases).alone = b
  BY <1>2 DEF SetupCommand
<1>4. CommandHolds(Lonely(c, phases))
  BY <1>3 DEF CommandHolds
<1> QED BY <1>1, <1>3, <1>4

\* The file as ReplaceConfig leaves it.
LEMMA Replacement ==
    ASSUME SetupInv, NEW p \in Cli, ReplaceConfig(p)
    PROVE  /\ conf' \in Setting /\ conf'.there
           /\ conf'.archive = cmd[p].cfg.archive /\ conf'.dir = cmd[p].cfg.dir
           /\ conf'.ack = cmd[p].cfg.ack /\ conf'.notes = cmd[p].notes
           /\ Chosen(conf)'
<1>1. PICK c \in SetupCommand : c = cmd[p]
  BY DEF SetupInv, SetupTypeOK
<1>2. CommandHolds(c) /\ c.at = "rename" /\ c.cfg \in Setting /\ c.notes \in BOOLEAN
  BY <1>1 DEF SetupInv, ReplaceConfig, SetupCommand
<1>3. conf' = [c.cfg EXCEPT !.notes = c.notes]
  BY <1>1 DEF ReplaceConfig, MergeConfigJSONC
<1>4. /\ conf' \in Setting /\ conf'.archive = c.cfg.archive /\ conf'.dir = c.cfg.dir
      /\ conf'.ack = c.cfg.ack /\ conf'.notes = c.notes /\ conf'.there = c.cfg.there
  BY <1>2, <1>3 DEF Setting
<1>5. c.cfg.there /\ Chosen(c.cfg)
  BY <1>2 DEF CommandHolds
<1>6. Chosen(conf)'
  BY <1>4, <1>5 DEF Chosen, Readable, Current, ReplaceConfig
<1> QED BY <1>1, <1>4, <1>5, <1>6

LEMMA ReplaceStep == ASSUME SetupInv, NEW p \in Cli, ReplaceConfig(p) PROVE SetupInv'
<1> DEFINE phases == {"look", "create", "read", "rename"}
<1>1. ASSUME NEW q \in Cli
      PROVE  /\ cmd'[q] \in SetupCommand /\ CommandHolds(cmd[q])' /\ KnowsTheFile(cmd[q])'
             /\ cmd'[q] = IF q = p THEN NoCommand ELSE Lonely(cmd[q], phases)
  <2>1. cmd'[q] = IF q = p THEN NoCommand ELSE Lonely(cmd[q], phases)
    BY DEF ReplaceConfig, Disturbed
  <2>2. CASE q = p
    BY <2>1, <2>2, NoCommandHolds DEF KnowsTheFile, NoCommand, CommandHolds
  <2>3. CASE q # p
    <3>1. PICK c \in SetupCommand : c = cmd[q]
      BY DEF SetupInv, SetupTypeOK
    <3>2. PICK d \in SetupCommand : d = Lonely(c, phases)
      BY <3>1, LonelyHolds DEF SetupInv
    <3>3. /\ CommandHolds(d) /\ d.at = c.at
          /\ d.alone = (c.alone /\ c.at \notin phases) /\ d = cmd'[q]
      BY <3>1, <3>2, <2>1, <2>3, LonelyHolds DEF SetupInv
    <3>4. d.at # "idle" => ~d.alone
      BY <3>1, <3>3 DEF SetupCommand
    <3>5. MarkersStay
      BY SameMarkers DEF SetupInv, ReplaceConfig
    <3>6. CommandHolds(d)'
      BY <3>3, <3>5, HoldsStays
    <3> QED BY <2>1, <3>3, <3>4, <3>6 DEF CommandHolds, Chosen, Readable, Current, KnowsTheFile
  <2> QED BY <2>1, <2>2, <2>3
<1>2. cmd' \in [Cli -> SetupCommand]
  BY <1>1 DEF ReplaceConfig, Disturbed
<1>3. \A a \in registered' : Readable(a)'
  BY DEF SetupInv, ReplaceConfig, Readable, Current
<1> QED BY <1>1, <1>2, <1>3, Replacement DEF SetupInv, SetupTypeOK, ReplaceConfig

LEMMA UploadStep ==
    ASSUME SetupInv, NEW p \in Cli, NEW a \in Place, FirstUpload(p, a) PROVE SetupInv'
<1>1. /\ registered' = registered \cup {a} /\ UNCHANGED <<conf, marker, cmd>> /\ Readable(a)
  BY DEF FirstUpload, PrepareUpload, Readable
<1>2. \A b \in registered' : Readable(b)'
  BY <1>1 DEF SetupInv, Readable, Current
<1> QED BY <1>1, <1>2
        DEF SetupInv, SetupTypeOK, CommandHolds, KnowsTheFile, Chosen, Readable, Current

LEMMA EditStep == ASSUME SetupInv, EditConfig PROVE SetupInv'
<1>1. /\ conf' \in Setting /\ conf'.there /\ conf.there
      /\ conf'.archive = conf.archive /\ conf'.ack = conf.ack /\ conf'.dir = conf.dir
      /\ UNCHANGED <<marker, registered>>
  BY DEF EditConfig, SetupInv, SetupTypeOK, Setting
<1>2. ASSUME NEW q \in Cli
      PROVE  cmd'[q] \in SetupCommand /\ CommandHolds(cmd[q])' /\ KnowsTheFile(cmd[q])'
  <2>1. PICK c \in SetupCommand : c = cmd[q]
    BY DEF SetupInv, SetupTypeOK
  <2>2. CommandHolds(c) /\ KnowsTheFile(c)
    BY <2>1 DEF SetupInv
  <2>3. PICK d \in SetupCommand : d = Lonely(c, {"rename"})
    BY <2>2, LonelyHolds
  <2>4. /\ CommandHolds(d) /\ d.at = c.at /\ d.op = c.op /\ d.cfg = c.cfg /\ d.notes = c.notes
        /\ d.alone = (c.alone /\ c.at \notin {"rename"}) /\ d = cmd'[q]
    BY <2>1, <2>2, <2>3, LonelyHolds DEF EditConfig
  <2>5. MarkersStay
    BY <1>1, SameMarkers DEF SetupInv
  <2>6. CommandHolds(d)'
    BY <2>4, <2>5, HoldsStays
  <2>7. d.alone /\ d.at # "idle" => c.alone /\ c.at # "rename" /\ c.at # "idle"
    BY <2>4
  <2>8. /\ [conf' EXCEPT !.there = TRUE, !.archive = d.cfg.archive, !.notes = FALSE]
             = [conf EXCEPT !.there = TRUE, !.archive = d.cfg.archive, !.notes = FALSE]
        /\ [conf' EXCEPT !.there = TRUE, !.dir = d.cfg.dir, !.notes = FALSE]
             = [conf EXCEPT !.there = TRUE, !.dir = d.cfg.dir, !.notes = FALSE]
    BY <1>1 DEF SetupInv, SetupTypeOK, Setting
  <2>9. KnowsTheFile(d)'
    BY <1>1, <2>2, <2>4, <2>7, <2>8 DEF KnowsTheFile
  <2> QED BY <2>4, <2>6, <2>9 DEF CommandHolds, Chosen, Readable, Current, KnowsTheFile
<1>3. cmd' \in [Cli -> SetupCommand]
  BY <1>2 DEF EditConfig
<1>4. Chosen(conf)' /\ \A a \in registered' : Readable(a)'
  BY <1>1 DEF SetupInv, Chosen, Readable, Current
<1> QED BY <1>1, <1>2, <1>3, <1>4 DEF SetupInv, SetupTypeOK

LEMMA Inductive == SetupInv /\ [SetupNext]_setupVars => SetupInv'
<1> SUFFICES ASSUME SetupInv, [SetupNext]_setupVars PROVE SetupInv'
  OBVIOUS
<1>1. CASE SetupNext
  BY <1>1, BeginInitStep, BeginArchiveInitStep, BeginSelectArchiveStep, BeginSelectWorkspaceStep,
     UploadStep, LookStep, CreateStep, ReadPreviousStep, ReplaceStep, KillStep, EditStep
     DEF SetupNext
<1>2. CASE UNCHANGED setupVars
  BY <1>2 DEF setupVars, SetupInv, SetupTypeOK, Chosen, CommandHolds, KnowsTheFile, Readable, Current
<1> QED BY <1>1, <1>2

\* Everything below rests on this: the parts of SetupInv hold of every state.
THEOREM SetupInvariant == SetupSpec => []SetupInv
BY InitHolds, Inductive, PTL DEF SetupSpec

(***************************************************************************)
(* What init, archive init, archive set-default and workspace set-default  *)
(* leave behind, killed and raced at any step: the Archive a configuration *)
(* selects has a marker this version reads.                                *)
(***************************************************************************)
THEOREM ChosenArchiveIsThere == SetupSpec => []SelectedIsInitialised
<1>1. SetupInv => SelectedIsInitialised
  BY DEF SetupInv, SelectedIsInitialised, Chosen
<1> QED BY <1>1, SetupInvariant, PTL

(***************************************************************************)
(* config.Write keeps every setting but the command's own, and comments    *)
(* and extensions too, unless the file was replaced since it was loaded.   *)
(***************************************************************************)
OwnChanges ==
    \A p \in Cli :
        cmd[p].at = "rename" /\ cmd'[p].at = "idle" /\ conf' # conf /\ cmd[p].alone
            => OwnChange(cmd[p].op, conf, conf')

LEMMA OwnChangeStep == SetupInv /\ [SetupNext]_setupVars => OwnChanges
<1> SUFFICES ASSUME SetupInv, [SetupNext]_setupVars, NEW p \in Cli,
                    cmd[p].at = "rename", cmd'[p].at = "idle", conf' # conf, cmd[p].alone
             PROVE  OwnChange(cmd[p].op, conf, conf')
  BY DEF OwnChanges
<1>1. PICK c \in SetupCommand : c = cmd[p]
  BY DEF SetupInv, SetupTypeOK
<1>2. CommandHolds(c) /\ KnowsTheFile(c)
  BY <1>1 DEF SetupInv
<1>3. ReplaceConfig(p)
  <2>1. (\E q \in Cli : ReplaceConfig(q)) \/ EditConfig
    BY DEF SetupNext, setupVars, BeginInit, BeginArchiveInit, BeginSelectArchive,
           BeginSelectWorkspace, Begin, LookForMarker, CreateMarker, ReadPrevious, FirstUpload,
           KillCommand
  <2>2. ASSUME NEW phases PROVE Lonely(c, phases).at = "rename"
    BY <1>1, <1>2, LonelyHolds
  <2>3. ~EditConfig
    BY <2>2, <1>1 DEF EditConfig
  <2>4. ASSUME NEW q \in Cli, q # p PROVE ~ReplaceConfig(q)
    BY <2>2, <2>4, <1>1 DEF ReplaceConfig, Disturbed
  <2> QED BY <2>1, <2>3, <2>4
<1>4. /\ conf' \in Setting /\ conf \in Setting /\ conf'.there
      /\ conf'.archive = c.cfg.archive /\ conf'.dir = c.cfg.dir
      /\ conf'.ack = c.cfg.ack /\ conf'.notes = conf.notes
  <2>1. c.notes = conf.notes
    BY <1>1, <1>2 DEF KnowsTheFile
  <2> QED BY <1>1, <1>3, <2>1, Replacement DEF SetupInv, SetupTypeOK
<1>5. CASE c.op = "setup"
  BY <1>1, <1>2, <1>5 DEF KnowsTheFile, OwnChange
<1>6. CASE c.op = "set_default"
  <2>1. c.cfg = [conf EXCEPT !.there = TRUE, !.archive = c.cfg.archive, !.notes = FALSE]
    BY <1>1, <1>2, <1>6 DEF KnowsTheFile
  <2>2. c.cfg.dir = conf.dir /\ c.cfg.ack = conf.ack
    BY <2>1, <1>4 DEF Setting
  <2>3. conf' = [conf EXCEPT !.there = TRUE, !.archive = conf'.archive]
    BY <2>2, <1>4 DEF Setting
  <2> QED BY <2>3, <1>1, <1>6 DEF OwnChange
<1>7. CASE c.op = "set_workspace"
  <2>1. c.cfg = [conf EXCEPT !.there = TRUE, !.dir = c.cfg.dir, !.notes = FALSE]
    BY <1>1, <1>2, <1>7 DEF KnowsTheFile
  <2>2. c.cfg.archive = conf.archive /\ c.cfg.ack = conf.ack
    BY <2>1, <1>4 DEF Setting
  <2>3. conf' = [conf EXCEPT !.there = TRUE, !.dir = conf'.dir]
    BY <2>2, <1>4 DEF Setting
  <2> QED BY <2>3, <1>1, <1>7 DEF OwnChange
<1> QED BY <1>1, <1>2, <1>5, <1>6, <1>7 DEF CommandHolds

THEOREM OwnFieldsOnly == SetupSpec => ChangesAreOwn
<1>1. SetupSpec => [][OwnChanges]_setupVars
  BY SetupInvariant, OwnChangeStep, PTL DEF SetupSpec
<1> QED BY <1>1 DEF ChangesAreOwn, OwnChanges

(***************************************************************************)
(* Nothing any command does moves an Archive off model.ArchiveTransition,  *)
(* or replaces a marker that is there.                                     *)
(***************************************************************************)
TableMoves ==
    \A a \in Place :
        /\ marker[a] # "none" => marker'[a] = marker[a]
        /\ StateOf(a)' # StateOf(a) =>
              \E op \in {"init", "upload"} : StateOf(a)' \in Transition(op, StateOf(a))

LEMMA TableStep == SetupInv /\ [SetupNext]_setupVars => TableMoves
<1> SUFFICES ASSUME SetupInv, [SetupNext]_setupVars, NEW a \in Place
             PROVE  /\ marker[a] # "none" => marker'[a] = marker[a]
                    /\ StateOf(a)' # StateOf(a) =>
                          \E op \in {"init", "upload"} :
                              StateOf(a)' \in Transition(op, StateOf(a))
  BY DEF TableMoves
<1>1. CASE \E p \in Cli : CreateMarker(p)
  <2>1. PICK p \in Cli : CreateMarker(p)
    BY <1>1
  <2>2. PICK b \in Place : b = cmd[p].place
    BY DEF SetupInv, SetupTypeOK, SetupCommand
  <2>3. marker' = [marker EXCEPT ![b] = IF @ = "none" THEN p ELSE @] /\ registered' = registered
    BY <2>1, <2>2 DEF CreateMarker
  <2>4. CASE a = b /\ marker[a] = "none"
    <3>1. marker'[a] = p /\ p \notin MarkerKind /\ a \notin registered
      BY <2>3, <2>4, SetupAssumption
         DEF SetupInv, SetupTypeOK, Readable, Current, MarkerKind
    <3>2. StateOf(a) = "uninitialised"
      BY <2>4 DEF StateOf
    <3>3. StateOf(a)' = "empty"
      BY <3>1, <2>3 DEF StateOf, MarkerKind
    <3>4. "empty" \in Transition("init", "uninitialised")
      BY DEF Transition
    <3> QED BY <2>4, <3>2, <3>3, <3>4
  <2>5. CASE ~(a = b /\ marker[a] = "none")
    <3>1. marker'[a] = marker[a]
      BY <2>3, <2>5 DEF SetupInv, SetupTypeOK
    <3>2. StateOf(a)' = StateOf(a)
      BY <3>1, <2>3 DEF StateOf
    <3> QED BY <3>1, <3>2
  <2> QED BY <2>4, <2>5
<1>2. CASE \E p \in Cli, b \in Place : FirstUpload(p, b)
  <2>1. PICK b \in Place : /\ registered' = registered \cup {b} /\ marker' = marker
                           /\ Transition("upload", StateOf(b)) # {}
    BY <1>2 DEF FirstUpload, PrepareUpload
  <2>2. CASE a = b /\ a \notin registered
    <3>1. StateOf(a) \in {"empty", "populated"}
      BY <2>1, <2>2 DEF Transition
    <3>2. StateOf(a)' = "populated"
      BY <2>1, <2>2, <3>1 DEF StateOf
    <3>3. "populated" \in Transition("upload", StateOf(a))
      BY <3>1 DEF Transition
    <3> QED BY <2>1, <3>2, <3>3
  <2>3. CASE ~(a = b /\ a \notin registered)
    <3>1. StateOf(a)' = StateOf(a)
      BY <2>1, <2>3 DEF StateOf
    <3> QED BY <2>1, <3>1
  <2> QED BY <2>2, <2>3
<1>3. CASE UNCHANGED <<marker, registered>>
  BY <1>3 DEF StateOf
<1> QED BY <1>1, <1>2, <1>3
        DEF SetupNext, setupVars, BeginInit, BeginArchiveInit, BeginSelectArchive,
            BeginSelectWorkspace, Begin, LookForMarker, ReadPrevious, ReplaceConfig, KillCommand,
            EditConfig

THEOREM ArchivesMoveByTable == SetupSpec => MovesByTable
<1>1. SetupSpec => [][TableMoves]_setupVars
  BY SetupInvariant, TableStep, PTL DEF SetupSpec
<1> QED BY <1>1 DEF MovesByTable, TableMoves
=============================================================================
