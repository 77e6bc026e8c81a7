------------------------------ MODULE ConfigLoad ----------------------------
(***************************************************************************)
(* A server loads a file from tarsconfig.  The answer is put together of   *)
(* the rows of several levels: the files the server's file refers to, the  *)
(* server's file, the files the node's file refers to, the node's file; a  *)
(* later part overrides an earlier one.  loadConfigByInfo adds to a file   *)
(* referred to the rows of the client's set.                               *)
(*                                                                         *)
(* Every row is a statement of its own: the tables change between them,    *)
(* and any of them may fail.  A row is a number, 0 when it is missing, for *)
(* files are not empty.  CHECKLIMIT is in ConfigLimit; ListConfig and its  *)
(* kin are one statement each.                                             *)
(***************************************************************************)
EXTENDS Naturals, Sequences

CONSTANTS
  App,  \* files of the application that others may refer to
  MaxChanges, MaxFaults  \* bounds: changes of the tables, failing statements

VARIABLES
  row,   \* t_config_files
  refs,  \* t_config_references: what the file of a level refers to, in order
  changes, faults,
  load   \* the call: where it is and what it has

vars == <<row, refs, changes, faults, load>>

F == INSTANCE SequencesExt

Level == {"all", "node"}
Own(level) == <<level, "own">>
Part == {Own(l) : l \in Level} \cup (App \X {"app", "set"})
References == F!SetToAllKPermutations(App)

\* todo: references still to be loaded; temp, config: parts with their rows;
\* half: the application's row of the reference being loaded; own: the row of the
\* level.  before, changed and skipped are for the property only: the answer due
\* when the call came, whether a table changed, whether a reference failed.
Parts == Seq(Part \X (0 .. MaxChanges + 1))

TypeOK ==
  /\ row \in [Part -> 0 .. MaxChanges + 1]
  /\ refs \in [Level -> References]
  /\ changes \in 0 .. MaxChanges /\ faults \in 0 .. MaxFaults
  /\ load.stage \in {"none", "own", "refs", "ref", "set", "merge", "done"}
  /\ load.level \in Level /\ load.ret \in {0, 1} /\ load.todo \in Seq(App)
  /\ load.temp \in Parts /\ load.config \in Parts /\ load.half \in Parts /\ load.own \in Parts
  /\ load.byInfo \in BOOLEAN /\ load.inSet \in BOOLEAN

\* mergeConfig is concatenation, and an empty row adds nothing.
Of(p) == IF row[p] = 0 THEN <<>> ELSE <<<<p, row[p]>>>>

\* What the call is to answer.
RefParts(byInfo, inSet, a) ==
  Of(<<a, "app">>) \o (IF byInfo /\ inSet /\ row[<<a, "app">>] # 0 THEN Of(<<a, "set">>) ELSE <<>>)
LevelParts(byInfo, inSet, level) ==
  IF row[Own(level)] = 0 THEN <<>>
  ELSE F!FlattenSeq([i \in 1 .. Len(refs[level]) |-> RefParts(byInfo, inSet, refs[level][i])])
         \o Of(Own(level))
Merged(byInfo, inSet) ==
  LevelParts(byInfo, inSet, "all") \o LevelParts(byInfo, inSet, "node")

NoLoad ==
  [stage |-> "none", level |-> "all", byInfo |-> FALSE, inSet |-> FALSE, todo |-> <<>>,
   temp |-> <<>>, config |-> <<>>, half |-> <<>>, own |-> <<>>, ret |-> 0,
   before |-> <<>>, changed |-> FALSE, skipped |-> FALSE]

Init ==
  /\ row = [p \in Part |-> 1] /\ refs \in [Level -> References]
  /\ changes = 0 /\ faults = 0
  /\ load = NoLoad

-----------------------------------------------------------------------------
\* The files and references are edited on the web.
Change ==
  /\ changes < MaxChanges /\ changes' = changes + 1
  /\ \/ \E p \in Part, n \in {0, changes + 2} : row' = [row EXCEPT ![p] = n] /\ UNCHANGED refs
     \/ \E l \in Level, r \in References : refs' = [refs EXCEPT ![l] = r] /\ UNCHANGED row
  /\ load' = [load EXCEPT !.changed = TRUE]
  /\ UNCHANGED faults

Statement == UNCHANGED <<row, refs, changes>>
Succeeds == UNCHANGED faults
Fails == faults < MaxFaults /\ faults' = faults + 1

loadConfig ==
  /\ load.stage \in {"none", "done"}
  /\ \E byInfo, inSet \in BOOLEAN :
       load' = [NoLoad EXCEPT !.stage = "own", !.byInfo = byInfo, !.inSet = inSet,
                              !.before = Merged(byInfo, inSet)]
  /\ Statement /\ Succeeds

\* The row of the level; a failure ends the call.
selectOwn ==
  /\ load.stage = "own"
  /\ \/ load' = [load EXCEPT !.stage = "refs", !.own = Of(Own(load.level))] /\ Succeeds
     \/ load' = [load EXCEPT !.stage = "done", !.ret = 1] /\ Fails
  /\ Statement

\* No row, no id: nothing refers to id 0.
getReferenceIds ==
  /\ load.stage = "refs"
  /\ \/ /\ load' = [load EXCEPT !.stage = "ref", !.ret = 0,
                      !.todo = IF load.own = <<>> THEN <<>> ELSE refs[load.level]]
        /\ Succeeds
     \/ load' = [load EXCEPT !.stage = "merge", !.ret = 1, !.skipped = TRUE] /\ Fails
  /\ Statement

Loaded(parts) ==
  [load EXCEPT !.stage = "ref", !.todo = Tail(@), !.temp = @ \o parts, !.half = <<>>, !.ret = 0]
RefFails ==
  load' = [load EXCEPT !.stage = "ref", !.todo = Tail(@), !.half = <<>>, !.ret = 1,
                       !.skipped = TRUE]

\* loadRefConfigByPK, loadConfigByPK: a reference that fails is left out, and its
\* return value is overwritten by the next one's.
loadRefConfigByPK ==
  /\ load.stage = "ref" /\ load.todo # <<>>
  /\ \/ /\ LET app == Of(<<Head(load.todo), "app">>)
           IN  IF load.byInfo /\ load.inSet /\ app # <<>>
               THEN load' = [load EXCEPT !.stage = "set", !.half = app]
               ELSE load' = Loaded(app)
        /\ Succeeds
     \/ RefFails /\ Fails
  /\ Statement

selectSet ==
  /\ load.stage = "set"
  /\ \/ load' = Loaded(load.half \o Of(<<Head(load.todo), "set">>)) /\ Succeeds
     \/ RefFails /\ Fails
  /\ Statement

RefsDone ==
  /\ load.stage = "ref" /\ load.todo = <<>>
  /\ load' = [load EXCEPT !.stage = "merge"]
  /\ Statement /\ Succeeds

mergeConfig_Wrong(next, level) ==
  load' = [load EXCEPT !.stage = next, !.level = level,
                       !.config = load.config \o load.temp \o load.own, !.own = <<>>]

\* The references before the level's own row, behind what there is; sTemp is
\* cleared for the next level.
mergeConfig(next, level) ==
  load' = [load EXCEPT !.stage = next, !.level = level, !.temp = <<>>,
                       !.config = load.config \o load.temp \o load.own, !.own = <<>>]

Merge ==
  /\ load.stage = "merge"
  /\ IF load.level = "all" THEN mergeConfig("own", "node") ELSE mergeConfig("done", "node")
  /\ Statement /\ Succeeds

Next ==
  \/ Change \/ loadConfig \/ selectOwn \/ getReferenceIds \/ loadRefConfigByPK \/ selectSet
  \/ RefsDone \/ Merge

Spec == Init /\ [][Next]_vars

-----------------------------------------------------------------------------
\* A call that is answered with success has every part in its place, the more
\* special ones behind the more general ones, unless the tables changed while it
\* was reading them, or a reference could not be loaded: neither is told.
LoadTrue ==
  load.stage = "done" /\ load.ret = 0 =>
    load.config = load.before \/ load.changed \/ load.skipped
=============================================================================
