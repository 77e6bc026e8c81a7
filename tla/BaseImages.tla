------------------------------ MODULE BaseImages ----------------------------
(***************************************************************************)
(* DockerThread of tarsregistry, for one base image: what the table says,  *)
(* what the thread remembers and tells the nodes, and what docker has.     *)
(* The thread checks the image every _checkDockerRegistry seconds; clients *)
(* have it pulled, each in a thread of its own; a descriptor's query loads *)
(* the table when the image is not known.                                  *)
(***************************************************************************)
EXTENDS Naturals

CONSTANTS
  Caller,      \* RPC handlers, and the pulls they start
  MaxVersion,  \* bound: versions of the image in the docker registry
  MaxFaults    \* bound

VARIABLES
  remote,   \* the version in the docker registry
  local,    \* the docker daemon's: {} if it has none
  row,      \* the sha in t_base_image: 0 when empty, {} when there is no row
  known,    \* the same in _dockerRegistries
  images,   \* _baseImages: the sha that nodes are told
  thread,   \* where each thread is, and what it has read
  calm,     \* ledger: nothing has come between since the check began
  faults

vars == <<remote, local, row, known, images, thread, calm, faults>>

Check == "check"
Thread == Caller \cup {Check}
Version == 0 .. MaxVersion
Maybe == {{}} \cup {{v} : v \in Version}

TypeOK ==
  /\ remote \in Version \ {0} /\ local \in Maybe /\ row \in Maybe
  /\ known \in Maybe /\ images \in Maybe
  /\ thread \in [Thread -> [pc : {"idle", "load", "store", "check", "find", "pull",
                                  "inspect", "save", "update"},
                            call : {"check", "pull", "query"}, found : BOOLEAN,
                            read : Maybe]]
  /\ calm \in BOOLEAN /\ faults \in 0 .. MaxFaults

Idle == [pc |-> "idle", call |-> "check", found |-> FALSE, read |-> {}]

Init ==
  /\ remote = 1 /\ local = {} /\ row = {} /\ known = {} /\ images = {}
  /\ thread = [t \in Thread |-> Idle]
  /\ calm = FALSE /\ faults = 0

Goes(t, pc) ==
  thread' = [thread EXCEPT ![t] = IF pc = "idle" THEN Idle ELSE [@ EXCEPT !.pc = pc]]
GoesWith(t, pc, read) == thread' = [thread EXCEPT ![t].pc = pc, ![t].read = read]
Fails == faults < MaxFaults /\ faults' = faults + 1 /\ calm' = FALSE
Fine == UNCHANGED <<calm, faults>>
Others == \E t \in Caller : thread[t].pc # "idle"

-----------------------------------------------------------------------------
\* A new version is published; the row is entered, by hand, without a sha.
Published ==
  /\ remote < MaxVersion /\ remote' = remote + 1 /\ calm' = FALSE
  /\ UNCHANGED <<local, row, known, images, thread, faults>>

Entered ==
  /\ row = {} /\ row' = {0} /\ calm' = FALSE
  /\ UNCHANGED <<remote, local, known, images, thread, faults>>

\* run, when it is time; dockerPull; getBaseImageById of an unknown image.
Due ==
  /\ thread[Check].pc = "idle"
  /\ Goes(Check, "load") /\ calm' = ~Others
  /\ UNCHANGED <<remote, local, row, known, images, faults>>

findBaseImage == known # {}

dockerPull(t) ==
  /\ thread[t].pc = "idle"
  /\ thread' = [thread EXCEPT ![t] = [pc |-> "load", call |-> "pull",
                                      found |-> findBaseImage, read |-> {}]]
  /\ calm' = FALSE
  /\ UNCHANGED <<remote, local, row, known, images, faults>>

getBaseImageById(t) ==
  /\ thread[t].pc = "idle" /\ images = {}
  /\ thread' = [thread EXCEPT ![t] = [pc |-> "load", call |-> "query",
                                      found |-> FALSE, read |-> {}]]
  /\ calm' = FALSE
  /\ UNCHANGED <<remote, local, row, known, images, faults>>

\* loadDockerRegistry: the tables are read without the lock, and nothing is
\* stored if that failed.  Images once known stay known.
Loaded(t) == CASE thread[t].call = "check" -> "check"
               [] thread[t].call = "pull" -> "find"
               [] OTHER -> "idle"

LoadDockerInfo(t) ==
  /\ thread[t].pc = "load"
  /\ \/ GoesWith(t, "store", row) /\ Fine
     \/ Goes(t, Loaded(t)) /\ Fails
  /\ UNCHANGED <<remote, local, row, known, images>>

StoreLoaded(t) ==
  /\ thread[t].pc = "store"
  /\ known' = thread[t].read
  /\ images' = IF thread[t].read = {} THEN images ELSE thread[t].read
  /\ Goes(t, Loaded(t)) /\ Fine
  /\ UNCHANGED <<remote, local, row>>

\* checkPullDocker, of a copy of the registries: the local image is compared
\* with the row's sha, and pulled if they differ or docker does not say.
checkPullDocker ==
  /\ thread[Check].pc = "check"
  /\ \/ /\ Goes(Check, IF known = {} \/ known = local THEN "idle" ELSE "pull")
        /\ Fine
     \/ known # {} /\ Goes(Check, "pull") /\ Fails
  /\ UNCHANGED <<remote, local, row, known, images>>

FindAgain(t) ==
  /\ thread[t].pc = "find"
  /\ Goes(t, IF thread[t].found \/ findBaseImage THEN "pull" ELSE "idle") /\ Fine
  /\ UNCHANGED <<remote, local, row, known, images>>

\* doPull: docker's pull and inspection, the sha stored in memory and written
\* to the table; the result, which is written last, is left out.
Pull(t) ==
  /\ thread[t].pc = "pull"
  /\ \/ local' = {remote} /\ Goes(t, "inspect") /\ Fine
     \/ UNCHANGED local /\ Goes(t, "idle") /\ Fails
  /\ UNCHANGED <<remote, row, known, images>>

InspectImage(t) ==
  /\ thread[t].pc = "inspect"
  /\ \/ GoesWith(t, "save", local) /\ Fine
     \/ Goes(t, "idle") /\ Fails
  /\ UNCHANGED <<remote, local, row, known, images>>

SaveImage_Wrong(t) ==
  /\ thread[t].pc = "save"
  /\ Goes(t, "update") /\ Fine
  /\ UNCHANGED <<remote, local, row, known, images>>

SaveImage(t) ==
  /\ thread[t].pc = "save"
  /\ images' = thread[t].read /\ Goes(t, "update") /\ Fine
  /\ UNCHANGED <<remote, local, row, known>>

updateBaseImageSha(t) ==
  /\ thread[t].pc = "update"
  /\ \/ row' = thread[t].read /\ Goes(t, "idle") /\ Fine
     \/ UNCHANGED row /\ Goes(t, "idle") /\ Fails
  /\ UNCHANGED <<remote, local, known, images>>

Next ==
  \/ Published \/ Entered \/ Due \/ checkPullDocker
  \/ \E t \in Caller : dockerPull(t) \/ getBaseImageById(t)
  \/ \E t \in Thread :
       \/ LoadDockerInfo(t) \/ StoreLoaded(t) \/ FindAgain(t) \/ Pull(t)
       \/ InspectImage(t) \/ SaveImage(t) \/ updateBaseImageSha(t)

Spec == Init /\ [][Next]_vars

-----------------------------------------------------------------------------
\* Whatever loads and pulls have left behind, over each other and over failures,
\* one check that nothing comes between puts right: the nodes are told the sha of
\* the image that docker has, and the table says the same.
CheckHeals ==
  calm /\ thread[Check].pc = "idle" /\ row # {} => images = local /\ row = local
=============================================================================
