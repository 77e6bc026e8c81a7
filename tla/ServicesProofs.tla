--------------------------- MODULE ServicesProofs ---------------------------
(***************************************************************************)
(* Proofs about the services that keep to themselves (MCServices) and, at  *)
(* the end, about the limits of one server (ServerLimits).                 *)
(***************************************************************************)
EXTENDS MCServices, ServerLimits, Functions, FiniteSetsExt, SequenceTheorems, FiniteSetTheorems,
        WellFoundedInduction, TLAPS

-----------------------------------------------------------------------------
(***************************************************************************)
(* BaseImages                                                              *)
(***************************************************************************)
Turn ==
  [pc : {"idle", "load", "store", "check", "find", "pull", "inspect", "save", "update"},
   call : {"check", "pull", "query"}, found : BOOLEAN, read : Images!Maybe]

\* What a check has brought in step so far, if nothing came between.
Checking ==
  /\ \A t \in One : thread[t].pc = "idle"
  /\ thread["check"].pc = "store" => thread["check"].read = imageRow
  /\ thread["check"].pc = "check" =>
       imageKnown = imageRow /\ (imageRow = {} \/ images = imageRow)
  /\ thread["check"].pc = "save" => thread["check"].read = imageLocal
  /\ thread["check"].pc = "update" =>
       thread["check"].read = imageLocal /\ images = imageLocal
  /\ thread["check"].pc = "idle" /\ imageRow # {} =>
       images = imageLocal /\ imageRow = imageLocal

\* DockerThread itself neither pulls nor queries for a caller.
ImageInv ==
  /\ Images!TypeOK
  /\ thread["check"].call = "check" /\ thread["check"].pc # "find"
  /\ calm => Checking

LEMMA ImagesHeal == ImageInv => Images!TypeOK /\ Images!CheckHeals
BY DEF ImageInv, Checking, Images!CheckHeals, Images!Check

LEMMA ImageTerms ==
  /\ "check" \in Images!Thread /\ One \subseteq Images!Thread
  /\ \A t \in Images!Thread : t = "check" \/ t \in One
  /\ {} \in Images!Maybe /\ {0} \in Images!Maybe
  /\ Images!Idle \in Turn /\ Images!Idle.pc = "idle" /\ Images!Idle.call = "check"
BY ServicesAssumption
DEF Images!Thread, Images!Check, Images!Maybe, Images!Version, Images!Idle, Turn

LEMMA ImageTyped ==
  Images!TypeOK => /\ imageLocal \in Images!Maybe /\ imageRow \in Images!Maybe
                   /\ imageKnown \in Images!Maybe /\ images \in Images!Maybe
                   /\ {remote} \in Images!Maybe /\ calm \in BOOLEAN
                   /\ thread \in [Images!Thread -> Turn]
BY DEF Images!TypeOK, Turn, Images!Maybe

LEMMA ImagesInit == Images!Init => ImageInv
<1> SUFFICES ASSUME Images!Init PROVE ImageInv
  OBVIOUS
<1>1. thread \in [Images!Thread -> Turn] /\ \A t \in Images!Thread : thread[t] = Images!Idle
  BY ImageTerms DEF Images!Init
<1>2. remote \in Images!Version \ {0} /\ 0 \in 0 .. MaxFaults
  BY ServicesAssumption DEF Images!Init, Images!Version
<1>3. Images!TypeOK
  BY <1>1, <1>2, ImageTerms DEF Images!Init, Images!TypeOK, Turn
<1> QED
  BY <1>1, <1>3, ImageTerms DEF ImageInv, Images!Init

\* One thread goes on.
Moves(t, pc, call, read) ==
  /\ thread' \in [Images!Thread -> Turn]
  /\ thread'[t].pc = pc /\ thread'[t].call = call /\ thread'[t].read = read
  /\ \A s \in Images!Thread \ {t} : thread'[s] = thread[s]

LEMMA ImageGoes ==
  ASSUME Images!TypeOK, NEW t \in Images!Thread,
         NEW pc \in {"store", "check", "find", "pull", "inspect", "save", "update", "load"},
         Images!Goes(t, pc)
  PROVE  Moves(t, pc, thread[t].call, thread[t].read)
<1>1. thread \in [Images!Thread -> Turn]
  BY ImageTyped
<1>2. PICK k \in Turn : k = thread[t]
  BY <1>1
<1>3. PICK new : new = [k EXCEPT !.pc = pc]
  OBVIOUS
<1>4. new \in Turn /\ new.pc = pc /\ new.call = k.call /\ new.read = k.read
  BY <1>3 DEF Turn
<1>5. thread' = [thread EXCEPT ![t] = new]
  BY <1>1, <1>2, <1>3 DEF Images!Goes
<1> QED
  BY <1>1, <1>2, <1>4, <1>5 DEF Moves

LEMMA ImageRests ==
  ASSUME Images!TypeOK, NEW t \in Images!Thread, Images!Goes(t, "idle")
  PROVE  Moves(t, "idle", "check", thread'[t].read)
<1>1. thread \in [Images!Thread -> Turn]
  BY ImageTyped
<1>2. thread' = [thread EXCEPT ![t] = Images!Idle]
  BY DEF Images!Goes
<1> QED
  BY <1>1, <1>2, ImageTerms DEF Moves

LEMMA ImageGoesWith ==
  ASSUME Images!TypeOK, NEW t \in Images!Thread, NEW pc \in {"store", "save"},
         NEW read \in Images!Maybe, Images!GoesWith(t, pc, read)
  PROVE  Moves(t, pc, thread[t].call, read)
<1>1. thread \in [Images!Thread -> Turn]
  BY ImageTyped
<1>2. PICK k \in Turn : k = thread[t]
  BY <1>1
<1>3. PICK new : new = [k EXCEPT !.pc = pc, !.read = read]
  OBVIOUS
<1>4. new \in Turn /\ new.pc = pc /\ new.call = k.call /\ new.read = read
  BY <1>3 DEF Turn
<1>5. thread' = [thread EXCEPT ![t] = new]
  BY <1>1, <1>2, <1>3 DEF Images!GoesWith
<1> QED
  BY <1>1, <1>2, <1>4, <1>5 DEF Moves

LEMMA ImageFault ==
  ASSUME Images!TypeOK, Images!Fine \/ Images!Fails
  PROVE  faults' \in 0 .. MaxFaults /\ calm' \in BOOLEAN /\ (calm' => calm)
<1>1. faults' \in 0 .. MaxFaults
  BY ServicesAssumption DEF Images!TypeOK, Images!Fine, Images!Fails
<1>2. calm \in BOOLEAN /\ (calm' = calm \/ calm' = FALSE)
  BY DEF Images!TypeOK, Images!Fine, Images!Fails
<1>3. CASE calm' = calm
  BY <1>1, <1>2, <1>3
<1>4. CASE calm' = FALSE
  BY <1>1, <1>4
<1> QED
  BY <1>2, <1>3, <1>4

\* What comes from outside is the end of the calm.
LEMMA ImagesOutside ==
  ASSUME ImageInv,
         \/ Images!Published \/ Images!Entered
         \/ \E t \in One : Images!dockerPull(t) \/ Images!getBaseImageById(t)
  PROVE  ImageInv'
<1>1. Images!TypeOK /\ thread \in [Images!Thread -> Turn] /\ calm' = FALSE
  BY ImageTyped
  DEF ImageInv, Images!Published, Images!Entered, Images!dockerPull, Images!getBaseImageById
<1>2. CASE Images!Published
  <2>1. remote' \in Images!Version \ {0}
    BY <1>1, <1>2, ServicesAssumption DEF Images!TypeOK, Images!Published, Images!Version
  <2>2. UNCHANGED <<imageLocal, imageRow, imageKnown, images, thread, faults>>
    BY <1>2 DEF Images!Published
  <2> QED
    BY <1>1, <2>1, <2>2 DEF ImageInv, Images!TypeOK
<1>3. CASE Images!Entered
  BY <1>1, <1>3, ImageTerms DEF ImageInv, Images!TypeOK, Images!Entered
<1>4. ASSUME NEW t \in One, Images!dockerPull(t) \/ Images!getBaseImageById(t)
      PROVE  ImageInv'
  <2>1. PICK new \in Turn : thread' = [thread EXCEPT ![t] = new]
    <3>1. PICK found \in BOOLEAN : found = Images!findBaseImage
      BY DEF Images!findBaseImage
    <3>2. /\ [pc |-> "load", call |-> "pull", found |-> found, read |-> {}] \in Turn
          /\ [pc |-> "load", call |-> "query", found |-> FALSE, read |-> {}] \in Turn
      BY ImageTerms DEF Turn
    <3> QED
      BY <1>4, <3>1, <3>2 DEF Images!dockerPull, Images!getBaseImageById
  <2>2. thread' \in [Images!Thread -> Turn] /\ thread'["check"] = thread["check"]
    BY <1>1, <2>1, ImageTerms, ServicesAssumption
  <2>3. UNCHANGED <<remote, imageLocal, imageRow, imageKnown, images, faults>>
    BY <1>4 DEF Images!dockerPull, Images!getBaseImageById
  <2>4. Images!TypeOK'
    BY <1>1, <2>2, <2>3 DEF Images!TypeOK, Turn
  <2> QED
    BY <1>1, <2>2, <2>4 DEF ImageInv
<1> QED
  BY <1>2, <1>3, <1>4

\* A thread that goes on in the calm is the one that checks.
LEMMA ImageMoves ==
  ASSUME ImageInv, NEW t \in Images!Thread, thread[t].pc # "idle",
         NEW pc, NEW call, NEW read, Moves(t, pc, call, read),
         t = "check" => call = "check" /\ pc # "find",
         Images!Fine \/ Images!Fails, UNCHANGED remote,
         imageLocal' \in Images!Maybe, imageRow' \in Images!Maybe,
         imageKnown' \in Images!Maybe, images' \in Images!Maybe,
         calm' /\ t = "check" /\ Checking => Checking'
  PROVE  ImageInv'
<1>1. Images!TypeOK
  BY DEF ImageInv
<1>2. Images!TypeOK'
  BY <1>1, ImageFault DEF Images!TypeOK, Turn, Moves
<1>3. thread'["check"].call = "check" /\ thread'["check"].pc # "find"
  BY ImageTerms DEF ImageInv, Moves
<1>4. calm' => Checking'
  BY <1>1, ImageFault, ImageTerms DEF ImageInv, Checking
<1> QED
  BY <1>2, <1>3, <1>4 DEF ImageInv

LEMMA ImagesDue == ImageInv /\ Images!Due => ImageInv'
<1> SUFFICES ASSUME ImageInv, Images!Due PROVE ImageInv'
  OBVIOUS
<1>1. Images!TypeOK /\ Moves("check", "load", thread["check"].call, thread["check"].read)
  BY ImageGoes, ImageTerms DEF ImageInv, Images!Due, Images!Check
<1>2. /\ UNCHANGED <<remote, imageLocal, imageRow, imageKnown, images, faults>>
      /\ calm' = ~Images!Others
  BY DEF Images!Due
<1>3. Images!TypeOK'
  BY <1>1, <1>2 DEF Images!TypeOK, Turn, Moves
<1>4. calm' => Checking'
  BY <1>1, <1>2, ImageTerms, ServicesAssumption DEF Checking, Moves, Images!Others
<1> QED
  BY <1>1, <1>3, <1>4 DEF ImageInv, Moves

LEMMA ImagesLoad ==
  ASSUME ImageInv, NEW t \in Images!Thread,
         Images!LoadDockerInfo(t) \/ Images!StoreLoaded(t)
  PROVE  ImageInv'
<1>1. /\ Images!TypeOK /\ imageRow \in Images!Maybe /\ images \in Images!Maybe
      /\ thread[t].read \in Images!Maybe /\ thread[t].call \in {"check", "pull", "query"}
      /\ imageKnown \in Images!Maybe /\ imageLocal \in Images!Maybe
  BY ImageTyped DEF ImageInv, Turn
<1>2. /\ Images!Loaded(t) \in {"check", "find", "idle"}
      /\ t = "check" => Images!Loaded(t) = "check"
  BY <1>1 DEF Images!Loaded, ImageInv
<1>3. ASSUME Images!Goes(t, Images!Loaded(t))
      PROVE  \E call, read : /\ Moves(t, Images!Loaded(t), call, read)
                             /\ t = "check" => call = "check"
  <2>1. CASE Images!Loaded(t) = "idle"
    BY <1>1, <1>3, <2>1, ImageRests
  <2>2. CASE Images!Loaded(t) \in {"check", "find"}
    <3>1. Moves(t, Images!Loaded(t), thread[t].call, thread[t].read)
      BY <1>1, <1>3, <2>2, ImageGoes
    <3> QED
      BY <3>1 DEF ImageInv
  <2> QED
    BY <1>2, <2>1, <2>2
<1>4. CASE Images!LoadDockerInfo(t)
  <2>1. /\ thread[t].pc = "load"
        /\ UNCHANGED <<remote, imageLocal, imageRow, imageKnown, images>>
    BY <1>4 DEF Images!LoadDockerInfo
  <2>2. CASE Images!GoesWith(t, "store", imageRow) /\ Images!Fine
    <3>1. Moves(t, "store", thread[t].call, imageRow)
      BY <1>1, <2>2, ImageGoesWith
    <3>2. t = "check" /\ Checking => Checking'
      BY <2>1, <3>1, ImageTerms, ServicesAssumption DEF Checking, Moves
    <3> QED
      BY <1>1, <2>1, <2>2, <3>1, <3>2, ImageMoves DEF ImageInv
  <2>3. CASE Images!Goes(t, Images!Loaded(t)) /\ Images!Fails
    <3>1. PICK call, read : /\ Moves(t, Images!Loaded(t), call, read)
                            /\ t = "check" => call = "check"
      BY <1>3, <2>3
    <3>2. ~calm'
      BY <2>3 DEF Images!Fails
    <3> QED
      BY <1>1, <1>2, <2>1, <2>3, <3>1, <3>2, ImageMoves
  <2> QED
    BY <1>4, <2>2, <2>3 DEF Images!LoadDockerInfo
<1>5. CASE Images!StoreLoaded(t)
  <2>1. /\ thread[t].pc = "store" /\ imageKnown' = thread[t].read
        /\ images' = IF thread[t].read = {} THEN images ELSE thread[t].read
        /\ Images!Fine /\ UNCHANGED <<remote, imageLocal, imageRow>>
    BY <1>5 DEF Images!StoreLoaded
  <2>2. PICK call, read : /\ Moves(t, Images!Loaded(t), call, read)
                          /\ t = "check" => call = "check"
    BY <1>3, <1>5 DEF Images!StoreLoaded
  <2>3. t = "check" /\ Checking => Checking'
    BY <1>2, <2>1, <2>2, ImageTerms, ServicesAssumption DEF Checking, Moves
  <2> QED
    BY <1>1, <1>2, <2>1, <2>2, <2>3, ImageMoves
<1> QED
  BY <1>4, <1>5, ZenonT(40)

LEMMA ImagesCheck == ImageInv /\ Images!checkPullDocker => ImageInv'
<1> SUFFICES ASSUME ImageInv, Images!checkPullDocker PROVE ImageInv'
  OBVIOUS
<1>1. /\ Images!TypeOK /\ thread["check"].pc = "check"
      /\ UNCHANGED <<remote, imageLocal, imageRow, imageKnown, images>>
      /\ imageRow \in Images!Maybe /\ images \in Images!Maybe
      /\ imageKnown \in Images!Maybe /\ imageLocal \in Images!Maybe
  BY ImageTyped DEF ImageInv, Images!checkPullDocker, Images!Check
<1>2. CASE Images!Goes("check", "pull")
  <2>1. Moves("check", "pull", thread["check"].call, thread["check"].read)
    BY <1>1, <1>2, ImageGoes, ImageTerms
  <2>2. Checking => Checking'
    BY <1>1, <2>1, ImageTerms, ServicesAssumption DEF Checking, Moves
  <2>3. Images!Fine \/ Images!Fails
    BY DEF Images!checkPullDocker
  <2> QED
    BY <1>1, <2>1, <2>2, <2>3, ImageMoves, ImageTerms DEF ImageInv
<1>3. CASE /\ Images!Goes("check", "idle") /\ Images!Fine
           /\ imageKnown = {} \/ imageKnown = imageLocal
  <2>1. Moves("check", "idle", "check", thread'["check"].read)
    BY <1>1, <1>3, ImageRests, ImageTerms
  <2>2. Checking => Checking'
    BY <1>1, <1>3, <2>1, ImageTerms, ServicesAssumption DEF Checking, Moves
  <2> QED
    BY <1>1, <1>3, <2>1, <2>2, ImageMoves, ImageTerms
<1> QED
  BY <1>2, <1>3 DEF Images!checkPullDocker, Images!Check

LEMMA ImagesPull ==
  ASSUME ImageInv, NEW t \in Images!Thread,
         \/ Images!FindAgain(t) \/ Images!Pull(t) \/ Images!InspectImage(t)
         \/ Images!SaveImage(t) \/ Images!updateBaseImageSha(t)
  PROVE  ImageInv'
<1>1. /\ Images!TypeOK /\ imageRow \in Images!Maybe /\ images \in Images!Maybe
      /\ imageKnown \in Images!Maybe /\ imageLocal \in Images!Maybe
      /\ thread[t].read \in Images!Maybe /\ {remote} \in Images!Maybe
      /\ UNCHANGED remote
  BY ImageTyped
  DEF ImageInv, Turn, Images!FindAgain, Images!Pull, Images!InspectImage, Images!SaveImage,
      Images!updateBaseImageSha
<1>2. /\ thread[t].pc \in {"find", "pull", "inspect", "save", "update"}
      /\ Images!Fine \/ Images!Fails
  BY DEF Images!FindAgain, Images!Pull, Images!InspectImage, Images!SaveImage,
         Images!updateBaseImageSha
<1>3. /\ imageLocal' \in Images!Maybe /\ imageRow' \in Images!Maybe
      /\ imageKnown' \in Images!Maybe /\ images' \in Images!Maybe
  BY <1>1
  DEF Images!FindAgain, Images!Pull, Images!InspectImage, Images!SaveImage,
      Images!updateBaseImageSha
<1>4. PICK pc, call, read :
        /\ Moves(t, pc, call, read) /\ (t = "check" => call = "check" /\ pc # "find")
        /\ calm' /\ t = "check" /\ Checking => Checking'
  <2>1. CASE Images!FindAgain(t)
    <3>1. t # "check"
      BY <2>1 DEF Images!FindAgain, ImageInv
    <3>2. Images!Goes(t, "pull") \/ Images!Goes(t, "idle")
      BY <2>1 DEF Images!FindAgain
    <3> QED
      BY <1>1, <3>1, <3>2, ImageGoes, ImageRests
  <2>2. CASE Images!Goes(t, "idle") /\ Images!Fails
    <3>1. ~calm'
      BY <2>2 DEF Images!Fails
    <3> QED
      BY <1>1, <2>2, <3>1, ImageRests
  <2>3. CASE Images!Pull(t) /\ ~(Images!Goes(t, "idle") /\ Images!Fails)
    <3>1. Images!Goes(t, "inspect")
      BY <2>3 DEF Images!Pull
    <3>2. Moves(t, "inspect", thread[t].call, thread[t].read)
      BY <1>1, <3>1, ImageGoes
    <3>3. t = "check" /\ Checking => Checking'
      BY <3>2, ImageTerms, ServicesAssumption DEF Checking, Moves
    <3> QED
      BY <3>2, <3>3 DEF ImageInv
  <2>4. CASE Images!InspectImage(t) /\ ~(Images!Goes(t, "idle") /\ Images!Fails)
    <3>1. /\ Images!GoesWith(t, "save", imageLocal)
          /\ UNCHANGED <<imageLocal, imageRow, imageKnown, images>>
      BY <2>4 DEF Images!InspectImage
    <3>2. Moves(t, "save", thread[t].call, imageLocal)
      BY <1>1, <3>1, ImageGoesWith
    <3>3. t = "check" /\ Checking => Checking'
      BY <3>1, <3>2, ImageTerms, ServicesAssumption DEF Checking, Moves
    <3> QED
      BY <3>2, <3>3 DEF ImageInv
  <2>5. CASE Images!SaveImage(t)
    <3>1. /\ Images!Goes(t, "update") /\ images' = thread[t].read /\ thread[t].pc = "save"
          /\ UNCHANGED <<imageLocal, imageRow, imageKnown>>
      BY <2>5 DEF Images!SaveImage
    <3>2. Moves(t, "update", thread[t].call, thread[t].read)
      BY <1>1, <3>1, ImageGoes
    <3>3. t = "check" /\ Checking => Checking'
      BY <3>1, <3>2, ImageTerms, ServicesAssumption DEF Checking, Moves
    <3> QED
      BY <3>2, <3>3 DEF ImageInv
  <2>6. CASE Images!updateBaseImageSha(t) /\ ~(Images!Goes(t, "idle") /\ Images!Fails)
    <3>1. /\ Images!Goes(t, "idle") /\ imageRow' = thread[t].read /\ thread[t].pc = "update"
          /\ UNCHANGED <<imageLocal, images, imageKnown>>
      BY <2>6 DEF Images!updateBaseImageSha
    <3>2. Moves(t, "idle", "check", thread'[t].read)
      BY <1>1, <3>1, ImageRests
    <3>3. t = "check" /\ Checking => Checking'
      BY <3>1, <3>2, ImageTerms, ServicesAssumption DEF Checking, Moves
    <3> QED
      BY <3>2, <3>3
  <2> QED
    BY <2>1, <2>2, <2>3, <2>4, <2>5, <2>6
    DEF Images!Pull, Images!InspectImage, Images!updateBaseImageSha
<1> QED
  BY <1>1, <1>2, <1>3, <1>4, ImageMoves

LEMMA ImagesStep == ImageInv /\ Images!Next => ImageInv'
BY ImagesOutside, ImagesDue, ImagesLoad, ImagesCheck, ImagesPull DEF Images!Next

LEMMA ImagesRest == ImageInv /\ UNCHANGED <<imageVars, faults>> => ImageInv'
BY DEF ImageInv, Images!TypeOK, Checking, imageVars

-----------------------------------------------------------------------------
(***************************************************************************)
(* ContainerStart                                                          *)
(***************************************************************************)
PullStep == {"queued", "create", "succeed", "fail", "erase"}
Pulled == IF pulls = <<>> THEN "none" ELSE Head(pulls)

\* Between a start that is allowed and its pull there is nothing to start, and
\* while a pull is at work the server is not Inactive, so that no start is allowed.
Apart ==
  /\ Len(pulls) <= 1
  /\ pulling <=> Pulled # "none"
  /\ Containers!BetweenStartAndPull =>
       state # "Inactive" /\ ~container /\ Pulled \in {"none", "erase"}
  /\ ~(monitor = "pull" /\ containerHandler = "pull")
  /\ Pulled \in {"queued", "create", "succeed", "fail"} => state # "Inactive"
  /\ Pulled \in {"queued", "create", "fail"} => ~container
  /\ container => state # "Inactive"

ContainerInv ==
  /\ Containers!TypeOK /\ pulls \in Seq(PullStep)
  /\ ~crossed => Apart

LEMMA ContainersApart == ContainerInv => Containers!TypeOK /\ Containers!StartsApart
BY DEF ContainerInv, Apart, Pulled, Containers!StartsApart, Containers!Working

LEMMA PullsTyped == pulls \in Seq(PullStep) => \A i \in DOMAIN pulls : pulls[i] \in PullStep
OBVIOUS

\* The types, one by one.
Flags ==
  /\ enabled \in BOOLEAN /\ starting \in BOOLEAN /\ started \in BOOLEAN /\ known \in BOOLEAN
  /\ container \in BOOLEAN /\ pulling \in BOOLEAN /\ crossed \in BOOLEAN
Turns ==
  /\ state \in {"Inactive", "Activating", "Active", "Deactivating"}
  /\ timer \in {"fresh", "running", "out"}
  /\ monitor \in Containers!StartSteps \cup Containers!StopSteps \cup {"idle", "check", "down"}
  /\ containerHandler \in Containers!StartSteps \cup Containers!StopSteps \cup {"idle"}
Counts == requests \in 0 .. MaxRequests /\ faults \in 0 .. MaxFaults

LEMMA TypesApart ==
  pulls \in Seq(PullStep) => (Containers!TypeOK <=> Flags /\ Turns /\ Counts)
BY PullsTyped DEF Containers!TypeOK, Flags, Turns, Counts, PullStep

LEMMA ContainersInit == Containers!Init => ContainerInv
<1> SUFFICES ASSUME Containers!Init PROVE ContainerInv
  OBVIOUS
<1>1. pulls = <<>> /\ pulls \in Seq(PullStep) /\ Len(pulls) = 0
  BY DEF Containers!Init
<1>2. Flags /\ Turns /\ Counts
  <2>1. Flags
    BY DEF Containers!Init, Flags
  <2>2. Turns
    BY DEF Containers!Init, Turns
  <2>3. Counts
    BY ServicesAssumption DEF Containers!Init, Counts
  <2> QED
    BY <2>1, <2>2, <2>3
<1>3. Apart
  BY <1>1 DEF Apart, Pulled, Containers!Init, Containers!BetweenStartAndPull, Containers!At
<1> QED
  BY <1>1, <1>2, <1>3, TypesApart DEF ContainerInv

LEMMA FlagsKept == Flags /\ Containers!Next => Flags'
<1> SUFFICES ASSUME Flags, Containers!Next PROVE Flags'
  OBVIOUS
<1> USE DEF Flags, Containers!object
<1>1. CASE Containers!checkServer \/ Containers!Down
  BY <1>1 DEF Containers!checkServer, Containers!Down
<1>2. CASE Containers!CheckPid
  BY <1>2 DEF Containers!CheckPid, Containers!PidSeen
<1>3. ASSUME NEW kind \in {"start", "stop"}, Containers!Request(kind) PROVE Flags'
  BY <1>3 DEF Containers!Request
<1>4. ASSUME NEW who \in {"monitor", "handler"},
             \/ Containers!StartConstruct(who) \/ Containers!StartCanExecute(who)
             \/ Containers!pull(who) \/ Containers!StartDestruct(who)
      PROVE  Flags'
  BY <1>4 DEF Containers!StartConstruct, Containers!StartCanExecute, Containers!pull,
              Containers!StartDestruct
<1>5. ASSUME NEW who \in {"monitor", "handler"},
             \/ Containers!StopCanExecute(who) \/ Containers!StopWait(who)
             \/ Containers!StopKill(who) \/ Containers!StopFails(who)
      PROVE  Flags'
  BY <1>5 DEF Containers!StopCanExecute, Containers!StopWait, Containers!StopKill,
              Containers!StopFails, Containers!PidSeen
<1>6. CASE Containers!doPull \/ Containers!startContainer \/ Containers!startFinish
           \/ Containers!PullEnds
  BY <1>6 DEF Containers!doPull, Containers!startContainer, Containers!startFinish,
              Containers!PullEnds
<1>7. CASE Containers!keepAlive \/ Containers!ContainerEnds \/ Containers!Tick
  BY <1>7 DEF Containers!keepAlive, Containers!ContainerEnds, Containers!Tick
<1> QED
  BY <1>1, <1>2, <1>3, <1>4, <1>5, <1>6, <1>7 DEF Containers!Next

LEMMA TurnsKept == Turns /\ Containers!Next => Turns'
<1> SUFFICES ASSUME Turns, Containers!Next PROVE Turns'
  OBVIOUS
<1> USE DEF Turns, Containers!object, Containers!StartSteps, Containers!StopSteps,
            Containers!Goto, Containers!At, Containers!Leave
<1>1. CASE Containers!checkServer \/ Containers!Down
  BY <1>1 DEF Containers!checkServer, Containers!Down
<1>2. CASE Containers!CheckPid
  BY <1>2 DEF Containers!CheckPid
<1>3. ASSUME NEW kind \in {"start", "stop"}, Containers!Request(kind) PROVE Turns'
  BY <1>3 DEF Containers!Request
<1>4. ASSUME NEW who \in {"monitor", "handler"},
             \/ Containers!StartConstruct(who) \/ Containers!StartCanExecute(who)
             \/ Containers!pull(who) \/ Containers!StartDestruct(who)
      PROVE  Turns'
  BY <1>4 DEF Containers!StartConstruct, Containers!StartCanExecute, Containers!pull,
              Containers!StartDestruct
<1>5. ASSUME NEW who \in {"monitor", "handler"},
             \/ Containers!StopCanExecute(who) \/ Containers!StopWait(who)
             \/ Containers!StopKill(who) \/ Containers!StopFails(who)
      PROVE  Turns'
  BY <1>5 DEF Containers!StopCanExecute, Containers!StopWait, Containers!StopKill,
              Containers!StopFails
<1>6. CASE Containers!doPull \/ Containers!startContainer \/ Containers!startFinish
           \/ Containers!PullEnds
  BY <1>6 DEF Containers!doPull, Containers!startContainer, Containers!startFinish,
              Containers!PullEnds
<1>7. CASE Containers!keepAlive \/ Containers!ContainerEnds \/ Containers!Tick
  BY <1>7 DEF Containers!keepAlive, Containers!ContainerEnds, Containers!Tick
<1> QED
  BY <1>1, <1>2, <1>3, <1>4, <1>5, <1>6, <1>7 DEF Containers!Next

LEMMA CountsKept == Counts /\ Containers!Next => Counts'
<1> SUFFICES ASSUME Counts, Containers!Next PROVE Counts'
  OBVIOUS
<1>1. \/ requests < MaxRequests /\ requests' = requests + 1 /\ UNCHANGED faults
      \/ UNCHANGED requests /\ (Containers!Fault \/ UNCHANGED faults)
  BY DEF Containers!Next, Containers!checkServer, Containers!Down, Containers!CheckPid,
         Containers!Request, Containers!StartConstruct, Containers!StartCanExecute,
         Containers!pull, Containers!StartDestruct, Containers!StopCanExecute,
         Containers!StopWait, Containers!StopKill, Containers!StopFails, Containers!doPull,
         Containers!startContainer, Containers!startFinish, Containers!PullEnds,
         Containers!keepAlive, Containers!ContainerEnds, Containers!Tick
<1> QED
  BY <1>1, ServicesAssumption DEF Counts, Containers!Fault

-----------------------------------------------------------------------------
\* Steps that allow no start and leave the pulls alone.
LEMMA ApartAside ==
  ASSUME Apart, UNCHANGED <<pulling, pulls>>, container' => container,
         \/ state' = state \/ state' # "Inactive"
         \/ ~container /\ Pulled = "none" /\ ~Containers!BetweenStartAndPull,
         monitor' = "pull" => monitor = "pull",
         containerHandler' = "pull" => containerHandler = "pull"
  PROVE  Apart'
BY DEF Apart, Pulled, Containers!BetweenStartAndPull, Containers!At

LEMMA ApartMonitor ==
  ASSUME Apart, Flags, ~crossed', Containers!checkServer \/ Containers!Down
                           \/ Containers!keepAlive \/ Containers!ContainerEnds
                           \/ Containers!Tick \/ Containers!CheckPid
  PROVE  Apart'
<1>1. CASE Containers!checkServer \/ Containers!Down \/ Containers!keepAlive
           \/ Containers!ContainerEnds \/ Containers!Tick
  BY <1>1, ApartAside
  DEF Containers!checkServer, Containers!Down, Containers!keepAlive,
      Containers!ContainerEnds, Containers!Tick, Containers!object
<1>2. CASE Containers!CheckPid
  <2>1. /\ UNCHANGED <<container, pulling, pulls, containerHandler>> /\ monitor' # "pull"
        /\ state' = state \/ (state' = "Inactive" /\ ~container /\ ~pulling /\ state # "Inactive")
    BY <1>2 DEF Containers!CheckPid, Containers!checkPid
  <2>2. state' # state => ~Containers!BetweenStartAndPull
    BY <1>2 DEF Containers!CheckPid
  <2>3. ~pulling => Pulled = "none"
    BY DEF Apart
  <2> QED
    BY <2>1, <2>2, <2>3, ApartAside
<1> QED
  BY <1>1, <1>2

LEMMA ApartThread ==
  ASSUME Apart, Flags, ~crossed', NEW who \in {"monitor", "handler"},
         \/ Containers!StartConstruct(who) \/ Containers!StartDestruct(who)
         \/ Containers!StopCanExecute(who) \/ Containers!StopWait(who)
         \/ Containers!StopKill(who) \/ Containers!StopFails(who)
         \/ \E kind \in {"start", "stop"} : Containers!Request(kind)
  PROVE  Apart'
<1> USE DEF Containers!Goto, Containers!At, Containers!Leave, Containers!object
<1>1. CASE \/ Containers!StartConstruct(who) \/ Containers!StartDestruct(who)
           \/ Containers!StopCanExecute(who) \/ Containers!StopFails(who)
           \/ \E kind \in {"start", "stop"} : Containers!Request(kind)
  BY <1>1, ApartAside
  DEF Containers!StartConstruct, Containers!StartDestruct, Containers!StopCanExecute,
      Containers!StopFails, Containers!Request
<1>2. CASE Containers!StopKill(who)
  BY <1>2, ApartAside DEF Containers!StopKill
<1>3. CASE Containers!StopWait(who)
  <2>1. /\ UNCHANGED <<container, pulling, pulls>> /\ ~container /\ ~pulling
        /\ ~Containers!BetweenStartAndPull
    BY <1>3 DEF Containers!StopWait, Containers!checkPid
  <2>2. /\ monitor' = "pull" => monitor = "pull"
        /\ containerHandler' = "pull" => containerHandler = "pull"
    BY <1>3 DEF Containers!StopWait
  <2>3. Pulled = "none"
    BY <2>1 DEF Apart
  <2> QED
    BY <2>1, <2>2, <2>3, ApartAside
<1> QED
  BY <1>1, <1>2, <1>3

LEMMA ApartAllowed ==
  ASSUME Apart, Turns, pulls \in Seq(PullStep),
         NEW who \in {"monitor", "handler"}, Containers!StartCanExecute(who)
  PROVE  Apart'
<1> USE DEF Containers!Goto, Containers!At
<1>1. UNCHANGED <<container, pulling, pulls>>
  BY DEF Containers!StartCanExecute
<1>2. CASE state' = state
  <2>1. /\ monitor' = "pull" => monitor = "pull"
        /\ containerHandler' = "pull" => containerHandler = "pull"
    BY <1>2 DEF Containers!StartCanExecute
  <2> QED
    BY <1>1, <1>2, <2>1, ApartAside
<1>3. CASE state = "Inactive" /\ state' = "Activating"
  <2>1. ~container /\ Pulled \notin {"queued", "create", "succeed", "fail"}
        /\ ~Containers!BetweenStartAndPull
    BY <1>3 DEF Apart
  <2>2. ~(monitor' = "pull" /\ containerHandler' = "pull")
    BY <2>1 DEF Containers!StartCanExecute, Containers!BetweenStartAndPull
  <2>3. Pulled' = Pulled /\ Pulled \in {"none", "erase"}
    <3>1. pulls = <<>> \/ Head(pulls) \in PullStep
      BY DEF PullStep
    <3> QED
      BY <1>1, <2>1, <3>1 DEF Pulled, PullStep
  <2> QED
    BY <1>1, <1>3, <2>1, <2>2, <2>3 DEF Apart
<1> QED
  BY <1>2, <1>3 DEF Containers!StartCanExecute

\* What becomes of the queue of the pulls.
LEMMA PullsMove ==
  ASSUME pulls \in Seq(PullStep), Len(pulls) <= 1
  PROVE  /\ \A step \in PullStep : pulls # <<>> /\ Containers!Then(step) =>
              pulls' \in Seq(PullStep) /\ Len(pulls') <= 1 /\ Pulled' = step
         /\ pulls # <<>> /\ pulls' = Tail(pulls) =>
              pulls' \in Seq(PullStep) /\ Len(pulls') <= 1 /\ Pulled' = "none"
         /\ pulls' = Append(pulls, "queued") =>
              pulls' \in Seq(PullStep)
              /\ (pulls = <<>> => Len(pulls') <= 1 /\ Pulled' = "queued")
<1>1. ASSUME NEW step \in PullStep, pulls # <<>>, Containers!Then(step)
      PROVE  pulls' \in Seq(PullStep) /\ Len(pulls') <= 1 /\ Pulled' = step
  <2>1. Len(pulls) = 1 /\ 1 \in DOMAIN pulls
    BY <1>1, EmptySeq, SMTT(20)
  <2>2. pulls' = [pulls EXCEPT ![1] = step]
    BY <1>1 DEF Containers!Then
  <2>3. pulls' \in Seq(PullStep) /\ Len(pulls') = 1 /\ pulls'[1] = step
    BY <2>1, <2>2
  <2> QED
    BY <2>3 DEF Pulled
<1>2. ASSUME pulls # <<>>, pulls' = Tail(pulls)
      PROVE  pulls' \in Seq(PullStep) /\ Len(pulls') <= 1 /\ Pulled' = "none"
  <2>1. Len(pulls) \in Nat \ {0}
    BY <1>2, EmptySeq
  <2>2. Tail(pulls) \in Seq(PullStep) /\ Len(Tail(pulls)) = Len(pulls) - 1
    BY <1>2, HeadTailProperties, Zenon
  <2>3. pulls' \in Seq(PullStep) /\ Len(pulls') = 0
    <3>1. \A n \in Nat \ {0} : n <= 1 => n - 1 = 0
      OBVIOUS
    <3>2. Len(pulls) - 1 = 0
      BY <2>1, <3>1, Zenon
    <3> QED
      BY <1>2, <2>2, <3>2
  <2>4. pulls' = <<>>
    BY <2>3, EmptySeq
  <2> QED
    BY <2>3, <2>4 DEF Pulled
<1>3. ASSUME pulls' = Append(pulls, "queued")
      PROVE  /\ pulls' \in Seq(PullStep)
             /\ pulls = <<>> => Len(pulls') <= 1 /\ Pulled' = "queued"
  <2>1. pulls' \in Seq(PullStep) /\ Len(pulls') = Len(pulls) + 1 /\ pulls' # <<>>
    BY <1>3 DEF PullStep
  <2>2. pulls = <<>> => pulls'[1] = "queued"
    BY <1>3
  <2> QED
    BY <2>1, <2>2 DEF Pulled
<1> QED
  BY <1>1, <1>2, <1>3

LEMMA ContainersPull ==
  ASSUME ContainerInv, ~crossed, NEW who \in {"monitor", "handler"}, Containers!pull(who)
  PROVE  pulls' \in Seq(PullStep) /\ (~crossed' => Apart')
<1>1. /\ Apart /\ pulls \in Seq(PullStep) /\ Len(pulls) <= 1
      /\ pulls' = Append(pulls, "queued") /\ pulling' = TRUE /\ UNCHANGED <<state, container>>
      /\ crossed' = (crossed \/ pulls # <<>>)
  BY DEF ContainerInv, Apart, Containers!pull, Containers!object
<1>2. pulls' \in Seq(PullStep)
  BY <1>1, PullsMove
<1>3. ASSUME ~crossed' PROVE Apart'
  <2>1. Len(pulls') <= 1 /\ Pulled' = "queued"
    BY <1>1, <1>3, PullsMove
  <2>2. state # "Inactive" /\ ~container
    BY <1>1 DEF Apart, Containers!pull, Containers!BetweenStartAndPull, Containers!At
  <2>3. monitor' # "pull" /\ containerHandler' # "pull"
    BY <1>1 DEF Apart, Containers!pull, Containers!At, Containers!Goto
  <2> QED
    BY <1>1, <2>1, <2>2, <2>3 DEF Apart, Containers!BetweenStartAndPull, Containers!At
<1> QED
  BY <1>2, <1>3

LEMMA ContainersPool ==
  ASSUME ContainerInv, ~crossed,
         \/ Containers!doPull \/ Containers!startContainer \/ Containers!startFinish
         \/ Containers!PullEnds
  PROVE  pulls' \in Seq(PullStep) /\ (~crossed' => Apart')
<1>1. /\ Apart /\ pulls \in Seq(PullStep) /\ Len(pulls) <= 1 /\ pulls # <<>>
      /\ UNCHANGED <<monitor, containerHandler>> /\ Pulled = Head(pulls)
  BY DEF ContainerInv, Apart, Pulled, Containers!doPull, Containers!startContainer,
         Containers!startFinish, Containers!PullEnds, Containers!Working
<1> USE DEF Containers!BetweenStartAndPull, Containers!At
<1>2. CASE Containers!doPull
  <2>1. PICK step \in {"create", "fail", "erase"} :
          Containers!Then(step) /\ Pulled = "queued"
          /\ UNCHANGED <<state, container, pulling>>
    BY <1>1, <1>2 DEF Containers!doPull, Containers!object, Containers!Working
  <2>2. pulls' \in Seq(PullStep) /\ Len(pulls') <= 1 /\ Pulled' = step
    BY <1>1, <2>1, PullsMove DEF PullStep
  <2> QED
    BY <1>1, <2>1, <2>2 DEF Apart
<1>3. CASE Containers!startContainer
  <2>1. /\ Pulled = "create" /\ UNCHANGED <<state, pulling>>
        /\ \/ Containers!Then("succeed")
           \/ Containers!Then("fail") /\ (crossed' \/ ~container')
    BY <1>1, <1>3 DEF Containers!startContainer, Containers!Working
  <2>2. /\ pulls' \in Seq(PullStep) /\ Len(pulls') <= 1
        /\ Pulled' = "succeed" \/ (Pulled' = "fail" /\ (crossed' \/ ~container'))
    BY <1>1, <2>1, PullsMove DEF PullStep
  <2> QED
    BY <1>1, <2>1, <2>2 DEF Apart
<1>4. CASE Containers!startFinish
  <2>1. /\ Containers!Then("erase") /\ UNCHANGED <<container, pulling>>
        /\ \/ Pulled = "succeed" /\ UNCHANGED state
           \/ Pulled = "fail"
    BY <1>1, <1>4 DEF Containers!startFinish, Containers!Working
  <2>2. pulls' \in Seq(PullStep) /\ Len(pulls') <= 1 /\ Pulled' = "erase"
    BY <1>1, <2>1, PullsMove DEF PullStep
  <2> QED
    BY <1>1, <2>1, <2>2 DEF Apart
<1>5. CASE Containers!PullEnds
  <2>1. /\ pulls' = Tail(pulls) /\ pulling' = FALSE /\ UNCHANGED <<state, container>>
    BY <1>5 DEF Containers!PullEnds, Containers!object
  <2>2. pulls' \in Seq(PullStep) /\ Len(pulls') <= 1 /\ Pulled' = "none"
    BY <1>1, <2>1, PullsMove
  <2> QED
    BY <1>1, <2>1, <2>2 DEF Apart
<1> QED
  BY <1>2, <1>3, <1>4, <1>5

LEMMA ContainersStep == ContainerInv /\ ~crossed /\ Containers!Next => ContainerInv'
<1> SUFFICES ASSUME ContainerInv, ~crossed, Containers!Next PROVE ContainerInv'
  OBVIOUS
<1>1. Apart /\ Flags /\ Turns /\ Counts /\ pulls \in Seq(PullStep)
  BY TypesApart DEF ContainerInv
<1>2. pulls' \in Seq(PullStep) /\ (~crossed' => Apart')
  <2>1. CASE Containers!doPull \/ Containers!startContainer \/ Containers!startFinish
             \/ Containers!PullEnds \/ \E who \in {"monitor", "handler"} : Containers!pull(who)
    BY <2>1, ContainersPull, ContainersPool
  <2>2. CASE \/ Containers!checkServer \/ Containers!Down \/ Containers!keepAlive
             \/ Containers!ContainerEnds \/ Containers!Tick \/ Containers!CheckPid
    <3>1. UNCHANGED pulls
      BY <2>2 DEF Containers!checkServer, Containers!Down, Containers!keepAlive,
                  Containers!ContainerEnds, Containers!Tick, Containers!CheckPid
    <3> QED
      BY <1>1, <2>2, <3>1, ApartMonitor
  <2>3. ASSUME NEW who \in {"monitor", "handler"},
               \/ Containers!StartConstruct(who) \/ Containers!StartDestruct(who)
               \/ Containers!StopCanExecute(who) \/ Containers!StopWait(who)
               \/ Containers!StopKill(who) \/ Containers!StopFails(who)
               \/ \E kind \in {"start", "stop"} : Containers!Request(kind)
        PROVE  pulls' \in Seq(PullStep) /\ (~crossed' => Apart')
    <3>1. UNCHANGED pulls
      BY <2>3 DEF Containers!StartConstruct, Containers!StartDestruct,
         Containers!StopCanExecute, Containers!StopWait, Containers!StopKill,
         Containers!StopFails, Containers!Request
    <3> QED
      BY <1>1, <2>3, <3>1, ApartThread
  <2>4. ASSUME NEW who \in {"monitor", "handler"}, Containers!StartCanExecute(who)
        PROVE  pulls' \in Seq(PullStep) /\ (~crossed' => Apart')
    <3>1. UNCHANGED pulls
      BY <2>4 DEF Containers!StartCanExecute
    <3> QED
      BY <1>1, <2>4, <3>1, ApartAllowed
  <2> QED
    BY <2>1, <2>2, <2>3, <2>4 DEF Containers!Next
<1>3. Flags' /\ Turns' /\ Counts'
  BY <1>1, FlagsKept, TurnsKept, CountsKept
<1>4. \A i \in DOMAIN pulls' : pulls'[i] \in PullStep
  BY <1>2
<1>5. Containers!TypeOK'
  BY <1>3, <1>4 DEF Containers!TypeOK, Flags, Turns, Counts, PullStep
<1> QED
  BY <1>2, <1>5 DEF ContainerInv

LEMMA ContainersRest ==
  ContainerInv /\ UNCHANGED <<containerVars, crossed, faults>> => ContainerInv'
BY DEF ContainerInv, Containers!TypeOK, Apart, Pulled, Containers!BetweenStartAndPull,
       Containers!At, containerVars

-----------------------------------------------------------------------------
(***************************************************************************)
(* LogTraces                                                               *)
(***************************************************************************)
\* What the first n lines of the file have of a trace.
Upto(t, n) == {k \in Traces!Kind : \E i \in 1 .. n : file[i] = <<t, k>>}

Bit(k, s) == IF k \in s THEN 1 ELSE 0
Size(s) == Bit("cs", s) + Bit("cr", s) + Bit("sr", s) + Bit("ss", s)

MemRecord ==
  [seek : Nat, part : [One -> SUBSET Traces!Kind], born : [One -> 0 .. TraceTime],
   gone : [One -> SUBSET Traces!Kind], parts : [One -> 0 .. 4], counted : [One -> 0 .. 1]]
Snapshot == [taken : BOOLEAN, mem : MemRecord]
Posts == [lines : SUBSET Traces!Line, traces : SUBSET (One \X SUBSET Traces!Kind)]
Searched == [lines : SUBSET Traces!Line, trace : [One -> SUBSET Traces!Kind],
             graph : [One -> 0 .. 1]]

TraceTypes ==
  /\ now \in 0 .. TraceTime /\ crashes \in 0 .. MaxCrashes /\ faults \in 0 .. FewFaults
  /\ file \in Seq(Traces!Line) /\ mem \in MemRecord /\ writing \in Snapshot /\ disk \in Snapshot
  /\ es \in Searched /\ pending \in Posts /\ lost \in Posts

Once == \A i, j \in 1 .. Len(file) : file[i] = file[j] => i = j

Sent == es.lines \cup pending.lines \cup lost.lines

\* A memory fits the file up to where it has read it.
FitsTrace(m, t) ==
  /\ m.part[t] \cap m.gone[t] = {} /\ m.part[t] \cup m.gone[t] = Upto(t, m.seek)
  /\ m.counted[t] = 1 => "sr" \in m.gone[t]
  /\ m.parts[t] = 0 => m.gone[t] = {}
  /\ m.parts[t] <= Size(m.gone[t])
Fits(m) == m.seek <= Len(file) /\ \A t \in One : FitsTrace(m, t)
SentUpto(m) == \A i \in 1 .. m.seek : file[i] \in Sent

\* A trace that a snapshot has as released whole was not touched since.
Since(m) ==
  \A t \in One : m.gone[t] = Traces!Kind => mem.gone[t] = Traces!Kind /\ mem.parts[t] = m.parts[t]

\* Of a trace released as a whole there is one post, and so of any that has been
\* released once.
Whole ==
  /\ \A t \in One : mem.parts[t] = 1 /\ mem.gone[t] = Traces!Kind =>
       es.trace[t] = Traces!Kind \/ <<t, Traces!Kind>> \in pending.traces \cup lost.traces
  /\ \A p \in pending.traces :
       mem.parts[p[1]] # 0 /\ (mem.parts[p[1]] = 1 => p[2] = mem.gone[p[1]])

TraceInv ==
  /\ TraceTypes /\ Once
  /\ Fits(mem) /\ Fits(writing.mem) /\ Fits(disk.mem)
  /\ SentUpto(mem) /\ SentUpto(writing.mem) /\ SentUpto(disk.mem)
  /\ Since(writing.mem) /\ Since(disk.mem) /\ Whole

LEMMA TracesCounted == TraceInv => Traces!TypeOK /\ Traces!CountedOnce
<1> SUFFICES ASSUME TraceInv PROVE Traces!TypeOK /\ Traces!CountedOnce
  OBVIOUS
<1>1. ASSUME NEW m \in {mem, writing.mem, disk.mem}
      PROVE  /\ m.seek \in 0 .. Len(file) /\ m.born \in [One -> 0 .. TraceTime]
             /\ m.part \in [One -> SUBSET Traces!Kind] /\ m.gone \in [One -> SUBSET Traces!Kind]
             /\ m.parts \in [One -> 0 .. 4] /\ m.counted \in [One -> 0 .. 4]
  <2>1. m \in MemRecord /\ Fits(m)
    BY DEF TraceInv, TraceTypes, Snapshot
  <2>2. m.seek \in 0 .. Len(file)
    BY <2>1 DEF MemRecord, Fits
  <2>3. m.counted \in [One -> 0 .. 4]
    BY <2>1 DEF MemRecord
  <2> QED
    BY <2>1, <2>2, <2>3 DEF MemRecord
<1>2. Traces!TypeOK
  <2>1. es.graph \in [One -> 0 .. 4]
    BY DEF TraceInv, TraceTypes, Searched
  <2>2. es.lines \subseteq Traces!Line /\ es.trace \in [One -> SUBSET Traces!Kind]
    BY DEF TraceInv, TraceTypes, Searched
  <2>3. \A p \in {pending, lost} :
          p.lines \subseteq Traces!Line /\ p.traces \subseteq One \X SUBSET Traces!Kind
    BY DEF TraceInv, TraceTypes, Posts
  <2> QED
    BY <1>1, <2>1, <2>2, <2>3 DEF TraceInv, TraceTypes, Traces!TypeOK
<1>3. ASSUME NEW t \in One
      PROVE  /\ mem.part[t] \cap mem.gone[t] = {}
             /\ mem.part[t] \cup mem.gone[t] = Traces!Read(t)
             /\ mem.counted[t] <= 1 /\ es.graph[t] <= 1
             /\ mem.parts[t] = 1 /\ mem.gone[t] = Traces!Kind =>
                  \/ es.trace[t] = mem.gone[t]
                  \/ <<t, mem.gone[t]>> \in pending.traces \cup lost.traces
  <2>1. mem.counted[t] <= 1 /\ es.graph[t] <= 1
    <3>1. mem.counted[t] \in 0 .. 1 /\ es.graph[t] \in 0 .. 1
      BY DEF TraceInv, TraceTypes, MemRecord, Searched
    <3> QED
      BY <3>1
  <2>2. FitsTrace(mem, t)
    BY DEF TraceInv, Fits
  <2> QED
    BY <2>1, <2>2 DEF TraceInv, Whole, FitsTrace, Upto, Traces!Read
<1> QED
  BY <1>2, <1>3 DEF Traces!CountedOnce, TraceInv, SentUpto, Sent

LEMMA NothingYet ==
  /\ Traces!NoMem \in MemRecord /\ Traces!NoMem.seek = 0
  /\ \A t \in One : /\ Traces!NoMem.part[t] = {} /\ Traces!NoMem.gone[t] = {}
                    /\ Traces!NoMem.counted[t] = 0 /\ Traces!NoMem.parts[t] = 0
  /\ Traces!NoSnapshot \in Snapshot /\ Traces!NoSnapshot.mem = Traces!NoMem
  /\ Traces!NoPosts \in Posts /\ Traces!NoPosts.lines = {} /\ Traces!NoPosts.traces = {}
<1>1. 0 \in 0 .. TraceTime /\ 0 \in 0 .. 4 /\ 0 \in 0 .. 1
  BY ServicesAssumption
<1>2. Traces!NoMem \in MemRecord
  BY <1>1 DEF Traces!NoMem, Traces!Nothing, MemRecord
<1> QED
  BY <1>2 DEF Traces!NoMem, Traces!Nothing, Traces!NoSnapshot, Snapshot, Traces!NoPosts, Posts

LEMMA NothingFits ==
  ASSUME file \in Seq(Traces!Line)
  PROVE  Fits(Traces!NoMem) /\ SentUpto(Traces!NoMem) /\ Since(Traces!NoMem)
<1>1. \A t \in One : Upto(t, 0) = {}
  BY DEF Upto
<1>2. Size({}) = 0
  BY DEF Size, Bit
<1>3. Len(file) \in Nat
  OBVIOUS
<1>4. Fits(Traces!NoMem)
  <2>1. Traces!NoMem.seek = 0 /\ 0 <= Len(file)
    BY <1>3, NothingYet
  <2>2. ASSUME NEW t \in One PROVE FitsTrace(Traces!NoMem, t)
    <3>1. /\ Traces!NoMem.part[t] = {} /\ Traces!NoMem.gone[t] = {}
          /\ Traces!NoMem.counted[t] = 0 /\ Traces!NoMem.parts[t] = 0
      BY NothingYet
    <3> QED
      BY <1>1, <1>2, <2>1, <3>1 DEF FitsTrace
  <2> QED
    BY <2>1, <2>2 DEF Fits
<1>5. Since(Traces!NoMem)
  <2>1. {} # Traces!Kind
    BY DEF Traces!Kind
  <2> QED
    BY <2>1, NothingYet DEF Since
<1> QED
  BY <1>4, <1>5, NothingYet DEF SentUpto

LEMMA TracesInit == Traces!Init => TraceInv
<1> SUFFICES ASSUME Traces!Init PROVE TraceInv
  OBVIOUS
<1>1. file = <<>> /\ file \in Seq(Traces!Line) /\ Len(file) = 0
  BY DEF Traces!Init
<1>2. /\ es = [lines |-> {}, trace |-> Traces!Nothing, graph |-> [t \in One |-> 0]]
      /\ es \in Searched
  BY DEF Traces!Init, Searched, Traces!Nothing
<1>3. TraceTypes
  BY <1>1, <1>2, NothingYet, ServicesAssumption DEF Traces!Init, TraceTypes
<1>4. Whole
  BY NothingYet DEF Traces!Init, Whole, Traces!Kind
<1> QED
  BY <1>1, <1>3, <1>4, NothingFits, NothingYet DEF Traces!Init, TraceInv, Once

LEMMA LineWritten ==
  ASSUME TraceInv, NEW t \in One, NEW k \in Traces!Kind, Traces!Write(t, k)
  PROVE  TraceInv'
<1>1. /\ file \in Seq(Traces!Line) /\ file' = Append(file, <<t, k>>) /\ <<t, k>> \in Traces!Line
      /\ \A i \in 1 .. Len(file) : file[i] # <<t, k>>
      /\ UNCHANGED <<now, mem, writing, disk, es, pending, lost, crashes, faults>>
  BY DEF TraceInv, TraceTypes, Traces!Write, Traces!Logged, Traces!Line
<1>2. /\ file' \in Seq(Traces!Line) /\ Len(file') = Len(file) + 1 /\ Len(file) \in Nat
      /\ file'[Len(file) + 1] = <<t, k>> /\ \A i \in 1 .. Len(file) : file'[i] = file[i]
  BY <1>1
<1>3. TraceTypes'
  BY <1>1, <1>2 DEF TraceInv, TraceTypes
<1>4. Once'
  BY <1>1, <1>2 DEF TraceInv, Once
<1>5. ASSUME NEW m \in {mem, writing.mem, disk.mem}
      PROVE  /\ m.seek \in Nat /\ m.seek <= Len(file) /\ m.seek <= Len(file')
             /\ \A u \in One : Upto(u, m.seek)' = Upto(u, m.seek)
             /\ \A i \in 1 .. m.seek : file'[i] = file[i]
  <2>1. m.seek \in Nat /\ m.seek <= Len(file)
    BY DEF TraceInv, TraceTypes, Snapshot, MemRecord, Fits
  <2>2. \A i \in 1 .. m.seek : file'[i] = file[i]
    BY <1>2, <2>1
  <2>3. \A u \in One : Upto(u, m.seek)' = Upto(u, m.seek)
    BY <2>2, <1>1 DEF Upto
  <2> QED
    BY <1>2, <2>1, <2>2, <2>3
<1>6. Fits(mem)' /\ Fits(writing.mem)' /\ Fits(disk.mem)'
  BY <1>1, <1>5 DEF TraceInv, Fits, FitsTrace
<1>7. SentUpto(mem)' /\ SentUpto(writing.mem)' /\ SentUpto(disk.mem)'
  BY <1>1, <1>5 DEF TraceInv, SentUpto, Sent
<1>8. Since(writing.mem)' /\ Since(disk.mem)' /\ Whole'
  BY <1>1 DEF TraceInv, Since, Whole
<1> QED
  BY <1>3, <1>4, <1>6, <1>7, <1>8 DEF TraceInv

\* The file stays, and the snapshots with it, when more has been sent.
LEMMA FitsOn ==
  ASSUME TraceInv, UNCHANGED file, Sent \subseteq Sent'
  PROVE  /\ \A m \in {mem, writing.mem, disk.mem} :
              (m.seek <= Len(file') /\ \A t \in One : FitsTrace(m, t)')
              /\ \A i \in 1 .. m.seek : file'[i] \in Sent'
         /\ Once'
<1>1. \A t \in One, n \in Nat : Upto(t, n)' = Upto(t, n)
  BY DEF Upto
<1>2. \A m \in {mem, writing.mem, disk.mem} : m.seek \in Nat
  BY DEF TraceInv, TraceTypes, Snapshot, MemRecord
<1>3. \A m \in {mem, writing.mem, disk.mem} : Fits(m) /\ SentUpto(m)
  BY DEF TraceInv
<1>4. ASSUME NEW m \in {mem, writing.mem, disk.mem}, NEW t \in One PROVE FitsTrace(m, t)'
  BY <1>1, <1>2, <1>3 DEF Fits, FitsTrace
<1>5. Once'
  BY DEF TraceInv, Once
<1> QED
  BY <1>3, <1>4, <1>5 DEF Fits, SentUpto

LEMMA MemoriesKept ==
  ASSUME TraceInv, UNCHANGED <<file, mem, writing, disk>>, Sent \subseteq Sent', TraceTypes', Whole'
  PROVE  TraceInv'
<1>1. Once'
  BY FitsOn
<1>2. Fits(mem)' /\ Fits(writing.mem)' /\ Fits(disk.mem)'
  BY FitsOn DEF Fits, FitsTrace
<1>3. SentUpto(mem)' /\ SentUpto(writing.mem)' /\ SentUpto(disk.mem)'
  BY FitsOn DEF SentUpto
<1>4. Since(writing.mem)' /\ Since(disk.mem)'
  BY DEF TraceInv, Since
<1> QED
  BY <1>1, <1>2, <1>3, <1>4 DEF TraceInv

LEMMA SnapshotsKept ==
  ASSUME TraceInv, UNCHANGED <<file, writing, disk>>, Sent \subseteq Sent', TraceTypes', Whole',
         Fits(mem)', SentUpto(mem)',
         \A t \in One : mem.gone[t] = Traces!Kind =>
           mem'.gone[t] = Traces!Kind /\ mem'.parts[t] = mem.parts[t]
  PROVE  TraceInv'
<1>1. Once'
  BY FitsOn
<1>2. Fits(writing.mem)' /\ Fits(disk.mem)'
  BY FitsOn DEF Fits, FitsTrace
<1>3. SentUpto(writing.mem)' /\ SentUpto(disk.mem)'
  BY FitsOn DEF SentUpto
<1>4. Since(writing.mem)' /\ Since(disk.mem)'
  BY DEF TraceInv, Since
<1> QED
  BY <1>1, <1>2, <1>3, <1>4 DEF TraceInv

LEMMA TraceTick == TraceInv /\ Traces!Tick => TraceInv'
<1> SUFFICES ASSUME TraceInv, Traces!Tick PROVE TraceInv'
  OBVIOUS
<1>1. UNCHANGED <<file, mem, writing, disk, es, pending, lost, crashes, faults>>
  BY DEF Traces!Tick
<1>2. now' \in 0 .. TraceTime
  BY ServicesAssumption DEF TraceInv, TraceTypes, Traces!Tick
<1>3. TraceTypes'
  BY <1>1, <1>2 DEF TraceInv, TraceTypes
<1>4. Sent' = Sent /\ Whole'
  BY <1>1 DEF TraceInv, Whole, Sent
<1> QED
  BY <1>1, <1>3, <1>4, MemoriesKept

LEMMA TraceFails == TraceInv /\ Traces!Fails => faults' \in 0 .. FewFaults
BY ServicesAssumption DEF TraceInv, TraceTypes, Traces!Fails

LEMMA GraphPosted == TraceInv /\ Traces!checkAndUpdateIGraph => TraceInv'
<1> SUFFICES ASSUME TraceInv, Traces!checkAndUpdateIGraph PROVE TraceInv'
  OBVIOUS
<1>1. /\ UNCHANGED <<now, file, mem, writing, disk, pending, lost, crashes, faults>>
      /\ es' = [es EXCEPT !.graph = mem.counted]
  BY DEF Traces!checkAndUpdateIGraph, Traces!Thread, Traces!Posted
<1>2. es' \in Searched /\ es'.lines = es.lines /\ es'.trace = es.trace
  BY <1>1 DEF TraceInv, TraceTypes, Searched, MemRecord
<1>3. TraceTypes'
  BY <1>1, <1>2 DEF TraceInv, TraceTypes
<1>4. Sent' = Sent /\ Whole'
  BY <1>1, <1>2 DEF TraceInv, Whole, Sent
<1> QED
  BY <1>1, <1>3, <1>4, MemoriesKept

LEMMA LinesRepeated == TraceInv /\ Traces!RetryLines => TraceInv'
<1> SUFFICES ASSUME TraceInv, Traces!RetryLines PROVE TraceInv'
  OBVIOUS
<1>1. /\ UNCHANGED <<now, file, mem, writing, disk, crashes, faults>>
      /\ pending' = [pending EXCEPT !.lines = {}]
      /\ \/ es' = [es EXCEPT !.lines = @ \cup pending.lines] /\ UNCHANGED lost
         \/ lost' = [lost EXCEPT !.lines = @ \cup pending.lines] /\ UNCHANGED es
  BY DEF Traces!RetryLines, Traces!Thread
<1>2. es \in Searched /\ pending \in Posts /\ lost \in Posts
  BY DEF TraceInv, TraceTypes
<1>3. pending' \in Posts /\ pending'.lines = {} /\ pending'.traces = pending.traces
  BY <1>1, <1>2 DEF Posts
<1>4. /\ es' \in Searched /\ es'.trace = es.trace /\ es.lines \subseteq es'.lines
      /\ lost' \in Posts /\ lost'.traces = lost.traces /\ lost.lines \subseteq lost'.lines
      /\ pending.lines \subseteq es'.lines \cup lost'.lines
  BY <1>1, <1>2 DEF Searched, Posts
<1>5. TraceTypes'
  BY <1>1, <1>3, <1>4 DEF TraceInv, TraceTypes
<1>6. Sent \subseteq Sent' /\ Whole'
  BY <1>1, <1>3, <1>4 DEF TraceInv, Whole, Sent
<1> QED
  BY <1>1, <1>5, <1>6, MemoriesKept

LEMMA TraceRepeated ==
  ASSUME TraceInv, NEW p \in pending.traces, Traces!RetryTrace(p)
  PROVE  TraceInv'
<1>1. /\ UNCHANGED <<now, file, mem, writing, disk, crashes, faults>>
      /\ pending' = [pending EXCEPT !.traces = @ \ {p}]
      /\ \/ es' = [es EXCEPT !.trace[p[1]] = p[2]] /\ UNCHANGED lost
         \/ lost' = [lost EXCEPT !.traces = @ \cup {p}] /\ UNCHANGED es
  BY DEF Traces!RetryTrace, Traces!Thread
<1>2. es \in Searched /\ pending \in Posts /\ lost \in Posts
  BY DEF TraceInv, TraceTypes
<1>3. PICK t \in One, part \in SUBSET Traces!Kind : p = <<t, part>>
  BY <1>2 DEF Posts
<1>4. /\ pending' \in Posts /\ pending'.lines = pending.lines
      /\ pending'.traces = pending.traces \ {<<t, part>>}
  BY <1>1, <1>2, <1>3 DEF Posts
<1>5. /\ es' \in Searched /\ es'.lines = es.lines
      /\ lost' \in Posts /\ lost'.lines = lost.lines /\ lost.traces \subseteq lost'.traces
      /\ \A u \in One : u # t => es'.trace[u] = es.trace[u]
      /\ \/ es'.trace[t] = part
         \/ es'.trace[t] = es.trace[t] /\ <<t, part>> \in lost'.traces
  BY <1>1, <1>2, <1>3 DEF Searched, Posts
<1>6. TraceTypes'
  BY <1>1, <1>4, <1>5 DEF TraceInv, TraceTypes
<1>7. Sent' = Sent
  BY <1>4, <1>5 DEF Sent
<1>8. mem.parts[t] = 1 => part = mem.gone[t]
  BY <1>3 DEF TraceInv, Whole
<1>9. Whole'
  <2>1. ASSUME NEW u \in One, mem.parts[u] = 1, mem.gone[u] = Traces!Kind
        PROVE  \/ es'.trace[u] = Traces!Kind
               \/ <<u, Traces!Kind>> \in pending'.traces \cup lost'.traces
    <3>1. \/ es.trace[u] = Traces!Kind
          \/ <<u, Traces!Kind>> \in pending.traces \cup lost.traces
      BY <2>1 DEF TraceInv, Whole
    <3>2. CASE u = t
      BY <1>5, <1>8, <2>1, <3>1, <3>2
    <3>3. CASE u # t
      BY <1>4, <1>5, <3>1, <3>3
    <3> QED
      BY <3>2, <3>3
  <2>2. \A q \in pending'.traces :
          mem.parts[q[1]] # 0 /\ (mem.parts[q[1]] = 1 => q[2] = mem.gone[q[1]])
    BY <1>4 DEF TraceInv, Whole
  <2> QED
    BY <1>1, <2>1, <2>2 DEF Whole
<1> QED
  BY <1>1, <1>6, <1>7, <1>9, MemoriesKept

\* What is new in the file joins what has been read.
LEMMA NewLines ==
  ASSUME TraceInv, NEW t \in One
  PROVE  /\ Traces!NewOf(t) \subseteq Traces!Kind
         /\ Upto(t, Len(file)) = Upto(t, mem.seek) \cup Traces!NewOf(t)
         /\ Upto(t, mem.seek) \cap Traces!NewOf(t) = {}
<1>1. mem.seek \in Nat /\ mem.seek <= Len(file) /\ Len(file) \in Nat
  BY DEF TraceInv, TraceTypes, MemRecord, Fits
<1>2. \A k : k \in Traces!NewOf(t) <=>
               k \in Traces!Kind /\ \E i \in mem.seek + 1 .. Len(file) : file[i] = <<t, k>>
  BY DEF Traces!NewOf, Traces!New
<1>3. \A i : i \in 1 .. Len(file) <=> i \in 1 .. mem.seek \/ i \in mem.seek + 1 .. Len(file)
  BY <1>1
<1>4. ASSUME NEW k \in Upto(t, mem.seek) PROVE k \notin Traces!NewOf(t)
  <2>1. PICK i \in 1 .. mem.seek : file[i] = <<t, k>>
    BY <1>4 DEF Upto
  <2>2. ASSUME NEW j \in mem.seek + 1 .. Len(file), file[j] = <<t, k>> PROVE FALSE
    <3>1. i \in 1 .. Len(file) /\ j \in 1 .. Len(file) /\ i # j
      BY <1>1
    <3> QED
      BY <2>1, <2>2, <3>1 DEF TraceInv, Once
  <2> QED
    BY <1>2, <2>2
<1> QED
  BY <1>2, <1>3, <1>4 DEF Upto

LEMMA FileRead == TraceInv /\ Traces!onModify => TraceInv'
<1> SUFFICES ASSUME TraceInv, Traces!onModify PROVE TraceInv'
  OBVIOUS
<1>1. /\ UNCHANGED <<now, file, writing, disk, crashes, lost>> /\ Traces!pushRawLog
      /\ \/ es' = [es EXCEPT !.lines = @ \cup Traces!New] /\ UNCHANGED <<pending, faults>>
         \/ /\ pending' = [pending EXCEPT !.lines = @ \cup Traces!New]
            /\ Traces!Fails /\ UNCHANGED es
  BY DEF Traces!onModify, Traces!Thread, Traces!Posted, Traces!Fails
<1>2. es \in Searched /\ pending \in Posts /\ mem \in MemRecord /\ file \in Seq(Traces!Line)
  BY DEF TraceInv, TraceTypes
<1>3. mem.seek \in Nat /\ mem.seek <= Len(file) /\ Len(file) \in Nat
  BY <1>2 DEF TraceInv, Fits, MemRecord
<1>4. Traces!New \subseteq Traces!Line
  BY <1>2, <1>3 DEF Traces!New
<1>5. /\ es' \in Searched /\ pending' \in Posts /\ es'.trace = es.trace
      /\ pending'.traces = pending.traces
      /\ Traces!New \subseteq es'.lines \cup pending'.lines
      /\ es.lines \subseteq es'.lines /\ pending.lines \subseteq pending'.lines
  BY <1>1, <1>2, <1>4 DEF Searched, Posts
<1>6. PICK part, born : mem' = [mem EXCEPT !.seek = Len(file), !.part = part, !.born = born]
        /\ part = [t \in One |-> mem.part[t] \cup Traces!NewOf(t)]
        /\ born = [t \in One |-> IF mem.part[t] = {} /\ Traces!NewOf(t) # {} THEN now
                                 ELSE mem.born[t]]
  BY <1>1 DEF Traces!pushRawLog
<1>7. part \in [One -> SUBSET Traces!Kind] /\ born \in [One -> 0 .. TraceTime]
  BY <1>2, <1>6, NewLines DEF MemRecord, TraceInv, TraceTypes
<1>8. /\ mem' \in MemRecord /\ mem'.seek = Len(file) /\ mem'.part = part
      /\ mem'.gone = mem.gone /\ mem'.parts = mem.parts /\ mem'.counted = mem.counted
  BY <1>2, <1>3, <1>6, <1>7 DEF MemRecord
<1>9. TraceTypes'
  BY <1>1, <1>5, <1>8, TraceFails DEF TraceInv, TraceTypes
<1>10. Sent \subseteq Sent' /\ Traces!New \subseteq Sent'
  BY <1>1, <1>5 DEF Sent
<1>11. Fits(mem)'
  <2>1. ASSUME NEW t \in One PROVE FitsTrace(mem, t)'
    <3>1. FitsTrace(mem, t)
      BY DEF TraceInv, Fits
    <3>2. mem'.part[t] = mem.part[t] \cup Traces!NewOf(t)
      BY <1>6, <1>8
    <3>3. Upto(t, mem.seek)' = Upto(t, Len(file))
      BY <1>1, <1>8 DEF Upto
    <3> QED
      BY <1>8, <3>1, <3>2, <3>3, NewLines DEF FitsTrace
  <2> QED
    BY <1>1, <1>3, <1>8, <2>1 DEF Fits
<1>12. SentUpto(mem)'
  <2>1. ASSUME NEW i \in 1 .. Len(file) PROVE file[i] \in Sent'
    <3>1. CASE i <= mem.seek
      <4>1. i \in 1 .. mem.seek
        BY <1>3, <3>1
      <4> QED
        BY <1>10, <4>1 DEF TraceInv, SentUpto
    <3>2. CASE ~(i <= mem.seek)
      <4>1. i \in mem.seek + 1 .. Len(file)
        BY <1>3, <3>2
      <4> QED
        BY <1>10, <4>1 DEF Traces!New
    <3> QED
      BY <3>1, <3>2
  <2> QED
    BY <1>1, <1>8, <2>1 DEF SentUpto
<1>13. Whole'
  BY <1>1, <1>5, <1>8 DEF TraceInv, Whole
<1> QED
  BY <1>1, <1>8, <1>9, <1>10, <1>11, <1>12, <1>13, SnapshotsKept

LEMMA SizeGrows ==
  ASSUME NEW s \in SUBSET Traces!Kind, NEW more \in SUBSET Traces!Kind,
         s \cap more = {}, more # {}
  PROVE  Size(s) \in 0 .. 4 /\ Size(s \cup more) >= Size(s) + 1 /\ Size(s \cup more) \in 0 .. 4
<1>1. \A k : /\ Bit(k, s) \in {0, 1} /\ Bit(k, s \cup more) \in {0, 1}
             /\ Bit(k, s \cup more) >= Bit(k, s)
             /\ k \in more => Bit(k, s) = 0 /\ Bit(k, s \cup more) = 1
  BY DEF Bit
<1>2. PICK k \in {"cs", "cr", "sr", "ss"} : k \in more
  BY DEF Traces!Kind
<1> QED
  BY <1>1, <1>2 DEF Size

LEMMA TraceReleased ==
  ASSUME TraceInv, NEW t \in One, Traces!checkAndUpdateITrace(t)
  PROVE  TraceInv'
<1>1. PICK part : part = mem.part[t]
  OBVIOUS
<1>2. /\ UNCHANGED <<now, file, writing, disk, crashes, lost>> /\ part # {}
      /\ mem' = [mem EXCEPT !.part[t] = {}, !.gone[t] = @ \cup part, !.parts[t] = @ + 1,
                            !.counted[t] = @ + Traces!Calls(part)]
      /\ \/ es' = [es EXCEPT !.trace[t] = part] /\ UNCHANGED <<pending, faults>>
         \/ /\ pending' = [pending EXCEPT !.traces = @ \cup {<<t, part>>}]
            /\ Traces!Fails /\ UNCHANGED es
  BY <1>1 DEF Traces!checkAndUpdateITrace, Traces!Thread, Traces!Posted, Traces!Fails
<1>3. es \in Searched /\ pending \in Posts /\ mem \in MemRecord
  BY DEF TraceInv, TraceTypes
<1>4. /\ part \in SUBSET Traces!Kind /\ mem.gone[t] \in SUBSET Traces!Kind
      /\ mem.parts[t] \in 0 .. 4 /\ mem.counted[t] \in 0 .. 1 /\ mem.seek \in Nat
  BY <1>1, <1>3 DEF MemRecord
<1>5. FitsTrace(mem, t) /\ \A u \in One : FitsTrace(mem, u)
  BY DEF TraceInv, Fits
<1>6. part \cap mem.gone[t] = {} /\ part \cup mem.gone[t] = Upto(t, mem.seek)
  BY <1>1, <1>5 DEF FitsTrace
<1>7. /\ mem.parts[t] + 1 <= Size(mem.gone[t] \cup part) /\ mem.parts[t] + 1 \in 0 .. 4
  <2>1. mem.parts[t] <= Size(mem.gone[t])
    BY <1>5 DEF FitsTrace
  <2>2. /\ Size(mem.gone[t]) \in 0 .. 4 /\ Size(mem.gone[t] \cup part) \in 0 .. 4
        /\ Size(mem.gone[t] \cup part) >= Size(mem.gone[t]) + 1
    BY <1>2, <1>4, <1>6, SizeGrows
  <2> QED
    BY <1>4, <2>1, <2>2
<1>8. PICK total : total = mem.counted[t] + Traces!Calls(part)
  OBVIOUS
<1>9. total \in 0 .. 1 /\ (total = 1 => "sr" \in mem.gone[t] \cup part)
  <2>1. CASE "sr" \in part
    <3>1. "sr" \notin mem.gone[t]
      BY <1>6, <2>1
    <3>2. mem.counted[t] = 0
      BY <1>4, <1>5, <3>1 DEF FitsTrace
    <3>3. Traces!Calls(part) \in {0, 1}
      BY DEF Traces!Calls
    <3> QED
      BY <1>8, <2>1, <3>2, <3>3
  <2>2. CASE "sr" \notin part
    <3>1. Traces!Calls(part) = 0
      BY <2>2 DEF Traces!Calls
    <3> QED
      BY <1>4, <1>5, <1>8, <3>1 DEF FitsTrace
  <2> QED
    BY <2>1, <2>2
<1>10. /\ mem'.part = [mem.part EXCEPT ![t] = {}]
       /\ mem'.gone = [mem.gone EXCEPT ![t] = mem.gone[t] \cup part]
       /\ mem'.parts = [mem.parts EXCEPT ![t] = mem.parts[t] + 1]
       /\ mem'.counted = [mem.counted EXCEPT ![t] = total]
       /\ mem'.seek = mem.seek /\ mem'.born = mem.born
  BY <1>2, <1>3, <1>8 DEF MemRecord
<1>11. mem' \in MemRecord
  <2>1. /\ mem'.part \in [One -> SUBSET Traces!Kind] /\ mem'.gone \in [One -> SUBSET Traces!Kind]
        /\ mem'.parts \in [One -> 0 .. 4] /\ mem'.counted \in [One -> 0 .. 1]
    BY <1>3, <1>4, <1>7, <1>9, <1>10 DEF MemRecord
  <2>2. PICK p, g, n, c : mem' = [mem EXCEPT !.part = p, !.gone = g, !.parts = n, !.counted = c]
    BY <1>2
  <2> QED
    BY <1>3, <2>1, <2>2 DEF MemRecord
<1>12. /\ mem'.part[t] = {} /\ mem'.gone[t] = mem.gone[t] \cup part
       /\ mem'.parts[t] = mem.parts[t] + 1 /\ mem'.counted[t] = total
       /\ \A u \in One : u # t =>
            /\ mem'.part[u] = mem.part[u] /\ mem'.gone[u] = mem.gone[u]
            /\ mem'.parts[u] = mem.parts[u] /\ mem'.counted[u] = mem.counted[u]
  BY <1>3, <1>10 DEF MemRecord
<1>13. /\ es' \in Searched /\ es'.lines = es.lines
       /\ pending' \in Posts /\ pending'.lines = pending.lines
       /\ pending.traces \subseteq pending'.traces
       /\ pending'.traces \subseteq pending.traces \cup {<<t, part>>}
       /\ \A u \in One : u # t => es'.trace[u] = es.trace[u]
       /\ es'.trace[t] = part \/ <<t, part>> \in pending'.traces
  BY <1>2, <1>3, <1>4 DEF Searched, Posts
<1>14. TraceTypes'
  BY <1>2, <1>11, <1>13, TraceFails DEF TraceInv, TraceTypes
<1>15. Sent' = Sent
  BY <1>2, <1>13 DEF Sent
<1>16. Fits(mem)'
  <2>1. ASSUME NEW u \in One PROVE FitsTrace(mem, u)'
    <3>1. Upto(u, mem.seek)' = Upto(u, mem.seek)
      BY <1>2, <1>10 DEF Upto
    <3>2. CASE u = t
      <4>1. mem.parts[t] + 1 # 0
        BY <1>4
      <4>2. mem'.part[t] \cap mem'.gone[t] = {} /\ mem'.part[t] \cup mem'.gone[t] = Upto(t, mem.seek)
        BY <1>6, <1>12
      <4> QED
        BY <1>7, <1>9, <1>12, <3>1, <3>2, <4>1, <4>2 DEF FitsTrace
    <3>3. CASE u # t
      BY <1>5, <1>12, <3>1, <3>3 DEF FitsTrace
    <3> QED
      BY <3>2, <3>3
  <2>2. mem'.seek <= Len(file')
    BY <1>2, <1>10 DEF TraceInv, Fits
  <2> QED
    BY <2>1, <2>2 DEF Fits
<1>17. SentUpto(mem)'
  BY <1>2, <1>10, <1>15 DEF TraceInv, SentUpto
<1>18. mem.gone[t] # Traces!Kind
  BY <1>2, <1>4, <1>6
<1>19. Whole'
  <2>1. mem'.parts[t] # 0
    BY <1>4, <1>12
  <2>2. mem'.parts[t] = 1 => mem.parts[t] = 0 /\ mem'.gone[t] = part
    BY <1>4, <1>5, <1>12 DEF FitsTrace
  <2>3. ASSUME NEW u \in One, mem'.parts[u] = 1, mem'.gone[u] = Traces!Kind
        PROVE  \/ es'.trace[u] = Traces!Kind
               \/ <<u, Traces!Kind>> \in pending'.traces \cup lost'.traces
    <3>1. CASE u = t
      BY <1>13, <2>2, <2>3, <3>1
    <3>2. CASE u # t
      <4>1. \/ es.trace[u] = Traces!Kind
            \/ <<u, Traces!Kind>> \in pending.traces \cup lost.traces
        BY <1>12, <2>3, <3>2 DEF TraceInv, Whole
      <4> QED
        BY <1>2, <1>13, <3>2, <4>1
    <3> QED
      BY <3>1, <3>2
  <2>4. ASSUME NEW q \in pending'.traces
        PROVE  mem'.parts[q[1]] # 0 /\ (mem'.parts[q[1]] = 1 => q[2] = mem'.gone[q[1]])
    <3>1. CASE q = <<t, part>>
      BY <2>1, <2>2, <3>1
    <3>2. CASE q # <<t, part>>
      <4>1. q \in pending.traces
        BY <1>13, <3>2
      <4>2. /\ q[1] \in One /\ mem.parts[q[1]] # 0
            /\ mem.parts[q[1]] = 1 => q[2] = mem.gone[q[1]]
        BY <1>3, <4>1 DEF TraceInv, Whole, Posts
      <4> QED
        BY <1>12, <2>1, <2>2, <4>2
    <3> QED
      BY <3>1, <3>2
  <2> QED
    BY <2>3, <2>4 DEF Whole
<1>20. \A u \in One : mem.gone[u] = Traces!Kind =>
         mem'.gone[u] = Traces!Kind /\ mem'.parts[u] = mem.parts[u]
  BY <1>12, <1>18
<1> QED
  BY <1>2, <1>14, <1>15, <1>16, <1>17, <1>19, <1>20, SnapshotsKept

LEMMA SnapshotTaken == TraceInv /\ Traces!createSnapshot => TraceInv'
<1> SUFFICES ASSUME TraceInv, Traces!createSnapshot PROVE TraceInv'
  OBVIOUS
<1>1. /\ UNCHANGED <<now, file, mem, disk, es, pending, lost, crashes, faults>>
      /\ writing' = [taken |-> TRUE, mem |-> mem]
  BY DEF Traces!createSnapshot, Traces!Thread, Traces!Posted
<1>2. writing'.mem = mem /\ writing' \in Snapshot
  BY <1>1 DEF TraceInv, TraceTypes, Snapshot
<1>3. TraceTypes'
  BY <1>1, <1>2 DEF TraceInv, TraceTypes
<1>4. Sent' = Sent /\ Whole'
  BY <1>1 DEF TraceInv, Sent, Whole
<1>5. Fits(mem)' /\ Fits(writing.mem)' /\ Fits(disk.mem)'
  BY <1>1, <1>2, <1>4, FitsOn DEF Fits, FitsTrace
<1>6. SentUpto(mem)' /\ SentUpto(writing.mem)' /\ SentUpto(disk.mem)'
  BY <1>1, <1>2, <1>4, FitsOn DEF SentUpto
<1>7. Since(writing.mem)' /\ Since(disk.mem)'
  BY <1>1, <1>2 DEF TraceInv, Since
<1> QED
  BY <1>1, <1>3, <1>4, <1>5, <1>6, <1>7, FitsOn DEF TraceInv

LEMMA SnapshotSaved == TraceInv /\ Traces!save2file => TraceInv'
<1> SUFFICES ASSUME TraceInv, Traces!save2file PROVE TraceInv'
  OBVIOUS
<1>1. /\ UNCHANGED <<now, file, mem, es, pending, lost, crashes, faults>>
      /\ disk' = writing /\ writing' = Traces!NoSnapshot
  BY DEF Traces!save2file
<1>2. TraceTypes'
  BY <1>1, NothingYet DEF TraceInv, TraceTypes
<1>3. Sent' = Sent /\ Whole' /\ file' \in Seq(Traces!Line)
  BY <1>1 DEF TraceInv, TraceTypes, Sent, Whole
<1>4. Fits(mem)' /\ Fits(disk.mem)'
  BY <1>1, <1>3, FitsOn DEF Fits, FitsTrace
<1>5. SentUpto(mem)' /\ SentUpto(disk.mem)'
  BY <1>1, <1>3, FitsOn DEF SentUpto
<1>6. Since(disk.mem)'
  BY <1>1 DEF TraceInv, Since
<1>7. Fits(writing.mem)' /\ SentUpto(writing.mem)' /\ Since(writing.mem)'
  <2>1. Fits(Traces!NoMem) /\ SentUpto(Traces!NoMem) /\ Since(Traces!NoMem)
    BY NothingFits DEF TraceInv, TraceTypes
  <2>2. writing'.mem = Traces!NoMem
    BY <1>1, NothingYet
  <2> QED
    BY <1>1, <2>1, <2>2 DEF Fits, FitsTrace, Upto, SentUpto, Sent, Since
<1> QED
  BY <1>1, <1>2, <1>3, <1>4, <1>5, <1>6, <1>7, FitsOn DEF TraceInv

LEMMA Restored == TraceInv /\ Traces!Crash => TraceInv'
<1> SUFFICES ASSUME TraceInv, Traces!Crash PROVE TraceInv'
  OBVIOUS
<1>1. /\ UNCHANGED <<now, file, es, faults>> /\ writing' = Traces!NoSnapshot
      /\ disk' \in {disk, Traces!NoSnapshot} /\ pending' = Traces!NoPosts
      /\ lost' = [lines |-> lost.lines \cup pending.lines,
                  traces |-> lost.traces \cup pending.traces]
      /\ mem' = [disk'.mem EXCEPT !.born = [t \in One |-> now]]
  BY DEF Traces!Crash, Traces!restore
<1>2. crashes' \in 0 .. MaxCrashes
  BY ServicesAssumption DEF TraceInv, TraceTypes, Traces!Crash
<1>3. file \in Seq(Traces!Line) /\ now \in 0 .. TraceTime /\ disk' \in Snapshot
  BY <1>1, NothingYet DEF TraceInv, TraceTypes
<1>4. lost' \in Posts /\ lost'.lines = lost.lines \cup pending.lines
      /\ lost'.traces = lost.traces \cup pending.traces
  BY <1>1 DEF TraceInv, TraceTypes, Posts
<1>5. Sent' = Sent
  BY <1>1, <1>4, NothingYet DEF Sent
<1>6. PICK m : m = disk'.mem
  OBVIOUS
<1>7. m \in MemRecord /\ Fits(m) /\ SentUpto(m) /\ Since(m)
  <2>1. CASE disk' = disk
    BY <1>3, <1>6, <2>1 DEF TraceInv, Snapshot
  <2>2. CASE disk' = Traces!NoSnapshot
    BY <1>3, <1>6, <2>2, NothingFits, NothingYet DEF Snapshot
  <2> QED
    BY <1>1, <2>1, <2>2
<1>8. /\ mem' \in MemRecord /\ mem'.seek = m.seek /\ mem'.part = m.part /\ mem'.gone = m.gone
      /\ mem'.parts = m.parts /\ mem'.counted = m.counted
  <2>1. PICK born : born = [t \in One |-> now] /\ mem' = [m EXCEPT !.born = born]
    BY <1>1, <1>6
  <2>2. born \in [One -> 0 .. TraceTime]
    BY <1>3, <2>1
  <2> QED
    BY <1>7, <2>1, <2>2 DEF MemRecord
<1>9. TraceTypes'
  BY <1>1, <1>2, <1>3, <1>4, <1>8, NothingYet DEF TraceInv, TraceTypes
<1>10. Once'
  BY <1>1 DEF TraceInv, Once
<1>11. Fits(mem)' /\ Fits(disk.mem)'
  <2>1. \A t \in One, n \in Nat : Upto(t, n)' = Upto(t, n)
    BY <1>1 DEF Upto
  <2>2. m.seek \in Nat /\ m.seek <= Len(file) /\ \A t \in One : FitsTrace(m, t)
    BY <1>7 DEF Fits, MemRecord
  <2>3. Fits(mem)'
    BY <1>1, <1>8, <2>1, <2>2 DEF Fits, FitsTrace
  <2>4. Fits(disk.mem)'
    BY <1>1, <1>6, <2>1, <2>2 DEF Fits, FitsTrace
  <2> QED
    BY <2>3, <2>4
<1>12. SentUpto(mem)' /\ SentUpto(disk.mem)'
  BY <1>1, <1>5, <1>6, <1>7, <1>8 DEF SentUpto
<1>13. Since(disk.mem)'
  BY <1>6, <1>8 DEF Since
<1>14. Whole'
  <2>1. ASSUME NEW t \in One, m.parts[t] = 1, m.gone[t] = Traces!Kind
        PROVE  es.trace[t] = Traces!Kind \/ <<t, Traces!Kind>> \in pending.traces \cup lost.traces
    BY <1>7, <2>1 DEF Since, TraceInv, Whole
  <2> QED
    BY <1>1, <1>4, <1>8, <2>1, NothingYet DEF Whole
<1>15. Fits(writing.mem)' /\ SentUpto(writing.mem)' /\ Since(writing.mem)'
  <2>1. Fits(Traces!NoMem) /\ SentUpto(Traces!NoMem)
    BY <1>3, NothingFits
  <2>2. writing'.mem = Traces!NoMem
    BY <1>1, NothingYet
  <2>3. \A t \in One : Traces!NoMem.gone[t] # Traces!Kind
    BY NothingYet DEF Traces!Kind
  <2> QED
    BY <1>1, <1>5, <2>1, <2>2, <2>3 DEF Fits, FitsTrace, Upto, SentUpto, Since
<1> QED
  BY <1>9, <1>10, <1>11, <1>12, <1>13, <1>14, <1>15 DEF TraceInv

LEMMA TracesStep == TraceInv /\ Traces!Next => TraceInv'
BY LineWritten, TraceReleased, TraceTick, FileRead, GraphPosted, LinesRepeated, TraceRepeated,
   SnapshotTaken, SnapshotSaved, Restored DEF Traces!Next

LEMMA TracesRest == TraceInv /\ UNCHANGED <<traceVars, now, faults>> => TraceInv'
<1> SUFFICES ASSUME TraceInv, UNCHANGED <<traceVars, now, faults>> PROVE TraceInv'
  OBVIOUS
<1>1. UNCHANGED <<now, file, mem, writing, disk, es, pending, lost, crashes, faults>>
  BY DEF traceVars
<1>2. Sent' = Sent /\ TraceTypes' /\ Whole'
  BY <1>1 DEF TraceInv, TraceTypes, Whole, Sent
<1> QED
  BY <1>1, <1>2, MemoriesKept

-----------------------------------------------------------------------------
(***************************************************************************)
(* PropertyBuffers                                                         *)
(***************************************************************************)
Mark == [left : BOOLEAN, age : 0 .. Grace, round : BOOLEAN]
Hand == {Property!AtRest}
        \cup [stage : {"chosen"}, index : 0 .. 1, report : B \cup {"noise"}, since : 0 .. Grace - 1]
Reaper == {[stage |-> "idle", batch |-> {}]} \cup [stage : {"read"}, batch : SUBSET B]
Why == {"full", "alarm", "skipped"}

Tables ==
  /\ selected \in 0 .. 1 /\ waited \in 0 .. SwitchInterval
  /\ buffer \in [0 .. 1 -> SUBSET B] /\ mark \in [0 .. 1 -> [A -> Mark]]
Hands == unsent \subseteq B /\ seen \in [A -> 0 .. 2] /\ handler \in [A -> Hand]
Records ==
  /\ reaper \in Reaper /\ last \in 0 .. 2 /\ batch \in Seq(B) /\ stored \subseteq B
  /\ gone \subseteq B \X Why
PropertyTypes ==
  Tables /\ Hands /\ Records /\ crossed \in BOOLEAN /\ faults \in 0 .. FewFaults

\* Whoever still holds the table that is not selected chose it before the last
\* switch, and so before any mark that was made since.
Aged ==
  \A g, h \in A : LET b == 1 - selected IN
    /\ handler[g].stage = "chosen" /\ handler[g].index = b
    /\ mark[b][h].left /\ mark[b][h].round
    => mark[b][h].age <= handler[g].since

\* A table that is being read has what was read, and nobody is about to add to it.
ReadAlone ==
  reaper.stage = "read" /\ ~crossed =>
    /\ last = 1 - selected /\ buffer[last] = reaper.batch
    /\ \A g \in A : handler[g].stage = "chosen" => handler[g].index # last

Held(r) ==
  \/ r \in unsent \/ \E h \in A : handler[h].report = r
  \/ \E b \in 0 .. 1 : r \in buffer[b]
  \/ r \in reaper.batch \/ \E i \in 1 .. Len(batch) : batch[i] = r
  \/ r \in stored \/ \E g \in gone : g[1] = r
AllHeld == crossed \/ \A r \in B : Held(r)

PropertyInv == PropertyTypes /\ Aged /\ ReadAlone /\ AllHeld

LEMMA PropertyHeld == PropertyInv => Property!TypeOK /\ Property!NothingLost
<1> SUFFICES ASSUME PropertyInv PROVE Property!TypeOK /\ Property!NothingLost
  OBVIOUS
<1>1. handler \in [A -> [stage : {"idle", "chosen"}, index : 0 .. 1,
                         report : B \cup {"noise"}, since : 0 .. Grace]]
  <2>1. Hand \subseteq [stage : {"idle", "chosen"}, index : 0 .. 1,
                        report : B \cup {"noise"}, since : 0 .. Grace]
    <3>1. \A n \in 0 .. Grace - 1 : n \in 0 .. Grace
      BY ServicesAssumption
    <3>2. 0 \in 0 .. Grace
      BY ServicesAssumption
    <3> QED
      BY <3>1, <3>2 DEF Hand, Property!AtRest, Property!Noise
  <2> QED
    BY <2>1 DEF PropertyInv, PropertyTypes, Hands
<1>2. reaper \in [stage : {"idle", "read"}, batch : SUBSET B]
  BY DEF PropertyInv, PropertyTypes, Records, Reaper
<1>3. Property!TypeOK
  BY <1>1, <1>2 DEF PropertyInv, PropertyTypes, Tables, Hands, Records, Mark, Why,
     Property!TypeOK, Property!Buffer, Property!None, Property!Noise
<1>4. Property!NothingLost
  BY DEF PropertyInv, AllHeld, Held, Property!NothingLost, Property!Buffer
<1> QED
  BY <1>3, <1>4

LEMMA PropertyInit == Property!Init => PropertyInv
<1> SUFFICES ASSUME Property!Init PROVE PropertyInv
  OBVIOUS
<1>1. \A b \in BOOLEAN : Property!Left(b) \in [A -> Mark]
  BY ServicesAssumption DEF Property!Left, Mark
<1>2. Tables
  <2>1. (0 = 1) \in BOOLEAN /\ (1 = 1) \in BOOLEAN
    OBVIOUS
  <2>2. mark \in [0 .. 1 -> [A -> Mark]]
    BY <1>1 DEF Property!Init, Property!Buffer
  <2>3. waited \in 0 .. SwitchInterval
    BY ServicesAssumption DEF Property!Init
  <2> QED
    BY <2>2, <2>3 DEF Property!Init, Property!Buffer, Tables
<1>3. \A h \in A : handler[h] = Property!AtRest
  BY DEF Property!Init
<1>4. Property!AtRest.stage = "idle"
  BY DEF Property!AtRest
<1>5. Hands
  BY DEF Property!Init, Property!None, Hands, Hand
<1>6. Records
  BY DEF Property!Init, Property!None, Records, Reaper
<1>7. crossed = FALSE /\ faults \in 0 .. FewFaults /\ unsent = B /\ reaper.stage = "idle"
  BY ServicesAssumption DEF Property!Init
<1>8. Aged /\ ReadAlone /\ AllHeld
  BY <1>3, <1>4, <1>7 DEF Aged, ReadAlone, AllHeld, Held
<1> QED
  BY <1>2, <1>5, <1>6, <1>7, <1>8 DEF PropertyInv, PropertyTypes

LEMMA HandFields ==
  ASSUME PropertyInv, NEW h \in A
  PROVE  /\ handler[h] \in Hand
         /\ handler[h].stage = "idle" => handler[h].report = "noise"
         /\ handler[h].stage # "idle" =>
              /\ handler[h].stage = "chosen" /\ handler[h].index \in 0 .. 1
              /\ handler[h].report \in B \cup {"noise"} /\ handler[h].since \in 0 .. Grace - 1
BY DEF PropertyInv, PropertyTypes, Hands, Hand, Property!AtRest, Property!Noise

LEMMA Switched ==
  ASSUME PropertyInv, ~crossed, Property!dump2file
  PROVE  /\ selected' \in 0 .. 1 /\ waited' \in 0 .. SwitchInterval
         /\ mark' \in [0 .. 1 -> [A -> Mark]] /\ crossed' \in BOOLEAN
         /\ \/ selected' = selected /\ mark' = mark /\ crossed' = crossed
            \/ /\ selected' = 1 - selected /\ (crossed' <=> reaper.stage = "read")
               /\ \A h \in A : ~(mark'[selected][h].left /\ mark'[selected][h].round)
<1>1. /\ selected \in 0 .. 1 /\ waited \in 0 .. SwitchInterval
      /\ mark \in [0 .. 1 -> [A -> Mark]] /\ crossed \in BOOLEAN
  BY DEF PropertyInv, PropertyTypes, Tables
<1>2. CASE waited = SwitchInterval
  <2>1. /\ selected' = 1 - selected /\ waited' = 0
        /\ mark' = [mark EXCEPT ![selected] = [h \in A |-> Property!OfBefore(mark[selected][h])]]
        /\ crossed' = (crossed \/ reaper.stage = "read")
    BY <1>2 DEF Property!dump2file
  <2>2. ASSUME NEW h \in A
        PROVE  /\ Property!OfBefore(mark[selected][h]) \in Mark
               /\ ~(/\ Property!OfBefore(mark[selected][h]).left
                    /\ Property!OfBefore(mark[selected][h]).round)
    <3>1. PICK m \in Mark : m = mark[selected][h]
      BY <1>1
    <3>2. PICK n : n = [m EXCEPT !.round = ~m.left]
      OBVIOUS
    <3>3. n \in Mark /\ n.left = m.left /\ n.round = ~m.left
      BY <3>1, <3>2 DEF Mark
    <3> QED
      BY <3>1, <3>2, <3>3 DEF Property!OfBefore
  <2>3. PICK row1 : row1 = [h \in A |-> Property!OfBefore(mark[selected][h])]
    OBVIOUS
  <2>4. row1 \in [A -> Mark] /\ \A h \in A : ~(row1[h].left /\ row1[h].round)
    BY <2>2, <2>3
  <2>5. mark' \in [0 .. 1 -> [A -> Mark]] /\ mark'[selected] = row1
    BY <1>1, <2>1, <2>3, <2>4
  <2>6. selected' \in 0 .. 1 /\ waited' \in 0 .. SwitchInterval
    BY <1>1, <2>1, ServicesAssumption
  <2> QED
    BY <1>1, <2>1, <2>4, <2>5, <2>6
<1>3. CASE waited # SwitchInterval
  BY <1>1, <1>3 DEF Property!dump2file
<1> QED
  BY <1>2, <1>3

LEMMA RecordTaken ==
  ASSUME PropertyInv, ~crossed, NEW h \in A, Property!reportPropMsg(h)
  PROVE  PropertyInv'
<1>1. PICK r \in B \cup {"noise"} :
        /\ handler' = [handler EXCEPT ![h] = [Property!AtRest EXCEPT !.stage = "chosen",
                                               !.index = selected', !.report = r]]
        /\ unsent' = unsent \ {r}
  BY DEF Property!reportPropMsg, Property!Comes, Property!Noise, PropertyInv, PropertyTypes, Hands
<1>2. /\ handler[h].stage = "idle" /\ Property!dump2file
      /\ UNCHANGED <<buffer, seen, gone, reaper, last, batch, stored, faults>>
  BY DEF Property!reportPropMsg, Property!Handling
<1>3. /\ selected \in 0 .. 1 /\ selected' \in 0 .. 1 /\ waited' \in 0 .. SwitchInterval
      /\ mark' \in [0 .. 1 -> [A -> Mark]] /\ crossed' \in BOOLEAN
      /\ \/ selected' = selected /\ mark' = mark /\ crossed' = crossed
         \/ /\ selected' = 1 - selected /\ (crossed' <=> reaper.stage = "read")
            /\ \A i \in A : ~(mark'[selected][i].left /\ mark'[selected][i].round)
  BY <1>2, Switched DEF PropertyInv, PropertyTypes, Tables
<1>4. PICK new : new = [Property!AtRest EXCEPT !.stage = "chosen", !.index = selected',
                        !.report = r]
  OBVIOUS
<1>5. /\ new \in Hand /\ new.stage = "chosen" /\ new.index = selected' /\ new.report = r
  <2>1. 0 \in 0 .. Grace - 1
    BY ServicesAssumption
  <2> QED
    BY <1>3, <1>4, <2>1 DEF Property!AtRest, Hand
<1>6. handler' \in [A -> Hand] /\ handler'[h] = new /\ \A g \in A : g # h => handler'[g] = handler[g]
  BY <1>1, <1>4, <1>5 DEF PropertyInv, PropertyTypes, Hands
<1>7. Tables' /\ Hands' /\ Records'
  BY <1>1, <1>2, <1>3, <1>6 DEF PropertyInv, PropertyTypes, Tables, Hands, Records
<1>8. Aged'
  <2>1. ASSUME NEW g \in A, NEW i \in A, handler'[g].stage = "chosen",
               handler'[g].index = 1 - selected',
               mark'[1 - selected'][i].left, mark'[1 - selected'][i].round
        PROVE  mark'[1 - selected'][i].age <= handler'[g].since
    <3>1. \A n \in 0 .. 1 : n # 1 - n /\ 1 - (1 - n) = n
      OBVIOUS
    <3>2. g # h
      <4>1. selected' # 1 - selected'
        BY <1>3, <3>1, Zenon
      <4> QED
        BY <1>5, <1>6, <2>1, <4>1
    <3>3. selected' = selected /\ mark' = mark
      <4>1. CASE selected' = 1 - selected
                 /\ \A k \in A : ~(mark'[selected][k].left /\ mark'[selected][k].round)
        <5>1. 1 - selected' = selected
          BY <1>3, <3>1, <4>1, Zenon
        <5> QED
          BY <2>1, <4>1, <5>1, Zenon
      <4> QED
        BY <1>3, <4>1, Zenon
    <3> QED
      BY <1>6, <2>1, <3>2, <3>3 DEF PropertyInv, Aged
  <2> QED
    BY <2>1 DEF Aged
<1>9. ReadAlone'
  <2>1. ASSUME reaper.stage = "read", ~crossed' PROVE selected' = selected
    BY <1>3, <2>1
  <2> QED
    BY <1>2, <1>3, <1>5, <1>6, <2>1 DEF PropertyInv, ReadAlone
<1>10. ASSUME NEW q \in B, ~crossed' PROVE Held(q)'
  <2>1. Held(q)
    BY DEF PropertyInv, AllHeld
  <2>2. CASE q \in unsent
    BY <1>1, <1>5, <1>6, <2>2 DEF Held
  <2>3. CASE \E g \in A : handler[g].report = q
    <3>1. PICK g \in A : handler[g].report = q
      BY <2>3
    <3>2. handler[h].report = "noise" /\ q # "noise"
      BY <1>2, HandFields, ServicesAssumption
    <3> QED
      BY <1>6, <3>1, <3>2 DEF Held
  <2> QED
    BY <1>2, <2>1, <2>2, <2>3 DEF Held
<1> QED
  BY <1>2, <1>3, <1>7, <1>8, <1>9, <1>10 DEF PropertyInv, PropertyTypes, AllHeld

LEMMA RecordAdded ==
  ASSUME PropertyInv, ~crossed, NEW h \in A, Property!handlePropMsg(h)
  PROVE  PropertyInv'
<1>1. /\ handler[h].stage = "chosen" /\ handler' = [handler EXCEPT ![h] = Property!AtRest]
      /\ UNCHANGED <<selected, waited, unsent, crossed, reaper, last, batch, stored, faults>>
  BY DEF Property!handlePropMsg, Property!Handling
<1>2. PICK b \in 0 .. 1, r \in B \cup {"noise"} :
        /\ b = handler[h].index /\ r = handler[h].report
        /\ seen' = [seen EXCEPT ![h] = b]
        /\ mark' = IF seen[h] \in {b, 2} THEN mark
                   ELSE [mark EXCEPT ![seen[h]][h] = [left |-> TRUE, age |-> 0, round |-> TRUE]]
        /\ \/ r = "noise" /\ UNCHANGED <<buffer, gone>>
           \/ r # "noise" /\ gone' = gone \cup {<<r, "full">>} /\ UNCHANGED buffer
           \/ r # "noise" /\ buffer' = [buffer EXCEPT ![b] = @ \cup {r}] /\ UNCHANGED gone
  BY <1>1, HandFields DEF Property!handlePropMsg, Property!Noise, Property!None
<1>3. /\ selected \in 0 .. 1 /\ seen[h] \in 0 .. 2 /\ mark \in [0 .. 1 -> [A -> Mark]]
      /\ handler \in [A -> Hand] /\ buffer \in [0 .. 1 -> SUBSET B] /\ gone \subseteq B \X Why
  BY DEF PropertyInv, PropertyTypes, Tables, Hands, Records
<1>4. /\ Property!AtRest \in Hand /\ Property!AtRest.stage = "idle"
      /\ handler' \in [A -> Hand] /\ handler'[h] = Property!AtRest
      /\ \A g \in A : g # h => handler'[g] = handler[g]
  BY <1>1, <1>3 DEF Hand, Property!AtRest
<1>5. /\ mark' \in [0 .. 1 -> [A -> Mark]]
      /\ \A c \in 0 .. 1, g \in A : mark'[c][g] = mark[c][g] \/ mark'[c][g].age = 0
  <2>1. CASE seen[h] \in {b, 2}
    BY <1>2, <1>3, <2>1
  <2>2. CASE seen[h] \notin {b, 2}
    <3>1. PICK new : new = [left |-> TRUE, age |-> 0, round |-> TRUE]
      OBVIOUS
    <3>2. new \in Mark /\ new.age = 0
      BY <3>1, ServicesAssumption DEF Mark
    <3>3. seen[h] \in 0 .. 1
      BY <1>3, <2>2
    <3>4. PICK c \in 0 .. 1 : c = seen[h] /\ mark' = [mark EXCEPT ![c][h] = new]
      BY <1>2, <2>2, <3>1, <3>3
    <3> QED
      BY <1>3, <3>2, <3>4
  <2> QED
    BY <2>1, <2>2
<1>6. buffer' \in [0 .. 1 -> SUBSET B] /\ gone' \subseteq B \X Why
  BY <1>2, <1>3 DEF Why
<1>7. Tables' /\ Hands' /\ Records'
  BY <1>1, <1>2, <1>4, <1>5, <1>6 DEF PropertyInv, PropertyTypes, Tables, Hands, Records
<1>8. Aged'
  <2>1. ASSUME NEW g \in A, NEW i \in A, handler'[g].stage = "chosen",
               handler'[g].index = 1 - selected,
               mark'[1 - selected][i].left, mark'[1 - selected][i].round
        PROVE  mark'[1 - selected][i].age <= handler'[g].since
    <3>1. g # h /\ handler'[g] = handler[g] /\ handler[g].since \in 0 .. Grace - 1
      BY <1>4, <2>1, HandFields
    <3>2. 1 - selected \in 0 .. 1
      BY <1>3
    <3>3. CASE mark'[1 - selected][i].age = 0
      BY <3>1, <3>3, ServicesAssumption
    <3>4. CASE mark'[1 - selected][i] = mark[1 - selected][i]
      BY <2>1, <3>1, <3>4 DEF PropertyInv, Aged
    <3> QED
      BY <1>5, <3>2, <3>3, <3>4
  <2> QED
    BY <1>1, <2>1 DEF Aged
<1>9. ReadAlone'
  <2>1. ASSUME reaper.stage = "read" PROVE last # b /\ last \in 0 .. 1 /\ buffer[last] = reaper.batch
    BY <1>1, <1>2, <1>3, <2>1 DEF PropertyInv, ReadAlone
  <2>2. reaper.stage = "read" => buffer'[last] = buffer[last]
    BY <1>2, <1>3, <2>1
  <2> QED
    BY <1>1, <1>4, <2>1, <2>2 DEF PropertyInv, ReadAlone
<1>10. ASSUME NEW q \in B PROVE Held(q)'
  <2>1. Held(q)
    BY DEF PropertyInv, AllHeld
  <2>2. q # "noise"
    BY ServicesAssumption
  <2>3. CASE \E g \in A : handler[g].report = q
    <3>1. PICK g \in A : handler[g].report = q
      BY <2>3
    <3>2. CASE g = h
      <4>1. r = q
        BY <1>2, <3>1, <3>2
      <4>2. CASE gone' = gone \cup {<<r, "full">>}
        <5>1. <<r, "full">> \in gone' /\ <<r, "full">>[1] = q
          BY <4>1, <4>2
        <5> QED
          BY <5>1 DEF Held
      <4>3. CASE buffer' = [buffer EXCEPT ![b] = @ \cup {r}]
        BY <1>3, <4>1, <4>3 DEF Held
      <4> QED
        BY <1>2, <2>2, <4>1, <4>2, <4>3
    <3>3. CASE g # h
      BY <1>4, <3>1, <3>3 DEF Held
    <3> QED
      BY <3>2, <3>3
  <2>4. CASE \E c \in 0 .. 1 : q \in buffer[c]
    BY <1>2, <1>3, <2>4 DEF Held
  <2>5. gone \subseteq gone'
    BY <1>2
  <2>6. (\E g \in gone : g[1] = q) => \E g \in gone' : g[1] = q
    BY <2>5
  <2> QED
    BY <1>1, <2>1, <2>3, <2>4, <2>6 DEF Held
<1> QED
  BY <1>1, <1>7, <1>8, <1>9, <1>10 DEF PropertyInv, PropertyTypes, AllHeld

LEMMA TableRead == PropertyInv /\ ~crossed /\ Property!getDataFromBuffer => PropertyInv'
<1> SUFFICES ASSUME PropertyInv, ~crossed, Property!getDataFromBuffer PROVE PropertyInv'
  OBVIOUS
<1>1. PICK b : b = 1 - selected
  OBVIOUS
<1>2. /\ reaper.stage = "idle" /\ Property!getSelectBuffer(b) /\ last' = b
      /\ reaper' = [stage |-> "read", batch |-> buffer[b]]
      /\ mark' = [mark EXCEPT ![b] = Property!Left(FALSE)]
      /\ crossed' = (crossed \/ \A h \in A : ~mark[b][h].round)
      /\ UNCHANGED <<buffer, batch, selected, waited, unsent, handler, seen, stored, gone, faults>>
  BY <1>1 DEF Property!getDataFromBuffer, Property!Reaping
<1>3. /\ selected \in 0 .. 1 /\ mark \in [0 .. 1 -> [A -> Mark]] /\ crossed \in BOOLEAN
      /\ buffer \in [0 .. 1 -> SUBSET B] /\ reaper \in Reaper
  BY DEF PropertyInv, PropertyTypes, Tables, Records
<1>4. b \in 0 .. 1
  BY <1>1, <1>3
<1>5. Property!Left(FALSE) \in [A -> Mark] /\ \A h \in A : ~Property!Left(FALSE)[h].left
  BY ServicesAssumption DEF Property!Left, Mark
<1>6. mark' \in [0 .. 1 -> [A -> Mark]] /\ mark'[b] = Property!Left(FALSE)
  BY <1>2, <1>3, <1>4, <1>5
<1>7. reaper' \in Reaper /\ reaper'.stage = "read" /\ reaper'.batch = buffer[b]
      /\ reaper.batch = {} /\ last' \in 0 .. 2
  BY <1>2, <1>3, <1>4 DEF Reaper
<1>8. Tables' /\ Hands' /\ Records' /\ crossed' \in BOOLEAN
  BY <1>2, <1>3, <1>6, <1>7 DEF PropertyInv, PropertyTypes, Tables, Hands, Records
<1>9. Aged'
  BY <1>1, <1>2, <1>5, <1>6 DEF Aged
<1>10. ASSUME ~crossed', NEW g \in A, handler[g].stage = "chosen" PROVE handler[g].index # b
  <2>1. PICK h \in A : mark[b][h].round
    BY <1>2, <1>10
  <2>2. mark[b][h].left /\ mark[b][h].age \in 0 .. Grace /\ mark[b][h].age >= Grace
    BY <1>2, <1>3, <1>4 DEF Property!getSelectBuffer, Mark
  <2>3. handler[g].since \in 0 .. Grace - 1
    BY <1>10, HandFields
  <2>4. ~(mark[b][h].age <= handler[g].since)
    BY <2>2, <2>3, ServicesAssumption
  <2> QED
    BY <1>1, <1>10, <2>1, <2>2, <2>4 DEF PropertyInv, Aged
<1>11. ReadAlone'
  BY <1>1, <1>2, <1>7, <1>10 DEF ReadAlone
<1>12. ASSUME NEW q \in B PROVE Held(q)'
  BY <1>2, <1>7 DEF PropertyInv, AllHeld, Held
<1> QED
  BY <1>2, <1>8, <1>9, <1>11, <1>12 DEF PropertyInv, PropertyTypes, AllHeld

\* An arrangement of a finite set has all of it.
LEMMA ArrangedWhole ==
  ASSUME NEW s \in SUBSET B, NEW f \in Property!Arrangements(s)
  PROVE  /\ f \in Seq(B) /\ \A r \in s : \E i \in 1 .. Len(f) : f[i] = r
<1>0. Property!Cardinality(s) = Cardinality(s)
  BY DEF Property!Cardinality, Cardinality
<1>1. IsFiniteSet(s)
  BY ServicesAssumption, FS_Subset
<1>2. Cardinality(s) \in Nat
  BY <1>1, FS_CardinalityType
<1>3. /\ f \in [1 .. Cardinality(s) -> s]
      /\ \A i, j \in 1 .. Cardinality(s) : f[i] = f[j] => i = j
  <2>1. f \in [1 .. Cardinality(s) -> s] /\ \A i, j \in DOMAIN f : f[i] = f[j] => i = j
    BY <1>0 DEF Property!Arrangements
  <2> QED
    BY <2>1
<1>4. f \in Injection(1 .. Cardinality(s), s)
  BY <1>3 DEF Injection, IsInjective
<1>5. IsFiniteSet(1 .. Cardinality(s)) /\ Cardinality(1 .. Cardinality(s)) = Cardinality(s)
  BY <1>2, FS_Interval
<1>6. f \in Surjection(1 .. Cardinality(s), s)
  BY <1>1, <1>4, <1>5, FS_Injection
<1>7. \A r \in s : \E i \in 1 .. Cardinality(s) : f[i] = r
  BY <1>6 DEF Surjection
<1>8. Len(f) = Cardinality(s) /\ f \in Seq(B)
  BY <1>2, <1>3
<1> QED
  BY <1>7, <1>8

LEMMA BatchHandedOver == PropertyInv /\ ~crossed /\ Property!HandOver => PropertyInv'
<1> SUFFICES ASSUME PropertyInv, ~crossed, Property!HandOver PROVE PropertyInv'
  OBVIOUS
<1>1. /\ reaper.stage = "read" /\ batch = <<>> /\ buffer' = [buffer EXCEPT ![last] = {}]
      /\ reaper' = [stage |-> "idle", batch |-> {}] /\ batch' \in Property!Arrangements(reaper.batch)
      /\ UNCHANGED <<mark, last, crossed, selected, waited, unsent, handler, seen, stored, gone,
                     faults>>
  BY DEF Property!HandOver, Property!Reaping
<1>2. /\ selected \in 0 .. 1 /\ buffer \in [0 .. 1 -> SUBSET B] /\ reaper \in Reaper
  BY DEF PropertyInv, PropertyTypes, Tables, Records
<1>3. reaper.batch \in SUBSET B /\ last \in 0 .. 1 /\ buffer[last] = reaper.batch
  BY <1>1, <1>2 DEF Reaper, PropertyInv, ReadAlone
<1>4. /\ buffer' \in [0 .. 1 -> SUBSET B] /\ \A b \in 0 .. 1 : b # last => buffer'[b] = buffer[b]
      /\ reaper' \in Reaper /\ reaper'.stage = "idle"
  BY <1>1, <1>2, <1>3 DEF Reaper
<1>5. batch' \in Seq(B) /\ \A r \in reaper.batch : \E i \in 1 .. Len(batch') : batch'[i] = r
  BY <1>1, <1>3, ArrangedWhole
<1>6. Tables' /\ Hands' /\ Records'
  BY <1>1, <1>4, <1>5 DEF PropertyInv, PropertyTypes, Tables, Hands, Records
<1>7. Aged' /\ ReadAlone'
  BY <1>1, <1>4 DEF PropertyInv, Aged, ReadAlone
<1>8. ASSUME NEW q \in B PROVE Held(q)'
  <2>1. Held(q) /\ ~\E i \in 1 .. Len(batch) : batch[i] = q
    BY <1>1 DEF PropertyInv, AllHeld
  <2>2. CASE q \in reaper.batch
    BY <1>5, <2>2 DEF Held
  <2>3. CASE \E b \in 0 .. 1 : q \in buffer[b] /\ q \notin reaper.batch
    BY <1>3, <1>4, <2>3 DEF Held
  <2> QED
    BY <1>1, <2>1, <2>2, <2>3 DEF Held
<1> QED
  BY <1>1, <1>6, <1>7, <1>8 DEF PropertyInv, PropertyTypes, AllHeld

\* What the thread of the database changes.
LEMMA Written ==
  ASSUME PropertyInv, Property!Writing, batch' = <<>>, stored' \subseteq B,
         gone' \subseteq B \X Why, faults' \in 0 .. FewFaults,
         stored \subseteq stored', gone \subseteq gone',
         \A i \in 1 .. Len(batch) : batch[i] \in stored' \/ \E g \in gone' : g[1] = batch[i]
  PROVE  PropertyInv'
<1>1. UNCHANGED <<selected, waited, buffer, mark, unsent, handler, seen, reaper, last, crossed>>
  BY DEF Property!Writing
<1>2. batch' \in Seq(B)
  OBVIOUS
<1>3. Tables' /\ Hands' /\ Records'
  BY <1>1, <1>2 DEF PropertyInv, PropertyTypes, Tables, Hands, Records
<1>4. Aged' /\ ReadAlone'
  BY <1>1 DEF PropertyInv, Aged, ReadAlone
<1>5. ASSUME NEW q \in B, Held(q) PROVE Held(q)'
  BY <1>1, <1>5 DEF Held
<1> QED
  BY <1>1, <1>3, <1>4, <1>5 DEF PropertyInv, PropertyTypes, AllHeld

LEMMA BatchWritten == PropertyInv /\ Property!insert2Db => PropertyInv'
<1> SUFFICES ASSUME PropertyInv, Property!insert2Db PROVE PropertyInv'
  OBVIOUS
<1>1. /\ batch' = <<>> /\ stored' = stored \cup {batch[n] : n \in 1 .. Len(batch)}
      /\ UNCHANGED <<gone, faults>> /\ Property!Writing
  BY DEF Property!insert2Db, Property!Records
<1>2. batch \in Seq(B) /\ stored \subseteq B /\ gone \subseteq B \X Why /\ faults \in 0 .. FewFaults
  BY DEF PropertyInv, PropertyTypes, Records
<1> QED
  BY <1>1, <1>2, Written

LEMMA BatchFails == PropertyInv /\ Property!insert2DbFails => PropertyInv'
<1> SUFFICES ASSUME PropertyInv, Property!insert2DbFails PROVE PropertyInv'
  OBVIOUS
<1>1. batch \in Seq(B) /\ stored \subseteq B /\ gone \subseteq B \X Why /\ faults \in 0 .. FewFaults
  BY DEF PropertyInv, PropertyTypes, Records
<1>2. faults' \in 0 .. FewFaults
  BY <1>1, ServicesAssumption DEF Property!insert2DbFails
<1>3. PICK k \in Property!Statements : \E skipped, rest, before, left :
        /\ skipped = Property!Records(Property!EndOf(k - 1) + 1, Property!Resumed(k))
        /\ rest = Property!Records(Property!Resumed(k) + 1, Len(batch))
        /\ before = Property!Records(1, Property!EndOf(k - 1))
        /\ left = gone \cup {<<r, "skipped">> : r \in skipped}
        /\ \/ stored' = stored \cup before \cup rest /\ gone' = left
           \/ stored' = stored \cup before /\ gone' = left \cup {<<r, "alarm">> : r \in rest}
  BY DEF Property!insert2DbFails
<1>4. PICK e, n, m : e = Property!EndOf(k - 1) /\ n = Property!Resumed(k) /\ m = Len(batch)
  OBVIOUS
<1>5. e \in 0 .. m /\ n \in 0 .. m /\ m \in Nat
  <2>1. \A x, y \in Nat : x * y \in Nat
    OBVIOUS
  <2>2. Property!PerStatement \in Nat
    BY ServicesAssumption DEF Property!PerStatement
  <2>3. k \in Nat /\ k - 1 \in Nat /\ m \in Nat
    BY <1>4 DEF Property!Statements
  <2>4. k * Property!PerStatement \in Nat /\ (k - 1) * Property!PerStatement \in Nat
    BY <2>1, <2>2, <2>3
  <2>5. e \in 0 .. m /\ Property!EndOf(k) \in Nat
    BY <1>4, <2>3, <2>4 DEF Property!EndOf
  <2>6. Values * Property!EndOf(k) \in Nat
    BY <2>1, <2>5, ServicesAssumption
  <2>7. n \in 0 .. m
    BY <1>4, <2>3, <2>6 DEF Property!Resumed
  <2> QED
    BY <2>3, <2>5, <2>7
<1>6. PICK skipped, rest, before :
        /\ skipped = {batch[i] : i \in e + 1 .. n} /\ rest = {batch[i] : i \in n + 1 .. m}
        /\ before = {batch[i] : i \in 1 .. e}
        /\ \/ /\ stored' = stored \cup before \cup rest
              /\ gone' = gone \cup {<<r, "skipped">> : r \in skipped}
           \/ /\ stored' = stored \cup before
              /\ gone' = gone \cup {<<r, "skipped">> : r \in skipped}
                              \cup {<<r, "alarm">> : r \in rest}
  BY <1>3, <1>4 DEF Property!Records
<1>7. skipped \subseteq B /\ rest \subseteq B /\ before \subseteq B
  <2>1. \A i : i \in e + 1 .. n \/ i \in n + 1 .. m \/ i \in 1 .. e => i \in 1 .. m
    BY <1>5
  <2> QED
    BY <1>1, <1>4, <1>6, <2>1
<1>8. \A i \in 1 .. m : batch[i] \in skipped \cup rest \cup before
  <2>1. \A i \in 1 .. m : i \in e + 1 .. n \/ i \in n + 1 .. m \/ i \in 1 .. e
    BY <1>5
  <2> QED
    BY <1>6, <2>1
<1>9. stored' \subseteq B /\ stored \subseteq stored' /\ before \subseteq stored'
  BY <1>1, <1>6, <1>7
<1>10. gone' \subseteq B \X Why /\ gone \subseteq gone'
  BY <1>1, <1>6, <1>7 DEF Why
<1>11. \A r \in skipped \cup rest : r \in stored' \/ \E g \in gone' : g[1] = r
  <2>1. \A r \in skipped : <<r, "skipped">> \in gone'
    BY <1>6
  <2>2. \A r \in rest : r \in stored' \/ <<r, "alarm">> \in gone'
    BY <1>6
  <2>3. \A r, why : <<r, why>>[1] = r
    OBVIOUS
  <2> QED
    BY <2>1, <2>2, <2>3
<1>12. Property!Writing /\ batch' = <<>>
  BY DEF Property!insert2DbFails
<1> QED
  BY <1>2, <1>4, <1>8, <1>9, <1>10, <1>11, <1>12, Written

LEMMA PropertyTick == PropertyInv /\ ~crossed /\ Property!Tick => PropertyInv'
<1> SUFFICES ASSUME PropertyInv, ~crossed, Property!Tick PROVE PropertyInv'
  OBVIOUS
<1>1. /\ \A h \in A : handler[h].stage # "idle" => handler[h].since < Grace - 1
      /\ waited' = Property!Older(waited, SwitchInterval)
      /\ mark' = [b \in 0 .. 1 |-> [h \in A |-> Property!Aged(mark[b][h])]]
      /\ handler' = [h \in A |-> IF handler[h].stage = "idle" THEN handler[h]
                                 ELSE [handler[h] EXCEPT !.since = @ + 1]]
      /\ UNCHANGED <<selected, buffer, unsent, seen, reaper, last, batch, stored, gone, crossed,
                     faults>>
  BY DEF Property!Tick, Property!Buffer
<1>2. /\ selected \in 0 .. 1 /\ waited \in 0 .. SwitchInterval
      /\ mark \in [0 .. 1 -> [A -> Mark]]
  BY DEF PropertyInv, PropertyTypes, Tables
<1>3. waited' \in 0 .. SwitchInterval
  BY <1>1, <1>2, ServicesAssumption DEF Property!Older
<1>4. ASSUME NEW b \in 0 .. 1, NEW h \in A
      PROVE  /\ mark'[b][h] \in Mark /\ mark'[b][h].left = mark[b][h].left
             /\ mark'[b][h].round = mark[b][h].round
             /\ mark[b][h].left => mark'[b][h].age <= mark[b][h].age + 1
  <2>1. PICK m \in Mark : m = mark[b][h]
    BY <1>2
  <2>2. PICK older : older = IF m.left THEN Property!Older(m.age, Grace) ELSE m.age
    OBVIOUS
  <2>3. older \in 0 .. Grace /\ (m.left => older <= m.age + 1)
    <3>1. m.age \in 0 .. Grace
      BY <2>1 DEF Mark
    <3> QED
      BY <2>2, <3>1, ServicesAssumption DEF Property!Older
  <2>4. PICK n : n = [m EXCEPT !.age = older]
    OBVIOUS
  <2>5. n \in Mark /\ n.left = m.left /\ n.round = m.round /\ n.age = older
    BY <2>1, <2>3, <2>4 DEF Mark
  <2>6. mark'[b][h] = n
    BY <1>1, <2>1, <2>2, <2>4 DEF Property!Aged
  <2> QED
    BY <2>1, <2>3, <2>5, <2>6
<1>5. ASSUME NEW h \in A
      PROVE  /\ handler'[h] \in Hand /\ handler'[h].stage = handler[h].stage
             /\ handler'[h].index = handler[h].index /\ handler'[h].report = handler[h].report
             /\ handler[h].stage = "chosen" => handler'[h].since = handler[h].since + 1
  <2>1. CASE handler[h].stage = "idle"
    BY <1>1, <2>1, HandFields
  <2>2. CASE handler[h].stage # "idle"
    <3>1. PICK o : o = handler[h] /\ o \in Hand
      BY HandFields
    <3>2. o.since + 1 \in 0 .. Grace - 1
      BY <1>1, <2>2, <3>1, HandFields, ServicesAssumption
    <3>3. PICK n : n = [o EXCEPT !.since = o.since + 1]
      OBVIOUS
    <3>4. /\ n \in Hand /\ n.stage = o.stage /\ n.index = o.index /\ n.report = o.report
          /\ n.since = o.since + 1
      BY <2>2, <3>1, <3>2, <3>3 DEF Hand, Property!AtRest
    <3> QED
      BY <1>1, <2>2, <3>1, <3>3, <3>4
  <2> QED
    BY <2>1, <2>2
<1>6. mark' \in [0 .. 1 -> [A -> Mark]] /\ handler' \in [A -> Hand]
  BY <1>1, <1>4, <1>5
<1>7. Tables' /\ Hands' /\ Records'
  BY <1>1, <1>3, <1>6 DEF PropertyInv, PropertyTypes, Tables, Hands, Records
<1>8. Aged'
  <2>1. ASSUME NEW g \in A, NEW h \in A, handler'[g].stage = "chosen",
               handler'[g].index = 1 - selected,
               mark'[1 - selected][h].left, mark'[1 - selected][h].round
        PROVE  mark'[1 - selected][h].age <= handler'[g].since
    <3>1. PICK b \in 0 .. 1 : b = 1 - selected
      BY <1>2
    <3>2. mark[b][h].left /\ mark[b][h].round /\ mark'[b][h].age <= mark[b][h].age + 1
      BY <1>4, <2>1, <3>1
    <3>3. handler[g].stage = "chosen" /\ handler[g].index = b
      BY <1>5, <2>1, <3>1
    <3>4. mark[b][h].age <= handler[g].since
      BY <3>1, <3>2, <3>3 DEF PropertyInv, Aged
    <3>5. handler'[g].since = handler[g].since + 1 /\ handler[g].since \in Int
      BY <1>5, <3>3, HandFields
    <3>6. mark[b][h].age \in Int /\ mark'[b][h].age \in Int
      BY <1>2, <1>4 DEF Mark
    <3> QED
      BY <3>1, <3>2, <3>4, <3>5, <3>6
  <2> QED
    BY <1>1, <2>1 DEF Aged
<1>9. ReadAlone'
  BY <1>1, <1>5 DEF PropertyInv, ReadAlone
<1>10. ASSUME NEW q \in B PROVE Held(q)'
  BY <1>1, <1>5 DEF PropertyInv, AllHeld, Held
<1> QED
  BY <1>1, <1>7, <1>8, <1>9, <1>10 DEF PropertyInv, PropertyTypes, AllHeld

LEMMA PropertyStep == PropertyInv /\ ~crossed /\ Property!Next => PropertyInv'
BY RecordTaken, RecordAdded, TableRead, BatchHandedOver, BatchWritten, BatchFails, PropertyTick
DEF Property!Next

LEMMA PropertyRest == PropertyInv /\ UNCHANGED <<propertyVars, crossed, faults>> => PropertyInv'
<1> SUFFICES ASSUME PropertyInv, UNCHANGED <<propertyVars, crossed, faults>> PROVE PropertyInv'
  OBVIOUS
<1> USE DEF propertyVars
<1>1. PropertyTypes'
  BY DEF PropertyInv, PropertyTypes, Tables, Hands, Records
<1>2. Aged' /\ ReadAlone'
  BY DEF PropertyInv, Aged, ReadAlone
<1>3. AllHeld'
  BY DEF PropertyInv, AllHeld, Held
<1> QED
  BY <1>1, <1>2, <1>3 DEF PropertyInv

-----------------------------------------------------------------------------
(***************************************************************************)
(* Induction: sums over finite sets, and lists joined                      *)
(***************************************************************************)
\* Induction over the finite sets, for a set of them that is good.
LEMMA SubsetInduction ==
  ASSUME NEW S, IsFiniteSet(S), NEW Good,
         \A T \in SUBSET S : (\A x \in T : T \ {x} \in Good) => T \in Good
  PROVE  SUBSET S \subseteq Good
<1> DEFINE Bad == {T \in SUBSET S : T \notin Good}
<1>1. SUFFICES ASSUME Bad # {} PROVE FALSE
  OBVIOUS
<1>2. IsWellFoundedOn(StrictSubsetOrdering(S), SUBSET S)
  BY FS_StrictSubsetOrderingWellFounded, FS_FiniteSubsetsOfFinite
<1>3. Bad \subseteq SUBSET S
  OBVIOUS
<1> HIDE DEF Bad
<1>4. PICK T \in Bad : \A U \in Bad : ~(<<U, T>> \in StrictSubsetOrdering(S))
  BY <1>1, <1>2, <1>3, WFMin
<1>5. \A x \in T : T \ {x} \in Good
  <2>1. SUFFICES ASSUME NEW x \in T, T \ {x} \notin Good PROVE FALSE
    OBVIOUS
  <2>2. T \in SUBSET S /\ T \ {x} \in SUBSET S /\ T \ {x} \in Bad /\ T \ {x} # T
    BY <1>3, <1>4, <2>1 DEF Bad
  <2>3. <<T \ {x}, T>> \in StrictSubsetOrdering(S)
    BY <2>2 DEF StrictSubsetOrdering
  <2> QED
    BY <1>4, <2>2, <2>3
<1> QED
  BY <1>4, <1>5 DEF Bad

\* What a sum over sets is computed by: g is the function that SumFunctionOnSet
\* chooses, of the subsets of a set.
AddedUp(w, g, s) == w[CHOOSE x \in s : TRUE] + g[s \ {CHOOSE x \in s : TRUE}]
Sums(w, g, S) == g = [s \in SUBSET S |-> IF s = {} THEN 0 ELSE AddedUp(w, g, s)]

LEMMA SumsAgree ==
  ASSUME NEW S, NEW T, NEW w, NEW g, NEW h, IsFiniteSet(S), T \subseteq S,
         Sums(w, g, S), Sums(w, h, T)
  PROVE  \A s \in SUBSET T : h[s] = g[s]
<1> DEFINE Good == {s \in SUBSET T : h[s] = g[s]}
<1>1. IsFiniteSet(T)
  BY FS_Subset, T \in SUBSET S
<1>2. ASSUME NEW s \in SUBSET T, \A x \in s : s \ {x} \in Good PROVE s \in Good
  <2>1. g[s] = IF s = {} THEN 0 ELSE AddedUp(w, g, s)
    BY DEF Sums
  <2>2. h[s] = IF s = {} THEN 0 ELSE AddedUp(w, h, s)
    BY DEF Sums
  <2>3. CASE s = {}
    BY <2>1, <2>2, <2>3
  <2>4. CASE s # {}
    <3>1. PICK x : x = CHOOSE y \in s : TRUE
      OBVIOUS
    <3>2. x \in s
      BY <2>4, <3>1
    <3>3. h[s \ {x}] = g[s \ {x}]
      BY <1>2, <3>2
    <3> QED
      BY <2>1, <2>2, <2>4, <3>1, <3>3 DEF AddedUp
  <2> QED
    BY <2>3, <2>4
<1> HIDE DEF Good
<1>3. SUBSET T \subseteq Good
  BY <1>1, <1>2, SubsetInduction
<1> QED
  BY <1>3 DEF Good

LEMMA SumsMeet ==
  \A S, T, w, g, h : IsFiniteSet(S) /\ T \subseteq S /\ Sums(w, g, S) /\ Sums(w, h, T)
    => h[T] = g[T]
BY SumsAgree

LEMMA SumsExist ==
  ASSUME NEW S, IsFiniteSet(S), NEW w
  PROVE  \E g : Sums(w, g, S)
<1> DEFINE Good == {T \in SUBSET S : \E g : Sums(w, g, T)}
<1>1. ASSUME NEW T \in SUBSET S, \A x \in T : T \ {x} \in Good PROVE T \in Good
  <2> DEFINE of(x) == CHOOSE g : Sums(w, g, T \ {x})
             less(s) == CHOOSE x : x \in T \ s
             old(s) == of(less(s))[s]
             value(s) == IF s # T THEN old(s)
                         ELSE IF T = {} THEN 0
                         ELSE w[CHOOSE x \in T : TRUE] + old(T \ {CHOOSE x \in T : TRUE})
             g == [s \in SUBSET T |-> value(s)]
  <2>1. IsFiniteSet(T)
    BY FS_Subset
  <2>2. \A x \in T : Sums(w, of(x), T \ {x})
    BY <1>1
  <2>3. \A s \in SUBSET T : s # T => less(s) \in T \ s
    OBVIOUS
  <2> HIDE DEF of, less
  <2>4. ASSUME NEW s \in SUBSET T, s # T, NEW x \in T \ s PROVE of(x)[s] = old(s)
    <3>1. PICK z \in T \ s : z = less(s)
      BY <2>3, <2>4
    <3>2. PICK h : Sums(w, h, s)
      <4>1. Sums(w, of(x), T \ {x}) /\ s \in SUBSET (T \ {x})
        BY <2>2
      <4>2. PICK f : f = of(x)
        OBVIOUS
      <4>3. Sums(w, [u \in SUBSET s |-> f[u]], s)
        <5> DEFINE r == [u \in SUBSET s |-> f[u]]
        <5>1. ASSUME NEW u \in SUBSET s
              PROVE  f[u] = IF u = {} THEN 0 ELSE AddedUp(w, r, u)
          <6>1. f[u] = IF u = {} THEN 0 ELSE AddedUp(w, f, u)
            BY <4>1, <4>2 DEF Sums
          <6>2. u \ {CHOOSE y \in u : TRUE} \in SUBSET s
            OBVIOUS
          <6> QED
            BY <6>1, <6>2 DEF AddedUp
        <5>2. r = [u \in SUBSET s |-> IF u = {} THEN 0 ELSE AddedUp(w, r, u)]
          BY <5>1
        <5> QED
          BY <5>2 DEF Sums
      <4> QED
        BY <4>3
    <3>3. h[s] = of(x)[s]
      <4>1. PICK f, U, v : f = of(x) /\ U = T \ {x} /\ v = s
        OBVIOUS
      <4>2. v \subseteq U /\ IsFiniteSet(U) /\ Sums(w, f, U) /\ Sums(w, h, v)
        BY <2>1, <2>2, <3>1, <3>2, <4>1, FS_RemoveElement
      <4>3. h[v] = f[v]
        BY <4>2, SumsMeet
      <4> QED
        BY <4>1, <4>3
    <3>4. h[s] = of(z)[s]
      <4>1. PICK f, U, v : f = of(z) /\ U = T \ {z} /\ v = s
        OBVIOUS
      <4>2. v \subseteq U /\ IsFiniteSet(U) /\ Sums(w, f, U) /\ Sums(w, h, v)
        BY <2>1, <2>2, <3>1, <3>2, <4>1, FS_RemoveElement
      <4>3. h[v] = f[v]
        BY <4>2, SumsMeet
      <4> QED
        BY <4>1, <4>3
    <3> QED
      BY <3>1, <3>3, <3>4
  <2>5. ASSUME NEW s \in SUBSET T PROVE value(s) = IF s = {} THEN 0 ELSE AddedUp(w, g, s)
    <3>1. CASE s = T
      <4>1. CASE T = {}
        BY <3>1, <4>1
      <4>2. CASE T # {}
        <5>1. PICK c : c = CHOOSE x \in T : TRUE
          OBVIOUS
        <5>2. c \in T /\ T \ {c} \in SUBSET T /\ T \ {c} # T
          BY <4>2, <5>1
        <5>3. g[T \ {c}] = old(T \ {c})
          BY <5>2
        <5>4. value(T) = w[c] + old(T \ {c})
          BY <4>2, <5>1
        <5> HIDE DEF g, old, value
        <5> QED
          BY <3>1, <4>2, <5>1, <5>3, <5>4 DEF AddedUp
      <4> QED
        BY <4>1, <4>2
    <3>2. CASE s # T
      <4>1. PICK x \in T \ s : x = less(s)
        BY <2>3, <3>2
      <4>2. value(s) = of(x)[s]
        BY <3>2, <4>1
      <4>3. of(x)[s] = IF s = {} THEN 0 ELSE AddedUp(w, of(x), s)
        <5>1. PICK f : f = of(x)
          OBVIOUS
        <5>2. Sums(w, f, T \ {x}) /\ s \in SUBSET (T \ {x})
          BY <2>2, <4>1, <5>1
        <5>3. f[s] = IF s = {} THEN 0 ELSE AddedUp(w, f, s)
          BY <5>2 DEF Sums
        <5> QED
          BY <5>1, <5>3
      <4>4. CASE s = {}
        BY <4>2, <4>3, <4>4
      <4>5. CASE s # {}
        <5>1. PICK c : c = CHOOSE y \in s : TRUE
          OBVIOUS
        <5>2. c \in s /\ s \ {c} \in SUBSET T /\ s \ {c} # T /\ x \in T \ (s \ {c})
          BY <4>5, <5>1
        <5>3. g[s \ {c}] = old(s \ {c})
          BY <5>2
        <5>4. of(x)[s \ {c}] = old(s \ {c})
          BY <2>4, <5>2
        <5> HIDE DEF g, old, value
        <5> QED
          BY <4>2, <4>3, <4>5, <5>1, <5>3, <5>4 DEF AddedUp
      <4> QED
        BY <4>4, <4>5
    <3> QED
      BY <3>1, <3>2
  <2>6. g = [s \in SUBSET T |-> IF s = {} THEN 0 ELSE AddedUp(w, g, s)]
    <3>1. g = [s \in SUBSET T |-> value(s)]
      OBVIOUS
    <3> HIDE DEF g, value
    <3> QED
      BY <2>5, <3>1
  <2> HIDE DEF g
  <2>7. Sums(w, g, T)
    BY <2>6 DEF Sums
  <2> QED
    BY <2>7
<1> HIDE DEF Good
<1>2. SUBSET S \subseteq Good
  BY <1>1, SubsetInduction
<1>3. S \in Good
  BY <1>2
<1> QED
  BY <1>3 DEF Good
LEMMA SumIs ==
  ASSUME NEW S, IsFiniteSet(S), NEW w
  PROVE  \E g : Sums(w, g, S) /\ \A T : T \subseteq S => SumFunctionOnSet(w, T) = g[T]
<1> DEFINE It(T) == CHOOSE g : Sums(w, g, T)
<1>1. \A T : SumFunctionOnSet(w, T) = It(T)[T]
  BY DEF SumFunctionOnSet, FoldFunctionOnSet, MapThenFoldSet, Sums, AddedUp
<1>2. \A T : IsFiniteSet(T) => Sums(w, It(T), T)
  BY SumsExist
<1> HIDE DEF It
<1>3. ASSUME NEW T, T \subseteq S PROVE It(T)[T] = It(S)[T]
  <2>1. IsFiniteSet(T)
    BY <1>3, FS_Subset
  <2> QED
    BY <1>2, <1>3, <2>1, SumsMeet
<1> QED
  BY <1>1, <1>2, <1>3

LEMMA SumOfNone ==
  \A w : SumFunctionOnSet(w, {}) = 0
<1> SUFFICES ASSUME NEW w PROVE SumFunctionOnSet(w, {}) = 0
  OBVIOUS
<1>1. PICK g : Sums(w, g, {}) /\ SumFunctionOnSet(w, {}) = g[{}]
  BY SumIs, FS_EmptySet
<1> QED
  BY <1>1 DEF Sums

LEMMA SumChosen ==
  ASSUME NEW S, IsFiniteSet(S), S # {}, NEW w
  PROVE  \E x \in S : SumFunctionOnSet(w, S) = w[x] + SumFunctionOnSet(w, S \ {x})
<1>1. PICK g : Sums(w, g, S) /\ \A T : T \subseteq S => SumFunctionOnSet(w, T) = g[T]
  BY SumIs
<1>2. PICK x \in S : x = CHOOSE y \in S : TRUE
  OBVIOUS
<1>3. g[S] = w[x] + g[S \ {x}]
  BY <1>1, <1>2 DEF Sums, AddedUp
<1> QED
  BY <1>1, <1>3

LEMMA SumIsNat ==
  ASSUME NEW S, IsFiniteSet(S), NEW w, \A x \in S : w[x] \in Nat
  PROVE  SumFunctionOnSet(w, S) \in Nat
<1> DEFINE Good == {T \in SUBSET S : SumFunctionOnSet(w, T) \in Nat}
<1>1. ASSUME NEW T \in SUBSET S, \A x \in T : T \ {x} \in Good PROVE T \in Good
  <2>1. IsFiniteSet(T)
    BY FS_Subset
  <2>2. CASE T = {}
    BY <2>2, SumOfNone
  <2>3. CASE T # {}
    <3>1. PICK x \in T : SumFunctionOnSet(w, T) = w[x] + SumFunctionOnSet(w, T \ {x})
      BY <2>1, <2>3, SumChosen
    <3>2. w[x] \in Nat /\ SumFunctionOnSet(w, T \ {x}) \in Nat
      BY <1>1
    <3> QED
      BY <3>1, <3>2
  <2> QED
    BY <2>2, <2>3
<1> HIDE DEF Good
<1>2. SUBSET S \subseteq Good
  BY <1>1, SubsetInduction
<1>3. S \in Good
  BY <1>2
<1> QED
  BY <1>3 DEF Good

LEMMA SumSplit ==
  ASSUME NEW S, IsFiniteSet(S), NEW w, \A x \in S : w[x] \in Nat
  PROVE  \A x \in S : SumFunctionOnSet(w, S) = w[x] + SumFunctionOnSet(w, S \ {x})
<1> DEFINE total(T) == SumFunctionOnSet(w, T)
           Good == {T \in SUBSET S : \A x \in T : total(T) = w[x] + total(T \ {x})}
<1>1. ASSUME NEW T \in SUBSET S, \A x \in T : T \ {x} \in Good PROVE T \in Good
  <2>1. IsFiniteSet(T) /\ \A U : U \subseteq T => total(U) \in Nat
    <3>1. IsFiniteSet(T) /\ \A U : U \subseteq T => IsFiniteSet(U)
      BY FS_Subset
    <3> QED
      BY <3>1, SumIsNat
  <2>2. ASSUME NEW x \in T PROVE total(T) = w[x] + total(T \ {x})
    <3>1. PICK c \in T : total(T) = w[c] + total(T \ {c})
      BY <2>1, <2>2, SumChosen
    <3>2. CASE c # x
      <4>1. x \in T \ {c} /\ c \in T \ {x} /\ T \ {c} \in Good /\ T \ {x} \in Good
        BY <1>1, <3>2
      <4>2. (T \ {c}) \ {x} = (T \ {x}) \ {c}
        OBVIOUS
      <4>3. total(T \ {c}) = w[x] + total((T \ {x}) \ {c})
        BY <4>1, <4>2
      <4>4. total(T \ {x}) = w[c] + total((T \ {x}) \ {c})
        BY <4>1
      <4>5. w[x] \in Nat /\ w[c] \in Nat
        OBVIOUS
      <4>6. total(T) \in Nat /\ total(T \ {x}) \in Nat /\ total(T \ {c}) \in Nat
            /\ total((T \ {x}) \ {c}) \in Nat
        BY <2>1
      <4> HIDE DEF total
      <4> QED
        BY <3>1, <4>3, <4>4, <4>5, <4>6
    <3> QED
      BY <3>1, <3>2
  <2> QED
    BY <2>2
<1> HIDE DEF Good
<1>2. SUBSET S \subseteq Good
  BY <1>1, SubsetInduction
<1>3. S \in Good
  BY <1>2
<1> QED
  BY <1>3 DEF Good

LEMMA SumGrows ==
  ASSUME NEW S, IsFiniteSet(S), NEW w, \A x \in S : w[x] \in Nat, NEW U, U \subseteq S
  PROVE  SumFunctionOnSet(w, U) <= SumFunctionOnSet(w, S)
<1> DEFINE total(T) == SumFunctionOnSet(w, T)
           Good == {T \in SUBSET S : U \subseteq T => total(U) <= total(T)}
<1>0. \A T : T \subseteq S => IsFiniteSet(T) /\ total(T) \in Nat
  <2>1. \A T : T \subseteq S => IsFiniteSet(T)
    BY FS_Subset
  <2> QED
    BY <2>1, SumIsNat
<1>1. ASSUME NEW T \in SUBSET S, \A x \in T : T \ {x} \in Good PROVE T \in Good
  <2>1. SUFFICES ASSUME U \subseteq T PROVE total(U) <= total(T)
    OBVIOUS
  <2>2. CASE U = T
    BY <1>0, <2>2
  <2>3. CASE U # T
    <3>1. PICK x \in T : x \notin U
      BY <2>1, <2>3
    <3>2. total(U) <= total(T \ {x})
      BY <1>1, <2>1, <3>1
    <3>3. total(T) = w[x] + total(T \ {x})
      BY <1>0, SumSplit
    <3>4. w[x] \in Nat /\ total(U) \in Nat /\ total(T \ {x}) \in Nat
      BY <1>0
    <3> HIDE DEF total
    <3> QED
      BY <3>2, <3>3, <3>4
  <2> QED
    BY <2>2, <2>3
<1> HIDE DEF Good
<1>2. SUBSET S \subseteq Good
  BY <1>1, SubsetInduction
<1>3. S \in Good
  BY <1>2
<1> QED
  BY <1>3 DEF Good

LEMMA SumSame ==
  ASSUME NEW S, IsFiniteSet(S), NEW v, NEW w, \A x \in S : v[x] = w[x]
  PROVE  SumFunctionOnSet(v, S) = SumFunctionOnSet(w, S)
<1> DEFINE Good == {T \in SUBSET S : SumFunctionOnSet(v, T) = SumFunctionOnSet(w, T)}
<1>1. PICK g : Sums(w, g, S) /\ \A T : T \subseteq S => SumFunctionOnSet(w, T) = g[T]
  BY SumIs
<1>2. PICK h : Sums(v, h, S) /\ \A T : T \subseteq S => SumFunctionOnSet(v, T) = h[T]
  BY SumIs
<1>3. Sums(w, h, S)
  <2>1. ASSUME NEW s \in SUBSET S PROVE h[s] = IF s = {} THEN 0 ELSE AddedUp(w, h, s)
    <3>1. h[s] = IF s = {} THEN 0 ELSE AddedUp(v, h, s)
      BY <1>2 DEF Sums
    <3>2. CASE s # {}
      <4>1. PICK x \in s : x = CHOOSE y \in s : TRUE
        BY <3>2
      <4> QED
        BY <3>1, <3>2, <4>1 DEF AddedUp
    <3> QED
      BY <3>1, <3>2
  <2>2. h = [s \in SUBSET S |-> h[s]]
    BY <1>2 DEF Sums
  <2> QED
    BY <2>1, <2>2 DEF Sums
<1>4. h[S] = g[S]
  BY <1>1, <1>3, SumsMeet
<1> QED
  BY <1>1, <1>2, <1>4

\* One more for one of them is one more for all.
LEMMA SumBump ==
  ASSUME NEW S, IsFiniteSet(S), NEW w, \A x \in S : w[x] \in Nat, NEW n, n \in DOMAIN w
  PROVE  SumFunctionOnSet([w EXCEPT ![n] = @ + 1], S)
           = SumFunctionOnSet(w, S) + IF n \in S THEN 1 ELSE 0
<1>1. PICK v : v = [w EXCEPT ![n] = @ + 1]
  OBVIOUS
<1>2. \A x : x \in DOMAIN w /\ x # n => v[x] = w[x]
  BY <1>1
<1>3. v[n] = w[n] + 1
  BY <1>1
<1>4. \A x \in S : x # n => v[x] = w[x]
  BY <1>1
<1>5. CASE n \in S
  <2>1. IsFiniteSet(S \ {n})
    BY FS_RemoveElement
  <2>2. \A x \in S : v[x] \in Nat
    BY <1>3, <1>4
  <2>3. SumFunctionOnSet(v, S) = v[n] + SumFunctionOnSet(v, S \ {n})
    BY <1>5, <2>2, SumSplit
  <2>4. SumFunctionOnSet(w, S) = w[n] + SumFunctionOnSet(w, S \ {n})
    BY <1>5, SumSplit
  <2>5. SumFunctionOnSet(v, S \ {n}) = SumFunctionOnSet(w, S \ {n})
    BY <1>4, <2>1, SumSame
  <2>6. SumFunctionOnSet(w, S \ {n}) \in Nat /\ w[n] \in Nat
    BY <1>5, <2>1, SumIsNat
  <2> QED
    BY <1>1, <1>3, <1>5, <2>3, <2>4, <2>5, <2>6
<1>6. CASE n \notin S
  <2>1. SumFunctionOnSet(v, S) = SumFunctionOnSet(w, S)
    BY <1>4, <1>6, SumSame
  <2>2. SumFunctionOnSet(w, S) \in Nat
    BY SumIsNat
  <2> QED
    BY <1>1, <1>6, <2>1, <2>2
<1> QED
  BY <1>5, <1>6

\* Induction over the numbers, for a set of them that is good.
LEMMA NumberInduction ==
  ASSUME NEW Good, 0 \in Good, \A n \in Nat : n \in Good => n + 1 \in Good
  PROVE  \A n \in Nat : n \in Good
<1> DEFINE Bad == {n \in Nat : n \notin Good}
<1>1. SUFFICES ASSUME Bad # {} PROVE FALSE
  OBVIOUS
<1>2. IsWellFoundedOn(OpToRel(<, Nat), Nat)
  BY NatLessThanWellFounded
<1>3. Bad \subseteq Nat
  OBVIOUS
<1> HIDE DEF Bad
<1>4. PICK n \in Bad : \A m \in Bad : ~(<<m, n>> \in OpToRel(<, Nat))
  BY <1>1, <1>2, <1>3, WFMin
<1>5. n \in Nat /\ n \notin Good
  BY <1>4 DEF Bad
<1>6. n # 0 /\ n - 1 \in Nat /\ n - 1 < n /\ (n - 1) + 1 = n
  BY <1>5
<1>7. n - 1 \in Bad
  BY <1>5, <1>6 DEF Bad
<1>8. <<n - 1, n>> \in OpToRel(<, Nat)
  BY <1>5, <1>6 DEF OpToRel
<1> QED
  BY <1>4, <1>7, <1>8

\* What FlattenSeq is computed by, of the first n.
Joins(s, n, g) == g = [i \in 1 .. n |-> IF i = 1 THEN s[i] ELSE g[i - 1] \o s[i]]

LEMMA JoinsExist ==
  ASSUME NEW s
  PROVE  \A n \in Nat : \E g : Joins(s, n, g)
<1> DEFINE Good == {n \in Nat : \E g : Joins(s, n, g)}
<1>1. 0 \in Good
  <2> DEFINE g == [i \in 1 .. 0 |-> i]
  <2>1. g = [i \in 1 .. 0 |-> IF i = 1 THEN s[i] ELSE g[i - 1] \o s[i]]
    OBVIOUS
  <2> HIDE DEF g
  <2>2. Joins(s, 0, g)
    BY <2>1 DEF Joins
  <2> QED
    BY <2>2
<1>2. ASSUME NEW n \in Nat, n \in Good PROVE n + 1 \in Good
  <2>1. PICK f : Joins(s, n, f)
    BY <1>2
  <2> DEFINE value(i) == IF i <= n THEN f[i] ELSE IF i = 1 THEN s[i] ELSE f[i - 1] \o s[i]
             g == [i \in 1 .. n + 1 |-> value(i)]
  <2>2. ASSUME NEW i \in 1 .. n + 1
        PROVE  value(i) = IF i = 1 THEN s[i] ELSE g[i - 1] \o s[i]
    <3>1. CASE i = 1
      <4>1. i <= n => f[i] = s[i]
        BY <2>1, <3>1 DEF Joins
      <4> QED
        BY <3>1, <4>1
    <3>2. CASE i # 1
      <4>1. i - 1 \in 1 .. n + 1 /\ i - 1 <= n
        BY <3>2
      <4>2. g[i - 1] = f[i - 1]
        BY <4>1
      <4>3. i <= n => f[i] = f[i - 1] \o s[i]
        <5>1. i <= n => i \in 1 .. n
          OBVIOUS
        <5>2. \A j \in 1 .. n : f[j] = IF j = 1 THEN s[j] ELSE f[j - 1] \o s[j]
          BY <2>1 DEF Joins
        <5> QED
          BY <3>2, <5>1, <5>2
      <4> HIDE DEF g
      <4> QED
        BY <3>2, <4>2, <4>3
    <3> QED
      BY <3>1, <3>2
  <2>3. g = [i \in 1 .. n + 1 |-> value(i)]
    OBVIOUS
  <2> HIDE DEF g, value
  <2>4. Joins(s, n + 1, g)
    BY <2>2, <2>3 DEF Joins
  <2> QED
    BY <2>4
<1> HIDE DEF Good
<1>3. \A n \in Nat : n \in Good
  BY <1>1, <1>2, NumberInduction
<1> QED
  BY <1>3 DEF Good

LEMMA JoinsAgree ==
  ASSUME NEW s, NEW t, NEW m \in Nat, NEW n \in Nat, n <= m, NEW f, NEW g,
         Joins(s, m, f), Joins(t, n, g), \A i \in 1 .. n : t[i] = s[i]
  PROVE  \A i \in 1 .. n : g[i] = f[i]
<1> DEFINE Good == {k \in Nat : k \in 1 .. n => g[k] = f[k]}
<1>1. 0 \in Good
  OBVIOUS
<1>2. ASSUME NEW k \in Nat, k \in Good PROVE k + 1 \in Good
  <2>1. SUFFICES ASSUME k + 1 \in 1 .. n PROVE g[k + 1] = f[k + 1]
    OBVIOUS
  <2>2. k + 1 \in 1 .. m /\ (k + 1) - 1 = k /\ (k + 1 # 1 => k \in 1 .. n)
    BY <2>1
  <2>3. f[k + 1] = IF k + 1 = 1 THEN s[k + 1] ELSE f[k] \o s[k + 1]
    BY <2>2 DEF Joins
  <2>4. g[k + 1] = IF k + 1 = 1 THEN t[k + 1] ELSE g[k] \o t[k + 1]
    BY <2>1, <2>2 DEF Joins
  <2>5. t[k + 1] = s[k + 1]
    BY <2>1
  <2>6. k + 1 # 1 => g[k] = f[k]
    BY <1>2, <2>2
  <2> QED
    BY <2>3, <2>4, <2>5, <2>6
<1> HIDE DEF Good
<1>3. \A k \in Nat : k \in Good
  BY <1>1, <1>2, NumberInduction
<1> QED
  BY <1>3 DEF Good

Flat(s) == Config!F!FlattenSeq(s)

LEMMA FlatIs ==
  ASSUME NEW s, NEW n \in Nat, n # 0, Len(s) = n
  PROVE  \E g : Joins(s, n, g) /\ Flat(s) = g[n]
<1> DEFINE g == CHOOSE f : Joins(s, n, f)
<1>1. Joins(s, n, g)
  BY JoinsExist
<1>2. Flat(s) = g[n]
  BY DEF Flat, Config!F!FlattenSeq, Joins
<1> HIDE DEF g
<1> QED
  BY <1>1, <1>2
LEMMA FlatOfNone ==
  ASSUME NEW e
  PROVE  Flat([i \in 1 .. 0 |-> e[i]]) = <<>>
<1>1. PICK s : s = [i \in 1 .. 0 |-> e[i]]
  OBVIOUS
<1>2. s = <<>> /\ Len(s) = 0
  BY <1>1
<1> QED
  BY <1>1, <1>2 DEF Flat, Config!F!FlattenSeq

LEMMA FlatNext ==
  ASSUME NEW X, NEW e, NEW n \in Nat, \A i \in 1 .. n + 1 : e[i] \in Seq(X)
  PROVE  Flat([i \in 1 .. n + 1 |-> e[i]]) = Flat([i \in 1 .. n |-> e[i]]) \o e[n + 1]
<1>1. PICK s : s = [i \in 1 .. n + 1 |-> e[i]]
  OBVIOUS
<1>2. PICK t : t = [i \in 1 .. n |-> e[i]]
  OBVIOUS
<1>3. Len(s) = n + 1 /\ Len(t) = n
  <2>1. s \in Seq(Seq(X)) /\ t \in Seq(Seq(X))
    BY <1>1, <1>2
  <2> QED
    BY <1>1, <1>2, <2>1
<1>4. PICK f : Joins(s, n + 1, f) /\ Flat(s) = f[n + 1]
  BY <1>3, FlatIs
<1>5. CASE n = 0
  <2>1. Flat(t) = <<>>
    BY <1>2, <1>5, FlatOfNone
  <2>2. f[1] = s[1] /\ s[1] = e[1]
    BY <1>1, <1>4, <1>5 DEF Joins
  <2>3. e[1] \in Seq(X)
    BY <1>5
  <2>4. <<>> \o e[1] = e[1]
    BY <2>3, ConcatEmptySeq
  <2> QED
    BY <1>1, <1>2, <1>4, <1>5, <2>1, <2>2, <2>4
<1>6. CASE n # 0
  <2>1. PICK g : Joins(t, n, g) /\ Flat(t) = g[n]
    BY <1>3, <1>6, FlatIs
  <2>2. \A i \in 1 .. n : t[i] = s[i]
    BY <1>1, <1>2
  <2>3. n <= n + 1 /\ n + 1 \in Nat /\ n \in 1 .. n
    BY <1>6
  <2>4. g[n] = f[n]
    BY <1>4, <2>1, <2>2, <2>3, JoinsAgree
  <2>5. f[n + 1] = f[n] \o s[n + 1]
    <3>1. n + 1 \in 1 .. n + 1 /\ n + 1 # 1 /\ (n + 1) - 1 = n
      BY <1>6
    <3> QED
      BY <1>4, <3>1 DEF Joins
  <2>6. s[n + 1] = e[n + 1]
    BY <1>1
  <2> QED
    BY <1>1, <1>2, <1>4, <2>1, <2>4, <2>5, <2>6
<1> QED
  BY <1>5, <1>6

LEMMA FlatInSeq ==
  ASSUME NEW X, NEW e, NEW m \in Nat, \A i \in 1 .. m : e[i] \in Seq(X)
  PROVE  \A n \in 0 .. m : Flat([i \in 1 .. n |-> e[i]]) \in Seq(X)
<1> DEFINE Good == {n \in Nat : n \in 0 .. m => Flat([i \in 1 .. n |-> e[i]]) \in Seq(X)}
<1>1. 0 \in Good
  <2>1. Flat([i \in 1 .. 0 |-> e[i]]) = <<>>
    BY FlatOfNone
  <2>2. <<>> \in Seq(X)
    OBVIOUS
  <2>3. Flat([i \in 1 .. 0 |-> e[i]]) \in Seq(X)
    BY <2>1, <2>2, Zenon
  <2> QED
    BY <2>3
<1>2. ASSUME NEW n \in Nat, n \in Good PROVE n + 1 \in Good
  <2>1. SUFFICES ASSUME n + 1 \in 0 .. m PROVE Flat([i \in 1 .. n + 1 |-> e[i]]) \in Seq(X)
    OBVIOUS
  <2>2. n \in 0 .. m /\ n + 1 \in 1 .. m /\ \A i \in 1 .. n + 1 : i \in 1 .. m
    BY <2>1
  <2>3. Flat([i \in 1 .. n |-> e[i]]) \in Seq(X)
    BY <1>2, <2>2
  <2>4. Flat([i \in 1 .. n + 1 |-> e[i]]) = Flat([i \in 1 .. n |-> e[i]]) \o e[n + 1]
    BY <2>2, FlatNext
  <2> QED
    BY <2>2, <2>3, <2>4, ConcatProperties
<1> HIDE DEF Good
<1>3. \A n \in Nat : n \in Good
  BY <1>1, <1>2, NumberInduction
<1> QED
  BY <1>3 DEF Good

-----------------------------------------------------------------------------
(***************************************************************************)
(* ConfigLimit                                                             *)
(***************************************************************************)
\* The sets of moments that calls are counted over.
Moments == 0 .. LimitTime
Window(a, b) == {t \in Moments : a <= t /\ t <= b}
Later(a) == {t \in Moments : a <= t}
During(a, b) == SumFunctionOnSet(answered, Window(a, b))
SinceThen(a) == SumFunctionOnSet(answered, Later(a))

LEMMA WithinIs ==
  \A a, b : Limit!Within(a, b) = During(a, b)
BY DEF Limit!Within, Limit!SumFunctionOnSet, Limit!FoldFunctionOnSet, Limit!MapThenFoldSet,
       During, Window, Moments, SumFunctionOnSet, FoldFunctionOnSet, MapThenFoldSet, Limit!Time


LimitTypes ==
  /\ now \in Moments /\ refused \in Moments \cup {LimitTime + 1}
  /\ entry \in [known : BOOLEAN, first : Moments, count : 0 .. LimitRate + 1]
  /\ answered \in [Moments -> Nat]

\* What was let through within the interval behind the last refusal.
EntrysWorth ==
  refused \in Moments =>
    /\ refused <= now
    /\ \E a, r \in Nat : /\ r = refused /\ a = IF r < LimitInterval THEN 0 ELSE r - LimitInterval
                         /\ During(a, r) > LimitRate

LimitInv ==
  /\ LimitTypes
  /\ \A t \in Moments : t > now => SinceThen(t) = 0
  /\ entry.known =>
       /\ entry.first <= now /\ entry.count >= 1
       /\ During(entry.first, now) >= entry.count
       /\ \A t \in Moments : t > entry.first => SinceThen(t) + 1 <= entry.count
       /\ \A t \in Moments :
            t + LimitInterval >= entry.first => SinceThen(t) <= LimitRate + 1 + entry.count
  /\ ~entry.known =>
       \A t \in Moments : t + LimitInterval >= now => SinceThen(t) <= LimitRate + 1
  /\ \A t \in Moments : During(t, t + LimitInterval) <= 2 * (LimitRate + 1)
  /\ EntrysWorth

LEMMA MomentSets ==
  /\ \A a, b : IsFiniteSet(Window(a, b)) /\ Window(a, b) \subseteq Moments
  /\ \A a : IsFiniteSet(Later(a)) /\ Later(a) \subseteq Moments
<1>1. IsFiniteSet(Moments)
  BY ServicesAssumption, FS_Interval DEF Moments
<1>2. \A S : S \subseteq Moments => IsFiniteSet(S)
  BY <1>1, FS_Subset
<1>3. \A a, b : Window(a, b) \subseteq Moments
  BY DEF Window
<1>4. \A a : Later(a) \subseteq Moments
  BY DEF Later
<1> QED
  BY <1>2, <1>3, <1>4

LEMMA NoCalls ==
  ASSUME NEW w, NEW S, IsFiniteSet(S), \A x \in S : w[x] = 0
  PROVE  SumFunctionOnSet(w, S) = 0
<1> DEFINE Good == {T \in SUBSET S : SumFunctionOnSet(w, T) = 0}
<1>1. ASSUME NEW T \in SUBSET S, \A x \in T : T \ {x} \in Good PROVE T \in Good
  <2>1. CASE T = {}
    BY <2>1, SumOfNone
  <2>2. CASE T # {}
    <3>1. IsFiniteSet(T)
      BY FS_Subset
    <3>2. PICK x \in T : SumFunctionOnSet(w, T) = w[x] + SumFunctionOnSet(w, T \ {x})
      BY <2>2, <3>1, SumChosen
    <3> QED
      BY <1>1, <3>2
  <2> QED
    BY <2>1, <2>2
<1> HIDE DEF Good
<1>2. SUBSET S \subseteq Good
  BY <1>1, SubsetInduction
<1>3. S \in Good
  BY <1>2
<1> QED
  BY <1>3 DEF Good

LEMMA LimitInit == Limit!Init => LimitInv
<1> SUFFICES ASSUME Limit!Init PROVE LimitInv
  OBVIOUS
<1>1. now = 0 /\ entry = [known |-> FALSE, first |-> 0, count |-> 0] /\ refused = LimitTime + 1
  BY DEF Limit!Init, Limit!NoEntry
<1>2. answered = [t \in Moments |-> 0]
  BY DEF Limit!Init, Limit!Time, Moments
<1>3. \A a, b : During(a, b) = 0
  BY <1>2, MomentSets, NoCalls DEF During
<1>4. \A a : SinceThen(a) = 0
  BY <1>2, MomentSets, NoCalls DEF SinceThen
<1>5. LimitTypes
  BY <1>1, <1>2, ServicesAssumption DEF LimitTypes, Moments
<1>6. EntrysWorth
  BY <1>1, ServicesAssumption DEF Moments, EntrysWorth
<1> QED
  BY <1>1, <1>3, <1>4, <1>5, <1>6, ServicesAssumption DEF LimitInv

\* A call that is let through is one more wherever the moment is counted.
LEMMA CallCounted ==
  ASSUME LimitTypes, Limit!Through
  PROVE  /\ answered' \in [Moments -> Nat]
         /\ \A a, b : a <= now /\ now <= b => During(a, b)' = During(a, b) + 1
         /\ \A a, b : ~(a <= now /\ now <= b) => During(a, b)' = During(a, b)
         /\ \A a : a <= now => SinceThen(a)' = SinceThen(a) + 1
         /\ \A a : ~(a <= now) => SinceThen(a)' = SinceThen(a)
<1>1. answered' = [answered EXCEPT ![now] = @ + 1]
  BY DEF Limit!Through
<1>2. now \in Moments /\ answered \in [Moments -> Nat]
  BY DEF LimitTypes
<1>3. answered' \in [Moments -> Nat]
  BY <1>1, <1>2
<1>4. \A S : S \subseteq Moments /\ IsFiniteSet(S)
        => SumFunctionOnSet(answered', S) = SumFunctionOnSet(answered, S) + IF now \in S THEN 1 ELSE 0
  BY <1>1, <1>2, SumBump
<1>5. \A S : S \subseteq Moments /\ IsFiniteSet(S) => SumFunctionOnSet(answered, S) \in Nat
  BY <1>2, SumIsNat
<1>6. \A a, b : now \in Window(a, b) <=> a <= now /\ now <= b
  BY <1>2 DEF Window
<1>7. \A a : now \in Later(a) <=> a <= now
  BY <1>2 DEF Later
<1>8. \A a, b : During(a, b)' = SumFunctionOnSet(answered', Window(a, b))
  BY DEF During, Window
<1>9. \A a : SinceThen(a)' = SumFunctionOnSet(answered', Later(a))
  BY DEF SinceThen, Later
<1>10. \A a, b : During(a, b)' = During(a, b) + (IF now \in Window(a, b) THEN 1 ELSE 0)
  BY <1>4, <1>8, MomentSets DEF During
<1>11. \A a : SinceThen(a)' = SinceThen(a) + (IF now \in Later(a) THEN 1 ELSE 0)
  BY <1>4, <1>9, MomentSets DEF SinceThen
<1>12. \A a, b : During(a, b) \in Nat
  BY <1>5, MomentSets DEF During
<1>13. \A a : SinceThen(a) \in Nat
  BY <1>5, MomentSets DEF SinceThen
<1> QED
  BY <1>3, <1>6, <1>7, <1>10, <1>11, <1>12, <1>13
LEMMA SumsOfCalls ==
  ASSUME LimitTypes
  PROVE  /\ \A a, b : During(a, b) \in Nat
         /\ \A a : SinceThen(a) \in Nat
         /\ \A a, b, c, d : Window(a, b) \subseteq Window(c, d) => During(a, b) <= During(c, d)
         /\ \A a, b : During(a, b) <= SinceThen(a)
<1>1. answered \in [Moments -> Nat]
  BY DEF LimitTypes
<1>2. \A S : S \subseteq Moments /\ IsFiniteSet(S) => SumFunctionOnSet(answered, S) \in Nat
  BY <1>1, SumIsNat
<1>3. \A S, T : S \subseteq T /\ T \subseteq Moments /\ IsFiniteSet(T)
        => SumFunctionOnSet(answered, S) <= SumFunctionOnSet(answered, T)
  BY <1>1, SumGrows
<1>4. \A a, b : Window(a, b) \subseteq Later(a)
  BY DEF Window, Later
<1>5. \A a, b : During(a, b) \in Nat
  BY <1>2, MomentSets DEF During
<1>6. \A a : SinceThen(a) \in Nat
  BY <1>2, MomentSets DEF SinceThen
<1>7. \A a, b, c, d : Window(a, b) \subseteq Window(c, d) => During(a, b) <= During(c, d)
  BY <1>3, MomentSets DEF During
<1>8. \A a, b : During(a, b) <= SinceThen(a)
  BY <1>3, <1>4, MomentSets DEF During, SinceThen
<1> QED
  BY <1>5, <1>6, <1>7, <1>8

LEMMA LimitTick == LimitInv /\ Limit!Tick => LimitInv'
<1> SUFFICES ASSUME LimitInv, Limit!Tick PROVE LimitInv'
  OBVIOUS
<1>1. /\ LimitTypes /\ now' = now + 1 /\ now < LimitTime
      /\ UNCHANGED <<entry, answered, refused>>
  BY DEF LimitInv, Limit!Tick
<1>2. LimitTypes'
  BY <1>1, ServicesAssumption DEF LimitTypes, Moments
<1>3. \A a, b : During(a, b)' = During(a, b)
  BY <1>1 DEF During, Window
<1>4. \A a : SinceThen(a)' = SinceThen(a)
  BY <1>1 DEF SinceThen, Later
<1>5. now \in Nat /\ \A t \in Moments : t \in Nat
  BY <1>1 DEF LimitTypes, Moments
<1>6. \A t \in Moments : t > now' => SinceThen(t)' = 0
  <2>1. \A t \in Moments : t > now' => t > now
    BY <1>1, <1>5
  <2> QED
    BY <1>4, <2>1 DEF LimitInv
<1>7. ASSUME entry.known
      PROVE  /\ entry'.first <= now' /\ entry'.count >= 1
             /\ During(entry.first, now + 1) >= entry.count
  <2>1. /\ entry.first <= now /\ entry.count >= 1 /\ During(entry.first, now) >= entry.count
    BY <1>7 DEF LimitInv
  <2>2. entry.first \in Nat /\ entry.count \in Nat
    BY <1>1 DEF LimitTypes, Moments
  <2>3. Window(entry.first, now) \subseteq Window(entry.first, now + 1)
    BY <1>5 DEF Window
  <2>4. During(entry.first, now) <= During(entry.first, now + 1)
    BY <1>1, <2>3, SumsOfCalls
  <2>5. During(entry.first, now) \in Nat /\ During(entry.first, now + 1) \in Nat
    BY <1>1, SumsOfCalls
  <2> QED
    BY <1>1, <1>5, <2>1, <2>2, <2>4, <2>5
<1>8. ASSUME entry.known
      PROVE  /\ \A t \in Moments : t > entry.first => SinceThen(t) + 1 <= entry.count
             /\ \A t \in Moments :
                  t + LimitInterval >= entry.first => SinceThen(t) <= LimitRate + 1 + entry.count
  BY <1>8 DEF LimitInv
<1>9. ASSUME ~entry.known, NEW t \in Moments, t + LimitInterval >= now + 1
      PROVE  SinceThen(t) <= LimitRate + 1
  <2>1. t + LimitInterval >= now
    BY <1>5, <1>9, ServicesAssumption
  <2> QED
    BY <1>9, <2>1 DEF LimitInv
<1>10. \A t \in Moments : During(t, t + LimitInterval) <= 2 * (LimitRate + 1)
  BY DEF LimitInv
<1>11. EntrysWorth'
  <2>1. SUFFICES ASSUME refused \in Moments
                 PROVE  /\ refused <= now + 1
                        /\ \E a, r \in Nat :
                             /\ r = refused /\ a = IF r < LimitInterval THEN 0 ELSE r - LimitInterval
                             /\ During(a, r) > LimitRate
    BY <1>1, <1>3 DEF EntrysWorth
  <2>2. EntrysWorth
    BY DEF LimitInv
  <2>3. refused <= now
    BY <2>1, <2>2 DEF EntrysWorth
  <2>4. refused <= now + 1
    BY <1>5, <2>1, <2>3
  <2> QED
    BY <2>1, <2>2, <2>4 DEF EntrysWorth
<1> QED
  BY <1>1, <1>2, <1>3, <1>4, <1>6, <1>7, <1>8, <1>9, <1>10, <1>11 DEF LimitInv

\* What a call that is let through leaves as it was, if as many as two entries
\* allow have not been let through yet.
LEMMA CallFits ==
  ASSUME LimitInv, Limit!Through, now' = now,
         \A t \in Moments : t <= now /\ now <= t + LimitInterval => SinceThen(t) <= 2 * LimitRate + 1
  PROVE  /\ now' \in Moments /\ refused' \in Moments \cup {LimitTime + 1}
         /\ \A t \in Moments : t > now' => SinceThen(t)' = 0
         /\ \A t \in Moments : During(t, t + LimitInterval)' <= 2 * (LimitRate + 1)
         /\ EntrysWorth'
<1>1. LimitTypes /\ refused' = refused
  BY DEF LimitInv, Limit!Through
<1>2. now \in Nat /\ LimitInterval \in Nat /\ LimitRate \in Nat /\ \A t \in Moments : t \in Nat
  BY <1>1, ServicesAssumption DEF LimitTypes, Moments
<1>3. ASSUME NEW t \in Moments, t > now PROVE SinceThen(t)' = 0
  <2>1. SinceThen(t) = 0 /\ ~(t <= now)
    BY <1>2, <1>3 DEF LimitInv
  <2> QED
    BY <1>1, <2>1, CallCounted
<1>4. ASSUME NEW t \in Moments PROVE During(t, t + LimitInterval)' <= 2 * (LimitRate + 1)
  <2>1. During(t, t + LimitInterval) <= 2 * (LimitRate + 1)
    BY DEF LimitInv
  <2>2. CASE t <= now /\ now <= t + LimitInterval
    <3>1. During(t, t + LimitInterval)' = During(t, t + LimitInterval) + 1
      BY <1>1, <2>2, CallCounted
    <3>2. During(t, t + LimitInterval) <= SinceThen(t) /\ During(t, t + LimitInterval) \in Nat
          /\ SinceThen(t) \in Nat
      BY <1>1, SumsOfCalls
    <3>3. SinceThen(t) <= 2 * LimitRate + 1
      BY <2>2
    <3> QED
      BY <1>2, <3>1, <3>2, <3>3
  <2>3. CASE ~(t <= now /\ now <= t + LimitInterval)
    BY <1>1, <2>1, <2>3, CallCounted
  <2> QED
    BY <2>2, <2>3
<1>5. EntrysWorth'
  <2>1. SUFFICES ASSUME refused \in Moments
                 PROVE  /\ refused <= now
                        /\ \E a, r \in Nat :
                             /\ r = refused /\ a = IF r < LimitInterval THEN 0 ELSE r - LimitInterval
                             /\ During(a, r)' > LimitRate
    BY <1>1 DEF EntrysWorth
  <2>2. EntrysWorth
    BY DEF LimitInv
  <2>3. PICK a, r \in Nat : /\ r = refused /\ a = IF r < LimitInterval THEN 0 ELSE r - LimitInterval
                            /\ During(a, r) > LimitRate
    BY <2>1, <2>2 DEF EntrysWorth
  <2>4. During(a, r)' = During(a, r) \/ During(a, r)' = During(a, r) + 1
    BY <1>1, CallCounted
  <2>5. During(a, r) \in Nat
    BY <1>1, SumsOfCalls
  <2>6. During(a, r)' > LimitRate
    BY <1>2, <2>3, <2>4, <2>5
  <2>7. refused <= now
    BY <2>1, <2>2 DEF EntrysWorth
  <2> QED
    BY <2>3, <2>6, <2>7
<1>6. /\ now' \in Moments /\ refused' \in Moments \cup {LimitTime + 1}
      /\ \A t \in Moments : t > now' => SinceThen(t)' = 0
  BY <1>1, <1>3 DEF LimitTypes
<1> QED
  BY <1>4, <1>5, <1>6

LEMMA FirstCall ==
  ASSUME LimitInv, now' = now, ~entry.known,
         entry' = [known |-> TRUE, first |-> now, count |-> 1], Limit!Through
  PROVE  LimitInv'
<1>1. LimitTypes
  BY DEF LimitInv
<1>2. now \in Nat /\ LimitInterval \in Nat /\ LimitRate \in Nat /\ \A t \in Moments : t \in Nat
  BY <1>1, ServicesAssumption DEF LimitTypes, Moments
<1>3. ASSUME NEW t \in Moments, t + LimitInterval >= now PROVE SinceThen(t) <= LimitRate + 1
  BY <1>3 DEF LimitInv
<1>4. \A t \in Moments : SinceThen(t) \in Nat
  BY <1>1, SumsOfCalls
<1>5. \A t \in Moments : t <= now /\ now <= t + LimitInterval => SinceThen(t) <= 2 * LimitRate + 1
  BY <1>2, <1>3, <1>4
<1>6. entry'.known /\ entry'.first = now /\ entry'.count = 1
      /\ entry' \in [known : BOOLEAN, first : Moments, count : 0 .. LimitRate + 1]
  BY <1>1, <1>2 DEF LimitTypes
<1>7. LimitTypes'
  BY <1>1, <1>5, <1>6, CallFits, CallCounted DEF LimitTypes, Moments
<1>8. During(now, now)' >= 1
  <2>1. During(now, now)' = During(now, now) + 1
    BY <1>1, <1>2, CallCounted
  <2>2. During(now, now) \in Nat
    BY <1>1, SumsOfCalls
  <2> QED
    BY <2>1, <2>2
<1>9. ASSUME NEW t \in Moments, t > now PROVE SinceThen(t)' + 1 <= 1
  <2>1. SinceThen(t)' = 0
    BY <1>5, <1>9, CallFits
  <2> QED
    BY <2>1
<1>10. ASSUME NEW t \in Moments, t + LimitInterval >= now PROVE SinceThen(t)' <= LimitRate + 2
  <2>1. SinceThen(t)' = SinceThen(t) \/ SinceThen(t)' = SinceThen(t) + 1
    BY <1>1, CallCounted
  <2> QED
    BY <1>2, <1>3, <1>4, <1>10, <2>1
<1>11. /\ entry'.first <= now' /\ entry'.count >= 1
       /\ During(entry.first, now)' >= entry'.count
       /\ \A t \in Moments : t > entry'.first => SinceThen(t)' + 1 <= entry'.count
       /\ \A t \in Moments :
            t + LimitInterval >= entry'.first => SinceThen(t)' <= LimitRate + 1 + entry'.count
  <2>1. During(entry.first, now)' >= entry'.count
    BY <1>6, <1>8 DEF During, Window
  <2>2. LimitRate + 2 = LimitRate + 1 + 1
    BY <1>2
  <2> QED
    BY <1>2, <1>6, <1>9, <1>10, <2>1, <2>2
<1> QED
  BY <1>5, <1>6, <1>7, <1>11, CallFits DEF LimitInv
LEMMA NextCall ==
  ASSUME LimitInv, now' = now, entry.known, ~Limit!Expired, entry.count <= LimitRate,
         entry' = [entry EXCEPT !.count = @ + 1], Limit!Through
  PROVE  LimitInv'
<1>1. LimitTypes
  BY DEF LimitInv
<1>2. /\ now \in Nat /\ LimitInterval \in Nat /\ LimitRate \in Nat /\ \A t \in Moments : t \in Nat
      /\ entry.first \in Moments /\ entry.count \in Nat
  BY <1>1, ServicesAssumption DEF LimitTypes, Moments
<1>3. /\ entry.first <= now /\ entry.count >= 1 /\ During(entry.first, now) >= entry.count
      /\ \A t \in Moments : t > entry.first => SinceThen(t) + 1 <= entry.count
      /\ \A t \in Moments :
           t + LimitInterval >= entry.first => SinceThen(t) <= LimitRate + 1 + entry.count
  BY DEF LimitInv
<1>4. \A t \in Moments : SinceThen(t) \in Nat
  BY <1>1, SumsOfCalls
<1>5. ASSUME NEW t \in Moments, t <= now, now <= t + LimitInterval PROVE SinceThen(t) <= 2 * LimitRate + 1
  <2>1. t + LimitInterval >= entry.first
    BY <1>2, <1>3, <1>5
  <2>2. SinceThen(t) <= LimitRate + 1 + entry.count
    BY <1>3, <2>1
  <2> QED
    BY <1>2, <1>4, <2>2
<1>6. PICK e : e = [entry EXCEPT !.count = entry.count + 1]
  OBVIOUS
<1>7. /\ entry' = e /\ e.known /\ e.first = entry.first /\ e.count = entry.count + 1
      /\ e \in [known : BOOLEAN, first : Moments, count : 0 .. LimitRate + 1]
  <2>1. entry.count + 1 \in 0 .. LimitRate + 1
    BY <1>2
  <2>2. entry \in [known : BOOLEAN, first : Moments, count : 0 .. LimitRate + 1]
    BY <1>1 DEF LimitTypes
  <2> QED
    BY <1>6, <2>1, <2>2
<1>8. LimitTypes'
  BY <1>1, <1>5, <1>7, CallFits, CallCounted DEF LimitTypes, Moments
<1>9. ASSUME NEW f, NEW n, f = entry.first, n = now PROVE During(f, n)' >= e.count
  <2>1. During(f, n)' = During(f, n) + 1
    BY <1>1, <1>2, <1>3, <1>9, CallCounted
  <2>2. During(f, n) \in Nat /\ During(f, n) >= entry.count
    BY <1>1, <1>3, <1>9, SumsOfCalls
  <2> QED
    BY <1>2, <1>7, <2>1, <2>2
<1>10. \A t \in Moments : SinceThen(t)' = SinceThen(t) \/ SinceThen(t)' = SinceThen(t) + 1
  BY <1>1, CallCounted
<1>11. ASSUME NEW t \in Moments, t > e.first PROVE SinceThen(t)' + 1 <= e.count
  <2>1. SinceThen(t) + 1 <= entry.count
    BY <1>3, <1>7, <1>11
  <2> QED
    BY <1>2, <1>4, <1>7, <1>10, <2>1
<1>12. ASSUME NEW t \in Moments, t + LimitInterval >= e.first
       PROVE  SinceThen(t)' <= LimitRate + 1 + e.count
  <2>1. SinceThen(t) <= LimitRate + 1 + entry.count
    BY <1>3, <1>7, <1>12
  <2> QED
    BY <1>2, <1>4, <1>7, <1>10, <2>1
<1>13. During(entry.first, now)' >= entry'.count
  <2>1. PICK f, n : f = entry.first /\ n = now
    OBVIOUS
  <2>2. During(entry.first, now)' = During(f, n)'
    BY <1>7, <2>1 DEF During, Window
  <2> QED
    BY <1>7, <1>9, <2>1, <2>2
<1>14. e.first <= now /\ e.count >= 1
  BY <1>2, <1>3, <1>7
<1>15. \A t \in Moments : t <= now /\ now <= t + LimitInterval => SinceThen(t) <= 2 * LimitRate + 1
  BY <1>5
<1> QED
  BY <1>7, <1>8, <1>11, <1>12, <1>13, <1>14, <1>15, CallFits DEF LimitInv

LEMMA CallRefused ==
  ASSUME LimitInv, now' = now, entry.known, ~Limit!Expired, entry.count > LimitRate,
         refused' = now, UNCHANGED <<entry, answered>>
  PROVE  LimitInv'
<1>1. LimitTypes
  BY DEF LimitInv
<1>2. /\ now \in Nat /\ LimitInterval \in Nat /\ LimitRate \in Nat
      /\ entry.first \in Nat /\ entry.count \in Nat
  BY <1>1, ServicesAssumption DEF LimitTypes, Moments
<1>3. /\ entry.first <= now /\ During(entry.first, now) >= entry.count
  BY DEF LimitInv
<1>4. \A a, b : During(a, b)' = During(a, b)
  BY DEF During, Window
<1>5. \A a : SinceThen(a)' = SinceThen(a)
  BY DEF SinceThen, Later
<1>6. LimitTypes'
  BY <1>1 DEF LimitTypes
<1>7. PICK a \in Nat : a = IF now < LimitInterval THEN 0 ELSE now - LimitInterval
  BY <1>2
<1>8. a <= entry.first
  BY <1>2, <1>3, <1>7 DEF Limit!Expired
<1>9. Window(entry.first, now) \subseteq Window(a, now)
  BY <1>2, <1>7, <1>8 DEF Window, Moments
<1>10. During(entry.first, now) <= During(a, now)
  BY <1>1, <1>9, SumsOfCalls
<1>11. During(entry.first, now) \in Nat /\ During(a, now) \in Nat
  BY <1>1, SumsOfCalls
<1>12. During(a, now) > LimitRate
  BY <1>2, <1>3, <1>10, <1>11
<1>13. EntrysWorth'
  <2>1. PICK r \in Nat : r = now
    BY <1>2
  <2>2. During(a, r)' > LimitRate
    BY <1>4, <1>12, <2>1
  <2>3. refused' <= now'
    BY <1>2
  <2> QED
    BY <1>7, <2>1, <2>2, <2>3 DEF EntrysWorth
<1>14. entry.known =>
         /\ entry'.first <= now' /\ entry'.count >= 1
         /\ During(entry.first, now)' >= entry'.count
         /\ \A t \in Moments : t > entry'.first => SinceThen(t)' + 1 <= entry'.count
         /\ \A t \in Moments :
              t + LimitInterval >= entry'.first => SinceThen(t)' <= LimitRate + 1 + entry'.count
  <2>1. During(entry.first, now)' = During(entry.first, now)
    BY DEF During, Window
  <2> QED
    BY <1>5, <2>1 DEF LimitInv
<1> QED
  BY <1>4, <1>5, <1>6, <1>13, <1>14 DEF LimitInv

LEMMA ExpiredCall ==
  ASSUME LimitInv, now' = now, entry.known, Limit!Expired,
         entry' = [known |-> FALSE, first |-> 0, count |-> 0], Limit!Through
  PROVE  LimitInv'
<1>1. LimitTypes
  BY DEF LimitInv
<1>2. /\ now \in Nat /\ LimitInterval \in Nat /\ LimitRate \in Nat /\ \A t \in Moments : t \in Nat
      /\ entry.first \in Nat /\ entry.count \in 0 .. LimitRate + 1
  BY <1>1, ServicesAssumption DEF LimitTypes, Moments
<1>3. \A t \in Moments : SinceThen(t) \in Nat
  BY <1>1, SumsOfCalls
<1>4. ASSUME NEW t \in Moments, t + LimitInterval >= now PROVE SinceThen(t) <= LimitRate
  <2>1. t > entry.first
    BY <1>2, <1>4 DEF Limit!Expired
  <2>2. SinceThen(t) + 1 <= entry.count
    BY <2>1 DEF LimitInv
  <2> QED
    BY <1>2, <1>3, <2>2
<1>5. ASSUME NEW t \in Moments, t + LimitInterval >= now PROVE SinceThen(t)' <= LimitRate + 1
  <2>1. SinceThen(t)' = SinceThen(t) \/ SinceThen(t)' = SinceThen(t) + 1
    BY <1>1, CallCounted
  <2> QED
    BY <1>2, <1>3, <1>4, <1>5, <2>1
<1>6. \A t \in Moments : t <= now /\ now <= t + LimitInterval => SinceThen(t) <= 2 * LimitRate + 1
  BY <1>2, <1>3, <1>4
<1>7. ~entry'.known /\ entry' \in [known : BOOLEAN, first : Moments, count : 0 .. LimitRate + 1]
  BY ServicesAssumption DEF Moments
<1>8. LimitTypes'
  BY <1>1, <1>6, <1>7, CallFits, CallCounted DEF LimitTypes, Moments
<1> QED
  BY <1>5, <1>6, <1>7, <1>8, CallFits DEF LimitInv

LEMMA LimitStep == LimitInv /\ Limit!Next => LimitInv'
<1> SUFFICES ASSUME LimitInv, Limit!Call PROVE LimitInv'
  BY LimitTick DEF Limit!Next
<1>1. now' = now
  BY DEF Limit!Call
<1>2. CASE ~entry.known /\ entry' = [known |-> TRUE, first |-> now, count |-> 1] /\ Limit!Through
  BY <1>1, <1>2, FirstCall
<1>3. CASE entry.known /\ ~Limit!Expired /\ entry.count <= LimitRate
             /\ entry' = [entry EXCEPT !.count = @ + 1] /\ Limit!Through
  BY <1>1, <1>3, NextCall
<1>4. CASE entry.known /\ ~Limit!Expired /\ entry.count > LimitRate
             /\ refused' = now /\ UNCHANGED <<entry, answered>>
  BY <1>1, <1>4, CallRefused
<1>5. CASE entry.known /\ Limit!Expired /\ entry' = Limit!NoEntry /\ Limit!Through
  BY <1>1, <1>5, ExpiredCall DEF Limit!NoEntry
<1> QED
  BY <1>2, <1>3, <1>4, <1>5 DEF Limit!Call, Limit!IsLimited

LEMMA LimitRest == LimitInv /\ UNCHANGED <<limitVars, now>> => LimitInv'
<1> SUFFICES ASSUME LimitInv, UNCHANGED <<limitVars, now>> PROVE LimitInv'
  OBVIOUS
<1>1. UNCHANGED <<entry, answered, refused, now>>
  BY DEF limitVars
<1>2. \A a, b : During(a, b)' = During(a, b)
  BY <1>1 DEF During, Window
<1>3. \A a : SinceThen(a)' = SinceThen(a)
  BY <1>1 DEF SinceThen, Later
<1>4. During(entry.first, now)' = During(entry.first, now)
  BY <1>1 DEF During, Window
<1>5. LimitTypes' /\ EntrysWorth'
  BY <1>1, <1>2 DEF LimitInv, LimitTypes, EntrysWorth
<1> QED
  BY <1>1, <1>2, <1>3, <1>4, <1>5 DEF LimitInv

LEMMA LimitHolds == LimitInv => Limit!TypeOK /\ Limit!LimitKept
<1> SUFFICES ASSUME LimitInv PROVE Limit!TypeOK /\ Limit!LimitKept
  OBVIOUS
<1>1. LimitTypes /\ EntrysWorth
  BY DEF LimitInv
<1>2. LimitInterval \in Nat /\ LimitRate \in Nat /\ LimitTime \in Nat /\ \A t \in Moments : t \in Nat
  BY ServicesAssumption DEF Moments
<1>3. \A t \in Moments : During(t, t + LimitInterval) <= 2 * (LimitRate + 1)
  BY DEF LimitInv
<1>4. ASSUME NEW t \in Moments PROVE answered[t] \in 0 .. 2 * (LimitRate + 1)
  <2>1. PICK S : S = Window(t, t + LimitInterval)
    OBVIOUS
  <2>2. IsFiniteSet(S) /\ S \subseteq Moments /\ t \in S
    <3>1. t \in Nat /\ t <= t /\ t <= t + LimitInterval
      BY <1>2
    <3>2. t \in Window(t, t + LimitInterval)
      BY <3>1 DEF Window
    <3> QED
      BY <2>1, <3>2, MomentSets
  <2>3. \A x \in S : answered[x] \in Nat
    BY <1>1, <2>2 DEF LimitTypes
  <2>4. SumFunctionOnSet(answered, S) = answered[t] + SumFunctionOnSet(answered, S \ {t})
    BY <2>2, <2>3, SumSplit
  <2>5. SumFunctionOnSet(answered, S \ {t}) \in Nat
    BY <2>2, <2>3, SumIsNat, FS_RemoveElement
  <2>6. SumFunctionOnSet(answered, S) <= 2 * (LimitRate + 1)
    BY <1>3, <2>1 DEF During
  <2>7. answered[t] \in Nat
    BY <2>2, <2>3
  <2> QED
    BY <1>2, <2>4, <2>5, <2>6, <2>7
<1>5. answered \in [Moments -> 0 .. 2 * (LimitRate + 1)]
  BY <1>1, <1>4 DEF LimitTypes
<1>6. Limit!TypeOK
  BY <1>1, <1>5 DEF LimitTypes, Limit!TypeOK, Limit!Time, Limit!Most, Moments
<1>7. ASSUME refused \in Moments
      PROVE  Limit!Within(IF refused < LimitInterval THEN 0 ELSE refused - LimitInterval, refused) > LimitRate
  BY <1>1, <1>7, WithinIs DEF EntrysWorth
<1>8. Limit!LimitKept
  BY <1>3, <1>7, WithinIs DEF Limit!LimitKept, Limit!Time, Limit!Most, Moments
<1> QED
  BY <1>6, <1>8

-----------------------------------------------------------------------------
(***************************************************************************)
(* ConfigLoad                                                              *)
(***************************************************************************)
\* What is in the tables.
Numbers == 0 .. MaxChanges + 1
Texts == Seq(Config!Part \X Numbers)
Levels == {"all", "node"}
ConfigStages == {"none", "own", "refs", "ref", "set", "merge", "done"}
Loads == [stage : ConfigStages, level : Levels, byInfo : BOOLEAN, inSet : BOOLEAN, todo : Seq(A),
          temp : Texts, config : Texts, half : Texts, own : Texts, ret : {0, 1},
          before : Texts, changed : BOOLEAN, skipped : BOOLEAN]

ConfigTypes ==
  /\ confRow \in [Config!Part -> Numbers] /\ refs \in [Levels -> Config!References]
  /\ changes \in 0 .. MaxChanges /\ faults \in 0 .. FewFaults
  /\ load \in Loads

\* What the first references of a level make, of those that a file has.
Joined(l, level, k) ==
  Flat([i \in 1 .. k |-> Config!RefParts(l.byInfo, l.inSet, refs[level][i])])

\* Where a load is in its level, if nothing was changed and nothing skipped: its own
\* file and the references so far.
Refers(l) == l.own # <<>>
Along(l) ==
  /\ l.own = Config!Of(Config!Own(l.level))
  /\ IF Refers(l)
     THEN \E k \in 0 .. Len(refs[l.level]) :
            /\ l.todo = SubSeq(refs[l.level], k + 1, Len(refs[l.level]))
            /\ l.temp = Joined(l, l.level, k)
     ELSE l.todo = <<>> /\ l.temp = <<>>

Halfway(l) ==
  l.stage = "set" =>
    /\ l.todo # <<>> /\ l.byInfo /\ l.inSet /\ l.half # <<>>
    /\ l.half = Config!Of(<<Head(l.todo), "app">>)

LevelText(l, level) == Config!LevelParts(l.byInfo, l.inSet, level)

\* What is due, and what has been merged of it.
Begun(l) ==
  /\ l.before = LevelText(l, "all") \o LevelText(l, "node")
  /\ l.config = IF l.level = "all" THEN <<>> ELSE LevelText(l, "all")

RightSoFar(l) ==
  /\ l.stage \in {"own", "refs", "ref", "set", "merge"} => Begun(l)
  /\ l.stage = "own" => l.temp = <<>> /\ l.own = <<>>
  /\ l.stage = "refs" => l.temp = <<>> /\ l.own = Config!Of(Config!Own(l.level))
  /\ l.stage \in {"ref", "set"} => Along(l)
  /\ Halfway(l)
  /\ l.stage = "merge" => l.temp \o l.own = LevelText(l, l.level)
  /\ l.stage = "done" /\ l.ret = 0 => l.config = l.before

ConfigInv ==
  /\ ConfigTypes
  /\ load.stage = "set" => load.todo # <<>>
  /\ load.changed \/ load.skipped \/ RightSoFar(load)

LEMMA ListsOfRefs ==
  \A r \in Config!References : r \in Seq(A)
<1> SUFFICES ASSUME NEW r \in Config!References PROVE r \in Seq(A)
  OBVIOUS
<1>1. PICK S \in SUBSET A : r \in Config!F!SetToSeqs(S)
  BY DEF Config!References, Config!F!SetToAllKPermutations
<1>2. r \in [1 .. Config!F!Cardinality(S) -> S]
  BY <1>1 DEF Config!F!SetToSeqs
<1>3. Config!F!Cardinality(S) = Cardinality(S)
  BY DEF Config!F!Cardinality, Cardinality
<1>4. Cardinality(S) \in Nat
  BY ServicesAssumption, FS_Subset, FS_CardinalityType
<1>5. PICK n \in Nat : r \in [1 .. n -> A]
  BY <1>2, <1>3, <1>4
<1> QED
  BY <1>5
LEMMA TextsTyped ==
  ASSUME ConfigTypes
  PROVE  /\ \A p \in Config!Part : /\ Config!Of(p) \in Texts /\ confRow[p] \in Numbers
                                   /\ Config!Of(p) = <<>> <=> confRow[p] = 0
         /\ \A level \in Levels : Config!Own(level) \in Config!Part /\ refs[level] \in Seq(A)
         /\ \A a \in A : <<a, "app">> \in Config!Part /\ <<a, "set">> \in Config!Part
         /\ \A b, c : \A a \in A : Config!RefParts(b, c, a) \in Texts
<1>1. confRow \in [Config!Part -> Numbers] /\ \A level \in Levels : refs[level] \in Config!References
  BY DEF ConfigTypes
<1>2. ASSUME NEW p \in Config!Part
      PROVE  /\ Config!Of(p) \in Texts /\ confRow[p] \in Numbers
             /\ Config!Of(p) = <<>> <=> confRow[p] = 0
  <2>1. <<p, confRow[p]>> \in Config!Part \X Numbers
    BY <1>1
  <2>2. <<<<p, confRow[p]>>>> \in Texts /\ <<>> \in Texts /\ <<<<p, confRow[p]>>>> # <<>>
    BY <2>1 DEF Texts
  <2> QED
    BY <1>1, <2>2 DEF Config!Of
<1>3. \A level \in Levels : Config!Own(level) \in Config!Part
  BY DEF Config!Part, Config!Own, Config!Level, Levels
<1>4. \A a \in A : <<a, "app">> \in Config!Part /\ <<a, "set">> \in Config!Part
  BY DEF Config!Part
<1>5. \A level \in Levels : refs[level] \in Seq(A)
  BY <1>1, ListsOfRefs
<1>6. ASSUME NEW b, NEW c, NEW a \in A PROVE Config!RefParts(b, c, a) \in Texts
  <2>1. Config!Of(<<a, "app">>) \in Texts /\ Config!Of(<<a, "set">>) \in Texts /\ <<>> \in Texts
    BY <1>2, <1>4 DEF Texts
  <2>2. \A s, t : s \in Texts /\ t \in Texts => s \o t \in Texts
    BY ConcatProperties DEF Texts
  <2> QED
    BY <2>1, <2>2 DEF Config!RefParts
<1> QED
  BY <1>2, <1>3, <1>4, <1>5, <1>6

\* The references one after the other.
LEMMA JoinedNext ==
  ASSUME ConfigTypes, NEW l, NEW level \in Levels
  PROVE  /\ Joined(l, level, 0) = <<>>
         /\ \A k \in 0 .. Len(refs[level]) : Joined(l, level, k) \in Texts
         /\ \A k \in Nat : k + 1 <= Len(refs[level]) =>
              Joined(l, level, k + 1)
                = Joined(l, level, k) \o Config!RefParts(l.byInfo, l.inSet, refs[level][k + 1])
<1>1. PICK n \in Nat : n = Len(refs[level])
  BY TextsTyped
<1>2. PICK e : e = [i \in 1 .. n |-> Config!RefParts(l.byInfo, l.inSet, refs[level][i])]
  OBVIOUS
<1>3. \A i \in 1 .. n : e[i] \in Texts /\ e[i] = Config!RefParts(l.byInfo, l.inSet, refs[level][i])
  <2>1. \A i \in 1 .. n : refs[level][i] \in A
    BY <1>1, TextsTyped
  <2> QED
    BY <1>2, <2>1, TextsTyped
<1>4. ASSUME NEW k \in 0 .. n PROVE Joined(l, level, k) = Flat([i \in 1 .. k |-> e[i]])
  <2>1. [i \in 1 .. k |-> Config!RefParts(l.byInfo, l.inSet, refs[level][i])]
          = [i \in 1 .. k |-> e[i]]
    BY <1>3
  <2> QED
    BY <2>1 DEF Joined
<1>5. Joined(l, level, 0) = <<>>
  <2>1. 0 \in 0 .. n
    BY <1>1
  <2>2. Joined(l, level, 0) = Flat([i \in 1 .. 0 |-> e[i]])
    BY <1>4, <2>1
  <2> QED
    BY <2>2, FlatOfNone
<1>6. \A k \in 0 .. n : Joined(l, level, k) \in Texts
  <2>1. PICK X : X = Config!Part \X Numbers
    OBVIOUS
  <2>2. \A i \in 1 .. n : e[i] \in Seq(X)
    BY <1>3, <2>1 DEF Texts
  <2>3. \A k \in 0 .. n : Flat([i \in 1 .. k |-> e[i]]) \in Seq(X)
    BY <1>1, <2>2, FlatInSeq
  <2> QED
    BY <1>4, <2>1, <2>3 DEF Texts
<1>7. ASSUME NEW k \in Nat, k + 1 <= n
      PROVE  Joined(l, level, k + 1)
               = Joined(l, level, k) \o Config!RefParts(l.byInfo, l.inSet, refs[level][k + 1])
  <2>1. k \in 0 .. n /\ k + 1 \in 0 .. n /\ k + 1 \in 1 .. n /\ \A i \in 1 .. k + 1 : i \in 1 .. n
    BY <1>1, <1>7
  <2>2. Flat([i \in 1 .. k + 1 |-> e[i]]) = Flat([i \in 1 .. k |-> e[i]]) \o e[k + 1]
    BY <1>3, <2>1, FlatNext DEF Texts
  <2> QED
    BY <1>3, <1>4, <2>1, <2>2
<1> QED
  BY <1>1, <1>5, <1>6, <1>7

LEMMA LevelIs ==
  ASSUME ConfigTypes, NEW l, NEW level \in Levels
  PROVE  /\ LevelText(l, level) \in Texts
         /\ LevelText(l, level)
              = IF Config!Of(Config!Own(level)) = <<>> THEN <<>>
                ELSE Joined(l, level, Len(refs[level])) \o Config!Of(Config!Own(level))
<1>1. PICK n \in Nat : n = Len(refs[level])
  BY TextsTyped
<1>2. Joined(l, level, n) \in Texts
  <2>1. n \in 0 .. Len(refs[level])
    BY <1>1
  <2> QED
    BY <2>1, JoinedNext
<1>3. Config!Of(Config!Own(level)) \in Texts
      /\ (Config!Of(Config!Own(level)) = <<>> <=> confRow[Config!Own(level)] = 0)
  BY TextsTyped
<1>4. LevelText(l, level)
        = IF confRow[Config!Own(level)] = 0 THEN <<>>
          ELSE Joined(l, level, n) \o Config!Of(Config!Own(level))
  BY <1>1 DEF LevelText, Config!LevelParts, Joined, Flat
<1>5. \A s, t : s \in Texts /\ t \in Texts => s \o t \in Texts
  BY ConcatProperties DEF Texts
<1>6. <<>> \in Texts
  BY DEF Texts
<1> QED
  BY <1>1, <1>2, <1>3, <1>4, <1>5, <1>6
\* What is in the tables is what it was, so that a load that is right stays so.
LEMMA TablesUnchanged ==
  ASSUME UNCHANGED <<confRow, refs>>, NEW n, load' = n, RightSoFar(n)
  PROVE  RightSoFar(load)'
<1>1. \A p : Config!Of(p)' = Config!Of(p)
  BY DEF Config!Of
<1>2. \A b, c, a : Config!RefParts(b, c, a)' = Config!RefParts(b, c, a)
  BY <1>1 DEF Config!RefParts
<1>3. ASSUME NEW l, NEW level, NEW k PROVE Joined(l, level, k)' = Joined(l, level, k)
  <2>1. [i \in 1 .. k |-> Config!RefParts(l.byInfo, l.inSet, refs[level][i])]'
          = [i \in 1 .. k |-> Config!RefParts(l.byInfo, l.inSet, refs[level][i])]
    BY <1>2
  <2> QED
    BY <2>1 DEF Joined
<1>4. ASSUME NEW l, NEW level PROVE LevelText(l, level)' = LevelText(l, level)
  <2>1. LevelText(l, level)
          = IF confRow[Config!Own(level)] = 0 THEN <<>>
            ELSE Joined(l, level, Len(refs[level])) \o Config!Of(Config!Own(level))
    BY DEF LevelText, Config!LevelParts, Joined, Flat
  <2>2. LevelText(l, level)'
          = IF confRow'[Config!Own(level)] = 0 THEN <<>>
            ELSE Joined(l, level, Len(refs[level]))' \o Config!Of(Config!Own(level))'
    BY DEF LevelText, Config!LevelParts, Joined, Flat
  <2>3. Joined(l, level, Len(refs[level]))' = Joined(l, level, Len(refs[level]))
    <3>1. PICK k : k = Len(refs[level])
      OBVIOUS
    <3>2. Joined(l, level, Len(refs[level]))' = Joined(l, level, k)'
      BY <3>1 DEF Joined
    <3> QED
      BY <1>3, <3>1, <3>2
  <2> QED
    BY <1>1, <2>1, <2>2, <2>3
<1>5. RightSoFar(n)'
  BY <1>1, <1>3, <1>4 DEF RightSoFar, Along, Halfway, Refers, Begun
<1> QED
  BY <1>5 DEF RightSoFar, Along, Halfway, Refers, Begun
LEMMA SameCall ==
  ASSUME NEW l, NEW n, n.byInfo = l.byInfo, n.inSet = l.inSet
  PROVE  /\ LevelText(n, "all") = LevelText(l, "all") /\ LevelText(n, "node") = LevelText(l, "node")
         /\ \A level, k : Joined(n, level, k) = Joined(l, level, k)
BY DEF LevelText, Joined

LEMMA BegunStays ==
  ASSUME NEW l, NEW n, n.byInfo = l.byInfo, n.inSet = l.inSet, n.before = l.before,
         n.config = l.config, n.level = l.level, Begun(l)
  PROVE  Begun(n)
<1>1. LevelText(n, "all") = LevelText(l, "all") /\ LevelText(n, "node") = LevelText(l, "node")
  BY SameCall
<1> QED
  BY <1>1 DEF Begun

LEMMA StartAlong ==
  ASSUME NEW n, n.own = Config!Of(Config!Own(n.level)),
         \/ /\ n.own # <<>> /\ n.temp = Joined(n, n.level, 0)
            /\ 0 \in 0 .. Len(refs[n.level])
            /\ n.todo = SubSeq(refs[n.level], 0 + 1, Len(refs[n.level]))
         \/ n.own = <<>> /\ n.todo = <<>> /\ n.temp = <<>>
  PROVE  Along(n)
<1>1. CASE n.own # <<>>
  <2>1. n.temp = Joined(n, n.level, 0) /\ 0 \in 0 .. Len(refs[n.level])
        /\ n.todo = SubSeq(refs[n.level], 0 + 1, Len(refs[n.level]))
    BY <1>1
  <2> QED
    BY <1>1, <2>1 DEF Along, Refers
<1>2. CASE n.own = <<>>
  <2>1. n.todo = <<>> /\ n.temp = <<>>
    BY <1>2
  <2> QED
    BY <1>2, <2>1 DEF Along, Refers
<1> QED
  BY <1>1, <1>2

LEMMA AlongStays ==
  ASSUME NEW l, NEW n, n.byInfo = l.byInfo, n.inSet = l.inSet, n.level = l.level,
         n.own = l.own, n.todo = l.todo, n.temp = l.temp, Along(l)
  PROVE  Along(n)
<1>1. \A k : Joined(n, l.level, k) = Joined(l, l.level, k)
  BY SameCall
<1>2. CASE l.own = <<>>
  BY <1>2, Zenon DEF Along, Refers
<1>3. CASE l.own # <<>>
  <2>1. PICK r : r = refs[l.level]
    OBVIOUS
  <2>2. PICK k \in 0 .. Len(r) : l.todo = SubSeq(r, k + 1, Len(r)) /\ l.temp = Joined(l, l.level, k)
    BY <1>3, <2>1 DEF Along, Refers
  <2>3. n.todo = SubSeq(r, k + 1, Len(r)) /\ n.temp = Joined(n, n.level, k) /\ r = refs[n.level]
    BY <1>1, <2>1, <2>2
  <2>4. n.own = Config!Of(Config!Own(n.level)) /\ n.own # <<>>
    BY <1>3, Zenon DEF Along
  <2> QED
    BY <2>2, <2>3, <2>4, Zenon DEF Along, Refers
<1> QED
  BY <1>2, <1>3

\* A statement of a load leaves the tables alone, and may fail.
LEMMA StatementDone ==
  ASSUME ConfigInv, Config!Statement, Config!Succeeds \/ Config!Fails,
         NEW n \in Loads, load' = n, n.stage = "set" => n.todo # <<>>,
         n.changed \/ n.skipped \/ RightSoFar(n)
  PROVE  ConfigInv'
<1>1. ConfigTypes /\ UNCHANGED <<confRow, refs, changes>>
  BY DEF ConfigInv, Config!Statement
<1>2. faults \in 0 .. FewFaults
  BY <1>1 DEF ConfigTypes
<1>3. faults' \in 0 .. FewFaults
  BY <1>2, ServicesAssumption DEF Config!Succeeds, Config!Fails
<1>4. ConfigTypes'
  BY <1>1, <1>3 DEF ConfigTypes
<1>5. load'.changed \/ load'.skipped \/ RightSoFar(load)'
  BY <1>1, TablesUnchanged
<1> QED
  BY <1>4, <1>5 DEF ConfigInv

LEMMA EmptyText == <<>> \in Texts /\ <<>> \in Seq(A) /\ \A s, t : s \in Texts /\ t \in Texts => s \o t \in Texts
BY ConcatProperties DEF Texts

LEMMA ConfigInit == Config!Init => ConfigInv
<1> SUFFICES ASSUME Config!Init PROVE ConfigInv
  OBVIOUS
<1>1. load = [stage |-> "none", level |-> "all", byInfo |-> FALSE, inSet |-> FALSE, todo |-> <<>>,
              temp |-> <<>>, config |-> <<>>, half |-> <<>>, own |-> <<>>, ret |-> 0,
              before |-> <<>>, changed |-> FALSE, skipped |-> FALSE]
  BY DEF Config!Init, Config!NoLoad
<1>2. load \in Loads /\ load.stage = "none"
  BY <1>1, EmptyText DEF Loads, ConfigStages, Levels
<1>3. confRow \in [Config!Part -> Numbers] /\ refs \in [Levels -> Config!References]
  <2>1. 1 \in Numbers
    BY ServicesAssumption DEF Numbers
  <2>2. confRow = [p \in Config!Part |-> 1]
    BY DEF Config!Init
  <2>3. refs \in [Levels -> Config!References]
    BY DEF Config!Init, Config!Level, Levels
  <2> QED
    BY <2>1, <2>2, <2>3
<1>4. ConfigTypes
  BY <1>2, <1>3, ServicesAssumption DEF ConfigTypes, Config!Init
<1>5. RightSoFar(load)
  BY <1>2 DEF RightSoFar, Halfway
<1> QED
  BY <1>2, <1>4, <1>5 DEF ConfigInv

LEMMA TablesChange == ConfigInv /\ Config!Change => ConfigInv'
<1> SUFFICES ASSUME ConfigInv, Config!Change PROVE ConfigInv'
  OBVIOUS
<1>1. ConfigTypes /\ changes < MaxChanges /\ changes' = changes + 1 /\ UNCHANGED faults
      /\ load' = [load EXCEPT !.changed = TRUE]
  BY DEF ConfigInv, Config!Change
<1>2. changes \in 0 .. MaxChanges /\ load \in Loads
  BY <1>1 DEF ConfigTypes
<1>3. load' \in Loads /\ load'.changed /\ load'.stage = load.stage /\ load'.todo = load.todo
  BY <1>1, <1>2 DEF Loads
<1>4. changes' \in 0 .. MaxChanges /\ 0 \in Numbers /\ changes + 2 \in Numbers
  BY <1>1, <1>2, ServicesAssumption DEF Numbers
<1>5. confRow' \in [Config!Part -> Numbers] /\ refs' \in [Levels -> Config!References]
  <2>1. confRow \in [Config!Part -> Numbers] /\ refs \in [Levels -> Config!References]
    BY <1>1 DEF ConfigTypes
  <2>2. CASE \E p \in Config!Part, n \in {0, changes + 2} :
               confRow' = [confRow EXCEPT ![p] = n] /\ UNCHANGED refs
    BY <1>4, <2>1, <2>2
  <2>3. CASE \E l \in Config!Level, r \in Config!References :
               refs' = [refs EXCEPT ![l] = r] /\ UNCHANGED confRow
    BY <2>1, <2>3
  <2> QED
    BY <2>2, <2>3 DEF Config!Change
<1>6. ConfigTypes'
  BY <1>1, <1>3, <1>4, <1>5 DEF ConfigTypes
<1>7. load'.stage = "set" => load'.todo # <<>>
  BY <1>3 DEF ConfigInv
<1> QED
  BY <1>3, <1>6, <1>7 DEF ConfigInv

LEMMA LoadBegins == ConfigInv /\ Config!loadConfig => ConfigInv'
<1> SUFFICES ASSUME ConfigInv, Config!loadConfig PROVE ConfigInv'
  OBVIOUS
<1>1. ConfigTypes /\ Config!Statement /\ Config!Succeeds
  BY DEF ConfigInv, Config!loadConfig
<1>2. PICK byInfo, inSet \in BOOLEAN :
        load' = [Config!NoLoad EXCEPT !.stage = "own", !.byInfo = byInfo, !.inSet = inSet,
                                      !.before = Config!Merged(byInfo, inSet)]
  BY DEF Config!loadConfig
<1>3. PICK none : none = [stage |-> "none", level |-> "all", byInfo |-> FALSE, inSet |-> FALSE,
                          todo |-> <<>>, temp |-> <<>>, config |-> <<>>, half |-> <<>>, own |-> <<>>,
                          ret |-> 0, before |-> <<>>, changed |-> FALSE, skipped |-> FALSE]
  OBVIOUS
<1>4. PICK before, n : /\ before = Config!Merged(byInfo, inSet)
                       /\ n = [none EXCEPT !.stage = "own", !.byInfo = byInfo, !.inSet = inSet,
                                           !.before = before]
  OBVIOUS
<1>10. load' = n
  <2>1. none = Config!NoLoad
    BY <1>3, Zenon DEF Config!NoLoad
  <2> QED
    BY <1>2, <1>4, <2>1, Zenon
<1>11. /\ n.stage = "own" /\ n.level = "all" /\ n.byInfo = byInfo /\ n.inSet = inSet
       /\ n.before = before /\ n.config = <<>> /\ n.temp = <<>> /\ n.own = <<>>
  BY <1>3, <1>4
<1>5. before = LevelText(n, "all") \o LevelText(n, "node")
  BY <1>4, <1>11, Zenon DEF Config!Merged, LevelText
<1>6. before \in Texts
  BY <1>1, <1>5, LevelIs, EmptyText DEF Levels
<1>7. n \in Loads
  <2>1. none \in Loads
    BY <1>3, EmptyText DEF Loads, ConfigStages, Levels
  <2> QED
    BY <1>4, <1>6, <2>1 DEF Loads, ConfigStages
<1>8. RightSoFar(n)
  <2>1. Begun(n)
    BY <1>5, <1>11 DEF Begun
  <2> QED
    BY <1>11, <2>1 DEF RightSoFar, Halfway
<1> QED
  BY <1>1, <1>7, <1>8, <1>10, <1>11, StatementDone

\* The row of the level.
LEMMA OwnRead == ConfigInv /\ Config!selectOwn => ConfigInv'
<1> SUFFICES ASSUME ConfigInv, Config!selectOwn PROVE ConfigInv'
  OBVIOUS
<1>1. ConfigTypes /\ Config!Statement /\ load.stage = "own" /\ load \in Loads
  BY DEF ConfigInv, ConfigTypes, Config!selectOwn
<1>2. CASE load' = [load EXCEPT !.stage = "refs", !.own = Config!Of(Config!Own(load.level))]
           /\ Config!Succeeds
  <2>1. PICK own : own = Config!Of(Config!Own(load.level))
    OBVIOUS
  <2>2. own \in Texts
    <3>1. load.level \in Levels
      BY <1>1 DEF Loads
    <3> QED
      BY <1>1, <2>1, <3>1, TextsTyped
  <2>3. PICK n : n = [load EXCEPT !.stage = "refs", !.own = own]
    OBVIOUS
  <2>4. /\ n \in Loads /\ n.stage = "refs" /\ n.own = own /\ n.level = load.level
        /\ n.byInfo = load.byInfo /\ n.inSet = load.inSet /\ n.temp = load.temp
        /\ n.config = load.config /\ n.before = load.before
        /\ n.changed = load.changed /\ n.skipped = load.skipped
    BY <1>1, <2>2, <2>3 DEF Loads, ConfigStages
  <2>5. ASSUME RightSoFar(load) PROVE RightSoFar(n)
    <3>1. Begun(load) /\ load.temp = <<>>
      BY <1>1, <2>5, Zenon DEF RightSoFar
    <3>2. Begun(n)
      BY <2>4, <3>1, BegunStays
    <3>3. n.own = Config!Of(Config!Own(n.level)) /\ n.temp = <<>>
      BY <2>1, <2>4, <3>1, Zenon
    <3> QED
      BY <2>4, <3>2, <3>3 DEF RightSoFar, Halfway
  <2>6. n.changed \/ n.skipped \/ RightSoFar(n)
    BY <2>4, <2>5 DEF ConfigInv
  <2>7. load' = n /\ n.stage # "set"
    BY <1>2, <2>1, <2>3, <2>4
  <2> QED
    BY <1>1, <1>2, <2>4, <2>6, <2>7, StatementDone
<1>3. CASE load' = [load EXCEPT !.stage = "done", !.ret = 1] /\ Config!Fails
  <2>1. PICK n : n = [load EXCEPT !.stage = "done", !.ret = 1]
    OBVIOUS
  <2>2. n \in Loads /\ n.stage = "done" /\ n.ret = 1
    BY <1>1, <2>1 DEF Loads, ConfigStages
  <2>3. RightSoFar(n)
    BY <2>2 DEF RightSoFar, Halfway, ConfigStages
  <2> QED
    BY <1>1, <1>3, <2>1, <2>2, <2>3, StatementDone
<1> QED
  BY <1>2, <1>3 DEF Config!selectOwn

\* What the file of the level refers to.
LEMMA ReferencesRead == ConfigInv /\ Config!getReferenceIds => ConfigInv'
<1> SUFFICES ASSUME ConfigInv, Config!getReferenceIds PROVE ConfigInv'
  OBVIOUS
<1>1. ConfigTypes /\ Config!Statement /\ load.stage = "refs" /\ load \in Loads /\ load.level \in Levels
  BY DEF ConfigInv, ConfigTypes, Loads, Config!getReferenceIds
<1>2. CASE load' = [load EXCEPT !.stage = "ref", !.ret = 0,
                      !.todo = IF load.own = <<>> THEN <<>> ELSE refs[load.level]]
           /\ Config!Succeeds
  <2>1. PICK todo : todo = IF load.own = <<>> THEN <<>> ELSE refs[load.level]
    OBVIOUS
  <2>2. refs[load.level] \in Seq(A) /\ <<>> \in Seq(A)
    BY <1>1, TextsTyped
  <2>3. PICK n : n = [load EXCEPT !.stage = "ref", !.ret = 0, !.todo = todo]
    OBVIOUS
  <2>4. /\ n \in Loads /\ n.stage = "ref" /\ n.own = load.own /\ n.level = load.level
        /\ n.byInfo = load.byInfo /\ n.inSet = load.inSet /\ n.temp = load.temp
        /\ n.config = load.config /\ n.before = load.before /\ n.todo = todo
        /\ n.changed = load.changed /\ n.skipped = load.skipped
    BY <1>1, <2>1, <2>2, <2>3 DEF Loads, ConfigStages
  <2>5. ASSUME RightSoFar(load) PROVE RightSoFar(n)
    <3>1. n.own = Config!Of(Config!Own(n.level)) /\ n.temp = <<>>
      <4>1. load.own = Config!Of(Config!Own(load.level)) /\ load.temp = <<>>
        BY <1>1, <2>5, Zenon DEF RightSoFar
      <4> QED
        BY <2>4, <4>1, Zenon
    <3>2. ASSUME n.own # <<>> PROVE Along(n)
      <4>1. PICK m : m = Len(refs[n.level])
        OBVIOUS
      <4>2. m \in Nat /\ todo = refs[n.level]
        BY <2>1, <2>2, <2>4, <3>2, <4>1
      <4>3. todo = SubSeq(refs[n.level], 0 + 1, m)
        BY <2>2, <2>4, <4>1, <4>2
      <4>4. n.temp = Joined(n, n.level, 0)
        BY <1>1, <2>4, <3>1, JoinedNext
      <4>5. 0 \in 0 .. Len(refs[n.level]) /\ n.todo = SubSeq(refs[n.level], 0 + 1, Len(refs[n.level]))
        BY <2>4, <4>1, <4>2, <4>3
      <4> QED
        BY <3>1, <3>2, <4>4, <4>5, StartAlong
    <3>3. ASSUME n.own = <<>> PROVE Along(n)
      <4>1. n.todo = <<>>
        BY <2>1, <2>4, <3>3
      <4> QED
        BY <3>1, <3>3, <4>1, StartAlong
    <3>4. Along(n)
      BY <3>2, <3>3
    <3>5. Begun(n)
      <4>1. Begun(load)
        BY <1>1, <2>5, Zenon DEF RightSoFar
      <4> QED
        BY <2>4, <4>1, BegunStays
    <3> QED
      BY <2>4, <3>4, <3>5 DEF RightSoFar, Halfway
  <2>6. n.changed \/ n.skipped \/ RightSoFar(n)
    BY <2>4, <2>5 DEF ConfigInv
  <2>7. load' = n /\ n.stage # "set"
    BY <1>2, <2>1, <2>3, <2>4
  <2> QED
    BY <1>1, <1>2, <2>4, <2>6, <2>7, StatementDone
<1>3. CASE load' = [load EXCEPT !.stage = "merge", !.ret = 1, !.skipped = TRUE] /\ Config!Fails
  <2>1. PICK n : n = [load EXCEPT !.stage = "merge", !.ret = 1, !.skipped = TRUE]
    OBVIOUS
  <2>2. n \in Loads /\ n.stage = "merge" /\ n.skipped
    BY <1>1, <2>1 DEF Loads, ConfigStages
  <2> QED
    BY <1>1, <1>3, <2>1, <2>2, StatementDone
<1> QED
  BY <1>2, <1>3 DEF Config!getReferenceIds

\* A reference that is loaded is behind those before it.
LEMMA ReferenceLoaded ==
  ASSUME ConfigInv, Config!Statement, Config!Succeeds, load.stage \in {"ref", "set"},
         load.todo # <<>>, NEW parts \in Texts, load' = Config!Loaded(parts),
         RightSoFar(load) => parts = Config!RefParts(load.byInfo, load.inSet, Head(load.todo))
  PROVE  ConfigInv'
<1>1. ConfigTypes /\ load \in Loads /\ load.level \in Levels
  BY DEF ConfigInv, ConfigTypes, Loads
<1>2. Tail(load.todo) \in Seq(A) /\ load.temp \o parts \in Texts
  <2>1. load.todo \in Seq(A) /\ load.temp \in Texts
    BY <1>1 DEF Loads
  <2> QED
    BY <2>1, HeadTailProperties, EmptyText
<1>3. PICK todo, temp : todo = Tail(load.todo) /\ temp = load.temp \o parts
  OBVIOUS
<1>4. PICK n : n = [load EXCEPT !.stage = "ref", !.todo = todo, !.temp = temp, !.half = <<>>, !.ret = 0]
  OBVIOUS
<1>5. load' = n
  BY <1>3, <1>4 DEF Config!Loaded
<1>6. /\ n \in Loads /\ n.stage = "ref" /\ n.own = load.own /\ n.level = load.level
      /\ n.byInfo = load.byInfo /\ n.inSet = load.inSet /\ n.temp = temp
      /\ n.config = load.config /\ n.before = load.before /\ n.todo = todo
      /\ n.changed = load.changed /\ n.skipped = load.skipped
  BY <1>1, <1>2, <1>3, <1>4, EmptyText DEF Loads, ConfigStages
<1>7. ASSUME RightSoFar(load) PROVE RightSoFar(n)
  <2>1. Along(load) /\ load.own # <<>>
    BY <1>7 DEF RightSoFar, Along, Refers
  <2>2. PICK refsOf \in Seq(A) : refsOf = refs[load.level]
    BY <1>1, TextsTyped
  <2>3. PICK m \in Nat : m = Len(refsOf)
    BY <2>2
  <2>4. PICK k \in 0 .. m : load.todo = SubSeq(refsOf, k + 1, m) /\ load.temp = Joined(load, load.level, k)
    BY <2>1, <2>2, <2>3 DEF Along, Refers
  <2>5. k < m
    <3>1. CASE k = m
      <4>1. SubSeq(refsOf, k + 1, m) = <<>>
        BY <3>1, <2>2, <2>3
      <4> QED
        BY <2>4, <4>1
    <3> QED
      BY <2>4, <3>1
  <2>6. Head(load.todo) = refsOf[k + 1] /\ todo = SubSeq(refsOf, (k + 1) + 1, m)
    BY <1>3, <2>2, <2>3, <2>4, <2>5
  <2>7. Joined(load, load.level, k + 1)
          = Joined(load, load.level, k) \o Config!RefParts(load.byInfo, load.inSet, refsOf[k + 1])
    <3>1. \A i \in Nat : i + 1 <= Len(refs[load.level]) =>
              Joined(load, load.level, i + 1) = Joined(load, load.level, i)
                \o Config!RefParts(load.byInfo, load.inSet, refs[load.level][i + 1])
      BY <1>1, JoinedNext
    <3>2. k \in Nat /\ k + 1 <= Len(refs[load.level])
      BY <2>2, <2>3, <2>5
    <3>3. Joined(load, load.level, k + 1) = Joined(load, load.level, k)
                \o Config!RefParts(load.byInfo, load.inSet, refs[load.level][k + 1])
      BY <3>1, <3>2, Zenon
    <3> QED
      BY <2>2, <3>3, Zenon
  <2>8. temp = Joined(n, n.level, k + 1)
    <3>1. Config!RefParts(load.byInfo, load.inSet, refsOf[k + 1]) = parts
      BY <1>7, <2>6, Zenon
    <3>2. temp = Joined(load, load.level, k + 1)
      BY <1>3, <2>4, <2>7, <3>1, Zenon
    <3>3. Joined(n, load.level, k + 1) = Joined(load, load.level, k + 1)
      <4>1. n.byInfo = load.byInfo /\ n.inSet = load.inSet
        BY <1>6
      <4> QED
        BY <4>1, SameCall
    <3> QED
      BY <1>6, <3>2, <3>3, Zenon
  <2>9. k + 1 \in 0 .. m
    BY <2>5
  <2>10. Along(n)
    <3>1. k + 1 \in 0 .. Len(refs[n.level])
          /\ n.todo = SubSeq(refs[n.level], (k + 1) + 1, Len(refs[n.level]))
      BY <1>6, <2>2, <2>3, <2>6, <2>9
    <3>2. n.own = Config!Of(Config!Own(n.level)) /\ n.own # <<>>
      BY <1>6, <2>1, Zenon DEF Along
    <3>3. n.temp = Joined(n, n.level, k + 1)
      BY <1>6, <2>8
    <3> QED
      BY <3>1, <3>2, <3>3, Zenon DEF Along, Refers
  <2>11. Begun(n)
    <3>1. Begun(load)
      BY <1>7, Zenon DEF RightSoFar
    <3> QED
      BY <1>6, <3>1, BegunStays
  <2> QED
    BY <1>6, <2>10, <2>11 DEF RightSoFar, Halfway
<1>8. n.changed \/ n.skipped \/ RightSoFar(n)
  BY <1>6, <1>7 DEF ConfigInv
<1> QED
  BY <1>5, <1>6, <1>8, StatementDone

LEMMA ReferenceSkipped ==
  ASSUME ConfigInv, Config!Statement, Config!Fails, load.todo # <<>>, Config!RefFails
  PROVE  ConfigInv'
<1>1. ConfigTypes /\ load \in Loads
  BY DEF ConfigInv, ConfigTypes, Loads
<1>2. Tail(load.todo) \in Seq(A)
  <2>1. load.todo \in Seq(A)
    BY <1>1 DEF Loads
  <2> QED
    BY <2>1, HeadTailProperties
<1>3. PICK todo : todo = Tail(load.todo)
  OBVIOUS
<1>4. PICK n : n = [load EXCEPT !.stage = "ref", !.todo = todo, !.half = <<>>, !.ret = 1,
                               !.skipped = TRUE]
  OBVIOUS
<1>5. load' = n
  BY <1>3, <1>4 DEF Config!RefFails
<1>6. n \in Loads /\ n.stage = "ref" /\ n.skipped
  BY <1>1, <1>2, <1>3, <1>4, EmptyText DEF Loads, ConfigStages
<1> QED
  BY <1>5, <1>6, StatementDone

LEMMA AppRead == ConfigInv /\ Config!loadRefConfigByPK => ConfigInv'
<1> SUFFICES ASSUME ConfigInv, Config!loadRefConfigByPK PROVE ConfigInv'
  OBVIOUS
<1>1. /\ ConfigTypes /\ Config!Statement /\ load.stage = "ref" /\ load.todo # <<>>
      /\ load \in Loads
  BY DEF ConfigInv, ConfigTypes, Config!loadRefConfigByPK
<1>2. PICK app : app = Config!Of(<<Head(load.todo), "app">>)
  OBVIOUS
<1>3. app \in Texts /\ (app = <<>> <=> confRow[<<Head(load.todo), "app">>] = 0)
  <2>1. Head(load.todo) \in A
    <3>1. load.todo \in Seq(A)
      BY <1>1 DEF Loads
    <3> QED
      BY <1>1, <3>1, HeadTailProperties
  <2>2. <<Head(load.todo), "app">> \in Config!Part
    BY <1>1, <2>1, TextsTyped
  <2> QED
    BY <1>1, <1>2, <2>2, TextsTyped
<1>4. CASE Config!RefFails /\ Config!Fails
  BY <1>1, <1>4, ReferenceSkipped
<1>5. CASE Config!Succeeds /\ load.byInfo /\ load.inSet /\ app # <<>>
           /\ load' = [load EXCEPT !.stage = "set", !.half = app]
  <2>1. PICK n : n = [load EXCEPT !.stage = "set", !.half = app]
    OBVIOUS
  <2>2. /\ n \in Loads /\ n.stage = "set" /\ n.own = load.own /\ n.level = load.level
        /\ n.byInfo = load.byInfo /\ n.inSet = load.inSet /\ n.temp = load.temp
        /\ n.config = load.config /\ n.before = load.before /\ n.todo = load.todo
        /\ n.changed = load.changed /\ n.skipped = load.skipped /\ n.half = app
    BY <1>1, <1>3, <2>1 DEF Loads, ConfigStages
  <2>3. ASSUME RightSoFar(load) PROVE RightSoFar(n)
    <3>1. Along(n)
      <4>1. Along(load)
        BY <1>1, <2>3 DEF RightSoFar
      <4> QED
        BY <2>2, <4>1, AlongStays
    <3>3. Begun(n)
      <4>1. Begun(load)
        BY <1>1, <2>3, Zenon DEF RightSoFar
      <4> QED
        BY <2>2, <4>1, BegunStays
    <3>2. Halfway(n)
      BY <1>1, <1>2, <1>5, <2>2 DEF Halfway
    <3> QED
      BY <2>2, <3>1, <3>2, <3>3 DEF RightSoFar
  <2>4. n.changed \/ n.skipped \/ RightSoFar(n)
    BY <2>2, <2>3 DEF ConfigInv
  <2> QED
    BY <1>1, <1>5, <2>1, <2>2, <2>4, StatementDone
<1>6. CASE Config!Succeeds /\ ~(load.byInfo /\ load.inSet /\ app # <<>>) /\ load' = Config!Loaded(app)
  <2>1. app = Config!RefParts(load.byInfo, load.inSet, Head(load.todo))
    <3>1. app \o <<>> = app
      BY <1>3, ConcatEmptySeq DEF Texts
    <3>2. ~(load.byInfo /\ load.inSet /\ confRow[<<Head(load.todo), "app">>] # 0)
      BY <1>3, <1>6
    <3>3. Config!RefParts(load.byInfo, load.inSet, Head(load.todo)) = app \o <<>>
      BY <1>2, <3>2 DEF Config!RefParts
    <3> QED
      BY <3>1, <3>3
  <2> QED
    BY <1>1, <1>3, <1>6, <2>1, ReferenceLoaded
<1>7. \/ Config!RefFails /\ Config!Fails
      \/ /\ Config!Succeeds
         /\ IF load.byInfo /\ load.inSet /\ app # <<>>
            THEN load' = [load EXCEPT !.stage = "set", !.half = app]
            ELSE load' = Config!Loaded(app)
  BY <1>2, Zenon DEF Config!loadRefConfigByPK
<1> QED
  BY <1>4, <1>5, <1>6, <1>7

LEMMA SetRead == ConfigInv /\ Config!selectSet => ConfigInv'
<1> SUFFICES ASSUME ConfigInv, Config!selectSet PROVE ConfigInv'
  OBVIOUS
<1>1. /\ ConfigTypes /\ Config!Statement /\ load.stage = "set" /\ load.todo # <<>>
      /\ load \in Loads
  BY DEF ConfigInv, ConfigTypes, Config!selectSet
<1>2. PICK set : set = Config!Of(<<Head(load.todo), "set">>)
  OBVIOUS
<1>3. Head(load.todo) \in A
  <2>1. load.todo \in Seq(A)
    BY <1>1 DEF Loads
  <2> QED
    BY <1>1, <2>1, HeadTailProperties
<1>4. set \in Texts /\ load.half \in Texts
  <2>1. <<Head(load.todo), "set">> \in Config!Part
    BY <1>1, <1>3, TextsTyped
  <2> QED
    BY <1>1, <1>2, <2>1, TextsTyped DEF Loads
<1>5. CASE load' = Config!Loaded(load.half \o set) /\ Config!Succeeds
  <2>1. ASSUME RightSoFar(load)
        PROVE  load.half \o set = Config!RefParts(load.byInfo, load.inSet, Head(load.todo))
    <3>1. /\ load.byInfo /\ load.inSet /\ load.half # <<>>
          /\ load.half = Config!Of(<<Head(load.todo), "app">>)
      BY <1>1, <2>1 DEF RightSoFar, Halfway
    <3>2. confRow[<<Head(load.todo), "app">>] # 0
      BY <3>1 DEF Config!Of
    <3> QED
      BY <1>2, <3>1, <3>2, Zenon DEF Config!RefParts
  <2>2. load.half \o set \in Texts
    BY <1>4, EmptyText
  <2> QED
    BY <1>1, <1>5, <2>1, <2>2, ReferenceLoaded
<1>6. CASE Config!RefFails /\ Config!Fails
  BY <1>1, <1>6, ReferenceSkipped
<1> QED
  BY <1>2, <1>5, <1>6 DEF Config!selectSet

LEMMA LevelRead == ConfigInv /\ Config!RefsDone => ConfigInv'
<1> SUFFICES ASSUME ConfigInv, Config!RefsDone PROVE ConfigInv'
  OBVIOUS
<1>1. /\ ConfigTypes /\ Config!Statement /\ Config!Succeeds /\ load.stage = "ref" /\ load.todo = <<>>
      /\ load \in Loads /\ load.level \in Levels
  BY DEF ConfigInv, ConfigTypes, Loads, Config!RefsDone
<1>2. PICK n : n = [load EXCEPT !.stage = "merge"]
  OBVIOUS
<1>3. /\ n \in Loads /\ n.stage = "merge" /\ n.own = load.own /\ n.level = load.level
      /\ n.byInfo = load.byInfo /\ n.inSet = load.inSet /\ n.temp = load.temp
      /\ n.config = load.config /\ n.before = load.before
      /\ n.changed = load.changed /\ n.skipped = load.skipped
  BY <1>1, <1>2 DEF Loads, ConfigStages
<1>4. ASSUME RightSoFar(load) PROVE RightSoFar(n)
  <2>1. Along(load)
    BY <1>1, <1>4 DEF RightSoFar
  <2>2. load.temp \o load.own = LevelText(load, load.level)
    <3>1. CASE load.own = <<>>
      <4>1. load.temp = <<>> /\ Config!Of(Config!Own(load.level)) = <<>>
        BY <2>1, <3>1 DEF Along, Refers
      <4>2. LevelText(load, load.level) = <<>>
        BY <1>1, <4>1, LevelIs
      <4> QED
        BY <3>1, <4>1, <4>2, EmptyText, ConcatEmptySeq DEF Texts
    <3>2. CASE load.own # <<>>
      <4>1. PICK refsOf \in Seq(A) : refsOf = refs[load.level]
        BY <1>1, TextsTyped
      <4>2. PICK m \in Nat : m = Len(refsOf)
        BY <4>1
      <4>3. PICK k \in 0 .. m : load.todo = SubSeq(refsOf, k + 1, m)
                                /\ load.temp = Joined(load, load.level, k)
        BY <2>1, <3>2, <4>1, <4>2 DEF Along, Refers
      <4>4. k = m
        <5>1. SUFFICES ASSUME k + 1 <= m PROVE FALSE
          BY <4>3
        <5>2. Len(SubSeq(refsOf, k + 1, m)) = m - k
          BY <4>1, <4>2, <4>3, <5>1
        <5> QED
          BY <1>1, <4>3, <5>1, <5>2
      <4>5. load.own = Config!Of(Config!Own(load.level))
        BY <2>1 DEF Along
      <4>6. LevelText(load, load.level) = Joined(load, load.level, m) \o load.own
        BY <1>1, <3>2, <4>1, <4>2, <4>5, LevelIs
      <4> QED
        BY <4>3, <4>4, <4>6
    <3> QED
      BY <3>1, <3>2
  <2>3. Begun(n)
    <3>1. Begun(load)
      BY <1>1, <1>4, Zenon DEF RightSoFar
    <3> QED
      BY <1>3, <3>1, BegunStays
  <2>4. n.temp \o n.own = LevelText(n, n.level)
    <3>1. LevelText(n, n.level) = LevelText(load, load.level)
      BY <1>1, <1>3, SameCall DEF Levels
    <3> QED
      BY <1>3, <2>2, <3>1
  <2> QED
    BY <1>3, <2>3, <2>4 DEF RightSoFar, Halfway
<1>5. n.changed \/ n.skipped \/ RightSoFar(n)
  BY <1>3, <1>4 DEF ConfigInv
<1>6. load' = n
  BY <1>2 DEF Config!RefsDone
<1> QED
  BY <1>1, <1>3, <1>5, <1>6, StatementDone

LEMMA LevelMerged == ConfigInv /\ Config!Merge => ConfigInv'
<1> SUFFICES ASSUME ConfigInv, Config!Merge PROVE ConfigInv'
  OBVIOUS
<1>1. /\ ConfigTypes /\ Config!Statement /\ Config!Succeeds /\ load.stage = "merge"
      /\ load \in Loads /\ load.level \in Levels
      /\ load.temp \in Texts /\ load.own \in Texts /\ load.config \in Texts
  BY DEF ConfigInv, ConfigTypes, Loads, Config!Merge
<1>2. PICK merged : merged = load.config \o load.temp \o load.own
  OBVIOUS
<1>3. merged \in Texts /\ merged = load.config \o (load.temp \o load.own)
  <2>1. PICK X : Texts = Seq(X)
    BY DEF Texts
  <2>2. PICK s, t, u \in Seq(X) : s = load.config /\ t = load.temp /\ u = load.own
    BY <1>1, <2>1
  <2>3. (s \o t) \o u \in Seq(X) /\ (s \o t) \o u = s \o (t \o u)
    <3>1. s \o t \in Seq(X)
      BY ConcatProperties
    <3> QED
      BY <3>1, ConcatProperties, ConcatAssociative, SMTT(20)
  <2> QED
    BY <1>2, <2>1, <2>2, <2>3, SMTT(20)
<1>4. PICK stage : stage = IF load.level = "all" THEN "own" ELSE "done"
  OBVIOUS
<1>5. PICK n : n = [load EXCEPT !.stage = stage, !.level = "node", !.temp = <<>>, !.config = merged,
                               !.own = <<>>]
  OBVIOUS
<1>6. load' = n
  BY <1>2, <1>4, <1>5 DEF Config!Merge, Config!mergeConfig
<1>7. /\ n \in Loads /\ n.stage = stage /\ n.own = <<>> /\ n.level = "node"
      /\ n.byInfo = load.byInfo /\ n.inSet = load.inSet /\ n.temp = <<>>
      /\ n.config = merged /\ n.before = load.before
      /\ n.changed = load.changed /\ n.skipped = load.skipped
  BY <1>1, <1>3, <1>4, <1>5, EmptyText DEF Loads, ConfigStages, Levels
<1>8. ASSUME RightSoFar(load) PROVE RightSoFar(n)
  <2>1. /\ load.before = LevelText(load, "all") \o LevelText(load, "node")
        /\ load.config = IF load.level = "all" THEN <<>> ELSE LevelText(load, "all")
        /\ load.temp \o load.own = LevelText(load, load.level)
    BY <1>1, <1>8 DEF RightSoFar, Begun
  <2>2. CASE load.level = "all"
    <3>1. merged = LevelText(load, "all")
      <4>1. load.temp \o load.own \in Texts
        BY <1>1, EmptyText
      <4>2. <<>> \o (load.temp \o load.own) = load.temp \o load.own
        BY <4>1, ConcatEmptySeq DEF Texts
      <4> QED
        BY <1>3, <2>1, <2>2, <4>2
    <3>2. n.stage = "own"
      BY <1>4, <1>7, <2>2
    <3> QED
      BY <1>7, <2>1, <3>1, <3>2, SameCall DEF RightSoFar, Halfway, Begun
  <2>3. CASE load.level # "all"
    <3>1. load.level = "node"
      BY <1>1, <2>3 DEF Levels
    <3>2. merged = load.before
      BY <1>3, <2>1, <3>1
    <3>3. n.stage = "done"
      BY <1>4, <1>7, <2>3
    <3> QED
      BY <1>7, <3>2, <3>3 DEF RightSoFar, Halfway, ConfigStages
  <2> QED
    BY <2>2, <2>3
<1>9. n.changed \/ n.skipped \/ RightSoFar(n)
  BY <1>7, <1>8 DEF ConfigInv
<1>10. n.stage # "set"
  BY <1>4, <1>7
<1> QED
  BY <1>1, <1>6, <1>7, <1>9, <1>10, StatementDone

LEMMA ConfigStep == ConfigInv /\ Config!Next => ConfigInv'
BY TablesChange, LoadBegins, OwnRead, ReferencesRead, AppRead, SetRead, LevelRead, LevelMerged
   DEF Config!Next

LEMMA ConfigRest == ConfigInv /\ UNCHANGED <<configVars, faults>> => ConfigInv'
<1> SUFFICES ASSUME ConfigInv, UNCHANGED <<configVars, faults>> PROVE ConfigInv'
  OBVIOUS
<1>1. UNCHANGED <<confRow, refs, changes, faults, load>>
  BY DEF configVars
<1>2. PICK n : n = load
  OBVIOUS
<1>3. ConfigTypes' /\ (load'.stage = "set" => load'.todo # <<>>)
  BY <1>1 DEF ConfigInv, ConfigTypes
<1>4. RightSoFar(load) => RightSoFar(load)'
  BY <1>1, <1>2, TablesUnchanged
<1> QED
  BY <1>1, <1>3, <1>4 DEF ConfigInv

LEMMA ConfigHolds == ConfigInv => Config!TypeOK /\ Config!LoadTrue
<1> SUFFICES ASSUME ConfigInv PROVE Config!TypeOK /\ Config!LoadTrue
  OBVIOUS
<1>1. ConfigTypes /\ load \in Loads
  BY DEF ConfigInv, ConfigTypes
<1>2. Config!TypeOK
  BY <1>1 DEF ConfigTypes, Config!TypeOK, Loads, ConfigStages, Config!Level, Levels, Texts, Numbers,
              Config!Parts
<1>3. Config!LoadTrue
  BY DEF ConfigInv, RightSoFar, Config!LoadTrue
<1> QED
  BY <1>2, <1>3

-----------------------------------------------------------------------------
(*****************************************************************************)
(* Queries (QueryFanOut)                                                     *)
(*****************************************************************************)
Runners ==
  [stage : {"pop", "data", "time", "answered"}, from : Query!Flag, to : Query!Flag,
   times : {0, Cardinality(B)}, atomic : 0 .. Cardinality(B),
   rows : SUBSET Query!Row, ok : BOOLEAN, last : BOOLEAN]
Jobs ==
  [kind : {"none", "data", "time"}, stage : {"queued", "running", "counted"},
   at : (0 .. Hours) \X Minutes, rows : SUBSET Query!Row, ok : BOOLEAN]

Between(from, to) == {x \in Query!Row : Query!Before(from, x.at) /\ Query!Before(x.at, to)}
OfDb(from, to, d) == {x \in Between(from, to) : x.db = d}
OfHours(from, to, d, n) == {x \in OfDb(from, to, d) : x.at[1] < n}

\* A job on its way has the rows of the hours it has passed; one that went well
\* to the end has all of its database.
JobRight(from, to, d, k) ==
  IF k.stage = "counted"
  THEN k.ok => k.rows = OfDb(from, to, d) \/ from[2] > to[2]
  ELSE k.at[2] = from[2] /\ k.rows = OfHours(from, to, d, k.at[1])

CountedOf(jobs) == {d \in B : jobs[d].stage = "counted"}

\* The counter is the number of counted jobs in either round; nothing is left
\* of a round when it is over.
RunnerRight(q, jobs) ==
  /\ q.stage \in {"pop", "answered"} => q.atomic = 0 /\ CountedOf(jobs) = B
  /\ q.stage \in {"data", "time"} =>
       /\ q.times = Cardinality(B) /\ q.atomic = Cardinality(CountedOf(jobs))
       /\ \A d \in B : jobs[d].kind = q.stage
  /\ q.stage = "data" => \A d \in B : JobRight(q.from, q.to, d, jobs[d])
  /\ q.stage \in {"time", "answered"} =>
       (q.ok => q.rows = Between(q.from, q.to) \/ q.from[2] > q.to[2])

QueryInv ==
  /\ queries \in 0 .. MaxQueries /\ faults \in 0 .. FewFaults
  /\ runner \in [A -> Runners] /\ job \in [A \X B -> Jobs]
  /\ \A r \in A : RunnerRight(runner[r], [d \in B |-> job[<<r, d>>]])

LEMMA DbsCounted ==
  /\ IsFiniteSet(B) /\ Cardinality(B) \in Nat
  /\ Query!Cardinality(B) = Cardinality(B)
<1>1. IsFiniteSet(B)
  BY ServicesAssumption
<1>2. Cardinality(B) \in Nat
  BY <1>1, FS_CardinalityType
<1>3. Query!Cardinality(B) = Cardinality(B)
  BY DEF Query!Cardinality, Cardinality
<1> QED
  BY <1>1, <1>2, <1>3

LEMMA CountedTyped ==
  ASSUME NEW jobs
  PROVE  /\ IsFiniteSet(CountedOf(jobs)) /\ Cardinality(CountedOf(jobs)) \in 0 .. Cardinality(B)
         /\ Cardinality(CountedOf(jobs)) = Cardinality(B) => CountedOf(jobs) = B
<1>1. CountedOf(jobs) \in SUBSET B
  BY DEF CountedOf
<1>2. /\ IsFiniteSet(CountedOf(jobs)) /\ Cardinality(CountedOf(jobs)) \in Nat
      /\ Cardinality(CountedOf(jobs)) <= Cardinality(B)
      /\ Cardinality(CountedOf(jobs)) = Cardinality(B) => CountedOf(jobs) = B
  BY <1>1, DbsCounted, FS_Subset, FS_CardinalityType
<1> QED
  BY <1>2, DbsCounted

\* A job goes on, and is not counted yet.
LEMMA JobGoesOn ==
  ASSUME NEW q \in Runners, NEW jobs \in [B -> Jobs], NEW d \in B, NEW k \in Jobs,
         RunnerRight(q, jobs), jobs[d].stage # "counted", k.stage # "counted",
         k.kind = jobs[d].kind,
         q.stage = "data" => JobRight(q.from, q.to, d, k)
  PROVE  RunnerRight(q, [jobs EXCEPT ![d] = k])
<1>1. PICK new : new = [jobs EXCEPT ![d] = k]
  OBVIOUS
<1>2. \A e \in B : new[e] = IF e = d THEN k ELSE jobs[e]
  BY <1>1
<1>3. CountedOf(new) = CountedOf(jobs)
  BY <1>2 DEF CountedOf
<1>4. \A e \in B : new[e].kind = jobs[e].kind
  BY <1>2
<1>5. q.stage = "data" => \A e \in B : JobRight(q.from, q.to, e, new[e])
  BY <1>2 DEF RunnerRight
<1>6. RunnerRight(q, new)
  BY <1>3, <1>4, <1>5 DEF RunnerRight
<1> QED
  BY <1>1, <1>6

\* A job is counted.
LEMMA JobIsCounted ==
  ASSUME NEW q \in Runners, NEW jobs \in [B -> Jobs], NEW d \in B, NEW k \in Jobs,
         RunnerRight(q, jobs), jobs[d].stage # "counted", k.stage = "counted",
         k.kind = jobs[d].kind,
         q.stage = "data" => JobRight(q.from, q.to, d, k)
  PROVE  /\ [q EXCEPT !.atomic = @ + 1] \in Runners
         /\ RunnerRight([q EXCEPT !.atomic = @ + 1], [jobs EXCEPT ![d] = k])
<1>1. PICK new : new = [jobs EXCEPT ![d] = k]
  OBVIOUS
<1>2. \A e \in B : new[e] = IF e = d THEN k ELSE jobs[e]
  BY <1>1
<1>3. PICK p : p = [q EXCEPT !.atomic = @ + 1]
  OBVIOUS
<1>4. q.stage \in {"data", "time"}
  BY DEF RunnerRight, CountedOf, Runners
<1>5. /\ p.stage = q.stage /\ p.from = q.from /\ p.to = q.to /\ p.times = q.times
      /\ p.rows = q.rows /\ p.ok = q.ok /\ p.last = q.last /\ p.atomic = q.atomic + 1
  BY <1>3 DEF Runners
<1>6. p.atomic = Cardinality(CountedOf(new))
  <2>1. CountedOf(new) = CountedOf(jobs) \cup {d} /\ d \notin CountedOf(jobs)
    BY <1>2 DEF CountedOf
  <2>2. Cardinality(CountedOf(new)) = Cardinality(CountedOf(jobs)) + 1
    BY <2>1, CountedTyped, FS_AddElement
  <2>3. q.atomic = Cardinality(CountedOf(jobs))
    BY <1>4 DEF RunnerRight
  <2> QED
    BY <1>5, <2>2, <2>3
<1>7. p \in Runners
  <2>1. p.atomic \in 0 .. Cardinality(B)
    BY <1>6, CountedTyped
  <2> QED
    BY <1>3, <1>5, <2>1 DEF Runners
<1>8. q.stage = "data" => \A e \in B : JobRight(p.from, p.to, e, new[e])
  BY <1>2, <1>5 DEF RunnerRight
<1>9. \A e \in B : new[e].kind = p.stage
  BY <1>2, <1>4, <1>5 DEF RunnerRight
<1>10. p.times = Cardinality(B)
  BY <1>4, <1>5 DEF RunnerRight
<1>11. RunnerRight(p, new)
  BY <1>4, <1>5, <1>6, <1>8, <1>9, <1>10 DEF RunnerRight
<1> QED
  BY <1>1, <1>3, <1>7, <1>11

\* A table more: the rows of the hour are added.
LEMMA HourRead ==
  ASSUME NEW q \in Runners, NEW d \in B, NEW k \in Jobs,
         JobRight(q.from, q.to, d, k), k.stage = "running", k.at[1] < Hours,
         NEW hour, hour = {x \in Query!Row : x.db = d /\ x.at[1] = k.at[1]
                             /\ Query!Before(q.from, x.at) /\ Query!Before(x.at, q.to)},
         NEW new, new = [k EXCEPT !.at = Query!tFlagInc(@), !.rows = @ \cup hour]
  PROVE  new \in Jobs /\ JobRight(q.from, q.to, d, new)
<1>1. PICK n \in Nat, m \in Minutes : k.at = <<n, m>>
  BY DEF Jobs
<1>2. /\ new.at = <<n + 1, m>> /\ new.rows = k.rows \cup hour /\ new.stage = "running"
      /\ new.kind = k.kind /\ new.ok = k.ok
  BY <1>1 DEF Jobs, Query!tFlagInc
<1>3. new \in Jobs
  <2>1. <<n + 1, m>> \in (0 .. Hours) \X Minutes
    <3>1. n < Hours
      BY <1>1
    <3>2. Hours \in Nat
      BY ServicesAssumption
    <3>3. n + 1 \in 0 .. Hours
      BY <3>1, <3>2
    <3> QED
      BY <1>1, <3>3
  <2>2. new.rows \in SUBSET Query!Row
    BY <1>2 DEF Jobs
  <2> QED
    BY <1>2, <2>1, <2>2 DEF Jobs
<1>4. OfHours(q.from, q.to, d, n + 1) = OfHours(q.from, q.to, d, n) \cup hour
  <2>1. \A x \in Query!Row : x.at[1] \in Nat
    BY DEF Query!Row, Query!Flag
  <2>2. \A i \in Nat : i < n + 1 <=> i < n \/ i = n
    OBVIOUS
  <2>3. \A x \in Query!Row : x.at[1] < n + 1 <=> x.at[1] < n \/ x.at[1] = n
    BY <2>1, <2>2
  <2>4. k.at[1] = n
    BY <1>1
  <2> QED
    BY <2>3, <2>4, Zenon DEF OfHours, OfDb, Between
<1>5. JobRight(q.from, q.to, d, new)
  <2>1. k.at[2] = q.from[2] /\ k.rows = OfHours(q.from, q.to, d, n)
    BY <1>1 DEF JobRight
  <2> QED
    BY <1>1, <1>2, <1>4, <2>1 DEF JobRight
<1> QED
  BY <1>3, <1>5

\* The loop is at its end: the rows are all there, unless the minutes stood in
\* the way.
LEMMA HoursEnd ==
  ASSUME NEW q \in Runners, NEW d \in B, NEW k \in Jobs,
         JobRight(q.from, q.to, d, k), k.stage = "running",
         ~(Query!Before(k.at, q.to) /\ k.at[1] < Hours)
  PROVE  k.rows = OfDb(q.from, q.to, d) \/ q.from[2] > q.to[2]
<1>1. PICK n \in Nat, m \in Minutes : k.at = <<n, m>>
  BY DEF Jobs
<1>2. PICK u \in Nat, v \in Minutes : q.to = <<u, v>>
  BY DEF Runners, Query!Flag
<1>3. m \in Nat /\ v \in Nat /\ Hours \in Nat
  BY ServicesAssumption
<1>4. k.at[2] = q.from[2] /\ k.rows = OfHours(q.from, q.to, d, n)
  BY <1>1 DEF JobRight
<1>5. \A x \in OfDb(q.from, q.to, d) : x.at[1] \in Nat /\ x.at[1] < Hours /\ x.at[1] <= u
  <2> TAKE x \in OfDb(q.from, q.to, d)
  <2>1. PICK i \in 0 .. Hours - 1, j \in Minutes : x.at = <<i, j>>
    BY DEF OfDb, Between, Query!Row, Query!Flag
  <2>2. i < u \/ i = u
    BY <1>2, <2>1 DEF OfDb, Between, Query!Before
  <2> QED
    BY <1>3, <2>1, <2>2
<1>6. CASE n >= Hours \/ n > u
  <2>1. \A x \in OfDb(q.from, q.to, d) : x.at[1] < n
    BY <1>3, <1>5, <1>6
  <2>2. OfHours(q.from, q.to, d, n) = OfDb(q.from, q.to, d)
    BY <2>1 DEF OfHours
  <2> QED
    BY <1>4, <2>2
<1>7. CASE ~(n >= Hours \/ n > u)
  <2>1. ~(n < u \/ (n = u /\ m <= v))
    BY <1>1, <1>2, <1>3, <1>7 DEF Query!Before
  <2>2. m > v
    BY <1>3, <1>7, <2>1
  <2> QED
    BY <1>1, <1>2, <1>4, <2>2
<1> QED
  BY <1>6, <1>7

LEMMA QueryFrame ==
  ASSUME QueryInv, NEW r \in A,
         queries' \in 0 .. MaxQueries, faults' \in 0 .. FewFaults,
         runner' \in [A -> Runners], job' \in [A \X B -> Jobs],
         \A s \in A : s # r => /\ runner'[s] = runner[s]
                               /\ \A d \in B : job'[<<s, d>>] = job[<<s, d>>],
         RunnerRight(runner'[r], [d \in B |-> job'[<<r, d>>]])
  PROVE  QueryInv'
<1>1. ASSUME NEW s \in A
      PROVE  RunnerRight(runner'[s], [d \in B |-> job'[<<s, d>>]])
  <2>1. CASE s = r
    BY <2>1
  <2>2. CASE s # r
    <3>1. [d \in B |-> job'[<<s, d>>]] = [d \in B |-> job[<<s, d>>]] /\ runner'[s] = runner[s]
      BY <2>2
    <3> QED
      BY <3>1 DEF QueryInv
  <2> QED
    BY <2>1, <2>2
<1> QED
  BY <1>1 DEF QueryInv

LEMMA NothingAsked ==
  /\ Query!NoJob \in Jobs /\ Query!NoJob.stage = "counted"
  /\ Query!Idle \in Runners /\ Query!Idle.stage = "pop" /\ Query!Idle.atomic = 0
<1>1. <<0, 0>> \in Query!Flag /\ <<0, 0>> \in (0 .. Hours) \X Minutes
  BY ServicesAssumption DEF Query!Flag
<1>2. 0 \in 0 .. Cardinality(B)
  BY DbsCounted
<1> QED
  BY <1>1, <1>2 DEF Query!NoJob, Query!Idle, Jobs, Runners

LEMMA QueryInit == Query!Init => QueryInv
<1> SUFFICES ASSUME Query!Init PROVE QueryInv
  OBVIOUS
<1>1. queries = 0 /\ faults = 0 /\ runner = [r \in A |-> Query!Idle]
      /\ job = [j \in A \X B |-> Query!NoJob]
  BY DEF Query!Init
<1>2. ASSUME NEW r \in A PROVE RunnerRight(runner[r], [d \in B |-> job[<<r, d>>]])
  <2>1. PICK jobs : jobs = [d \in B |-> job[<<r, d>>]]
    OBVIOUS
  <2>2. CountedOf(jobs) = B
    BY <1>1, <2>1, NothingAsked DEF CountedOf
  <2>3. runner[r].stage = "pop" /\ runner[r].atomic = 0
    BY <1>1, NothingAsked
  <2>4. RunnerRight(runner[r], jobs)
    BY <2>2, <2>3 DEF RunnerRight
  <2> QED
    BY <2>1, <2>4
<1>3. runner \in [A -> Runners] /\ job \in [A \X B -> Jobs]
  BY <1>1, NothingAsked
<1>4. 0 \in 0 .. MaxQueries /\ 0 \in 0 .. FewFaults
  BY ServicesAssumption
<1> QED
  BY <1>1, <1>2, <1>3, <1>4 DEF QueryInv

\* Both rounds: jobs for one runner are given to the pool.
LEMMA ForkGives ==
  ASSUME job \in [A \X B -> Jobs], NEW r \in A, NEW kind \in {"data", "time"},
         NEW at \in Query!Flag, Query!Fork(r, kind, at)
  PROVE  /\ job' \in [A \X B -> Jobs]
         /\ \A s \in A : s # r => \A d \in B : job'[<<s, d>>] = job[<<s, d>>]
         /\ \A d \in B : job'[<<r, d>>] = [kind |-> kind, stage |-> "queued", at |-> at,
                                           rows |-> {}, ok |-> TRUE]
<1>1. PICK k : k = [kind |-> kind, stage |-> "queued", at |-> at, rows |-> {}, ok |-> TRUE]
  OBVIOUS
<1>2. job' = [j \in A \X B |-> IF j[1] = r THEN k ELSE job[j]]
  BY <1>1 DEF Query!Fork
<1>3. k \in Jobs
  <2>1. at \in (0 .. Hours) \X Minutes
    BY ServicesAssumption DEF Query!Flag
  <2> QED
    BY <1>1, <2>1 DEF Jobs
<1> QED
  BY <1>1, <1>2, <1>3

LEMMA QueryTaken ==
  ASSUME QueryInv, NEW r \in A, Query!queryData(r)
  PROVE  QueryInv'
<1>1. runner[r].stage = "pop" /\ queries < MaxQueries /\ queries' = queries + 1
      /\ UNCHANGED faults
  BY DEF Query!queryData
<1>2. PICK from \in Query!Flag, to \in Query!Flag :
        /\ runner' = [runner EXCEPT ![r] = [Query!Idle EXCEPT !.stage = "data", !.from = from,
                        !.to = to, !.times = Cardinality(B), !.atomic = runner[r].atomic]]
        /\ Query!Fork(r, "data", from)
  BY DbsCounted DEF Query!queryData
<1>3. PICK q : q = [Query!Idle EXCEPT !.stage = "data", !.from = from, !.to = to,
                      !.times = Cardinality(B), !.atomic = runner[r].atomic]
  OBVIOUS
<1>4. runner[r].atomic = 0 /\ 0 \in 0 .. Cardinality(B)
  <2>1. RunnerRight(runner[r], [d \in B |-> job[<<r, d>>]])
    BY DEF QueryInv
  <2>2. runner[r].atomic = 0
    BY <1>1, <2>1 DEF RunnerRight
  <2> QED
    BY <2>2, DbsCounted
<1>5. q.stage = "data" /\ q.from = from /\ q.to = to /\ q.times = Cardinality(B) /\ q.atomic = 0
      /\ q \in Runners
  BY <1>3, <1>4, NothingAsked DEF Query!Idle, Runners
<1>6. runner' = [runner EXCEPT ![r] = q]
  BY <1>2, <1>3
<1>7. runner' \in [A -> Runners] /\ runner'[r] = q /\ \A s \in A : s # r => runner'[s] = runner[s]
  BY <1>5, <1>6 DEF QueryInv
<1>8. PICK jobs : jobs = [d \in B |-> job'[<<r, d>>]]
  OBVIOUS
<1>9. /\ job' \in [A \X B -> Jobs]
      /\ \A s \in A : s # r => \A d \in B : job'[<<s, d>>] = job[<<s, d>>]
      /\ \A d \in B : jobs[d] = [kind |-> "data", stage |-> "queued", at |-> from,
                                 rows |-> {}, ok |-> TRUE]
  BY <1>2, <1>8, ForkGives DEF QueryInv
<1>10. RunnerRight(q, jobs)
  <2>1. CountedOf(jobs) = {}
    BY <1>9 DEF CountedOf
  <2>2. Cardinality(CountedOf(jobs)) = 0
    BY <2>1, FS_EmptySet
  <2>3. ASSUME NEW d \in B PROVE JobRight(from, to, d, jobs[d])
    <3>1. PICK n \in Nat, m \in Minutes : from = <<n, m>>
      BY DEF Query!Flag
    <3>2. ASSUME NEW x \in OfDb(from, to, d) PROVE ~(x.at[1] < n)
      <4>1. PICK i \in Nat, j \in Minutes : x.at = <<i, j>>
        BY DEF OfDb, Between, Query!Row, Query!Flag
      <4>2. n < i \/ n = i
        BY <3>1, <4>1 DEF OfDb, Between, Query!Before
      <4> QED
        BY <4>1, <4>2
    <3>3. OfHours(from, to, d, n) = {}
      BY <3>2 DEF OfHours
    <3>4. jobs[d].stage = "queued" /\ jobs[d].at = from /\ jobs[d].rows = {}
      BY <1>9
    <3> QED
      BY <3>1, <3>3, <3>4 DEF JobRight
  <2>4. \A d \in B : jobs[d].kind = "data"
    BY <1>9
  <2> QED
    BY <1>5, <2>2, <2>3, <2>4 DEF RunnerRight
<1>11. queries' \in 0 .. MaxQueries /\ faults' \in 0 .. FewFaults
  BY <1>1, ServicesAssumption DEF QueryInv
<1> QED
  BY <1>7, <1>8, <1>9, <1>10, <1>11, QueryFrame

LEMMA QueryJoined ==
  ASSUME QueryInv, NEW r \in A, Query!Join(r)
  PROVE  QueryInv'
<1>1. PICK q \in Runners : q = runner[r]
  BY DEF QueryInv
<1>2. PICK old \in [B -> Jobs] : old = [d \in B |-> job[<<r, d>>]]
  BY DEF QueryInv
<1>3. RunnerRight(q, old)
  BY <1>1, <1>2 DEF QueryInv
<1>4. q.stage = "data" /\ q.atomic = q.times
  BY <1>1 DEF Query!Join, Query!AllDone
<1>5. CountedOf(old) = B
  BY <1>3, <1>4, CountedTyped DEF RunnerRight
<1>6. PICK p : p = [q EXCEPT !.stage = "time", !.times = Cardinality(B), !.atomic = 0,
                      !.ok = \A d \in B : old[d].ok, !.rows = UNION {old[d].rows : d \in B}]
  OBVIOUS
<1>7. runner' = [runner EXCEPT ![r] = p] /\ Query!Fork(r, "time", <<0, 0>>)
      /\ UNCHANGED <<queries, faults>>
  <2>1. \A d \in B : old[d] = job[<<r, d>>]
    BY <1>2
  <2>2. (\A d \in B : job[<<r, d>>].ok) = (\A d \in B : old[d].ok)
    BY <2>1
  <2>3. {job[<<r, d>>].rows : d \in B} = {old[d].rows : d \in B}
    BY <2>1
  <2>4. Query!createResp(r) = p
    BY <1>1, <1>6, <2>2, <2>3, DbsCounted, Zenon DEF Query!createResp
  <2> QED
    BY <2>4 DEF Query!Join
<1>8. UNION {old[d].rows : d \in B} \in SUBSET Query!Row
  BY DEF Jobs
<1>9. /\ p.stage = "time" /\ p.times = Cardinality(B) /\ p.atomic = 0
      /\ p.from = q.from /\ p.to = q.to /\ p.rows = UNION {old[d].rows : d \in B}
      /\ p.last = q.last
  BY <1>6 DEF Runners
<1>10. p.ok = (\A d \in B : old[d].ok) /\ p.ok \in BOOLEAN
  BY <1>6 DEF Runners
<1>11. p \in Runners
  <2>1. 0 \in 0 .. Cardinality(B)
    BY DbsCounted
  <2> QED
    BY <1>6, <1>8, <1>9, <1>10, <2>1 DEF Runners
<1>12. p.ok => p.rows = Between(p.from, p.to) \/ p.from[2] > p.to[2]
  <2> SUFFICES ASSUME p.ok, ~(q.from[2] > q.to[2]) PROVE p.rows = Between(q.from, q.to)
    BY <1>9
  <2>1. ASSUME NEW d \in B PROVE old[d].rows = OfDb(q.from, q.to, d)
    <3>1. old[d].ok /\ old[d].stage = "counted"
      BY <1>5, <1>10 DEF CountedOf
    <3> QED
      BY <1>3, <1>4, <3>1 DEF RunnerRight, JobRight
  <2>2. \A x \in Between(q.from, q.to) : x.db \in B
    BY DEF Between, Query!Row
  <2>3. UNION {old[d].rows : d \in B} = UNION {OfDb(q.from, q.to, d) : d \in B}
    BY <2>1
  <2>4. UNION {OfDb(q.from, q.to, d) : d \in B} = Between(q.from, q.to)
    BY <2>2 DEF OfDb
  <2> QED
    BY <1>9, <2>3, <2>4
<1>13. runner' \in [A -> Runners] /\ runner'[r] = p /\ \A s \in A : s # r => runner'[s] = runner[s]
  BY <1>7, <1>11 DEF QueryInv
<1>14. PICK jobs : jobs = [d \in B |-> job'[<<r, d>>]]
  OBVIOUS
<1>15. /\ job' \in [A \X B -> Jobs]
       /\ \A s \in A : s # r => \A d \in B : job'[<<s, d>>] = job[<<s, d>>]
       /\ \A d \in B : jobs[d] = [kind |-> "time", stage |-> "queued", at |-> <<0, 0>>,
                                  rows |-> {}, ok |-> TRUE]
  <2>1. <<0, 0>> \in Query!Flag
    BY ServicesAssumption DEF Query!Flag
  <2> QED
    BY <1>7, <1>14, <2>1, ForkGives DEF QueryInv
<1>16. RunnerRight(p, jobs)
  <2>1. CountedOf(jobs) = {}
    BY <1>15 DEF CountedOf
  <2>2. Cardinality(CountedOf(jobs)) = 0
    BY <2>1, FS_EmptySet
  <2>3. \A d \in B : jobs[d].kind = "time"
    BY <1>15
  <2> QED
    BY <1>9, <1>12, <2>2, <2>3 DEF RunnerRight
<1>17. queries' \in 0 .. MaxQueries /\ faults' \in 0 .. FewFaults
  BY <1>7 DEF QueryInv
<1> QED
  BY <1>13, <1>14, <1>15, <1>16, <1>17, QueryFrame

LEMMA QueryEnds ==
  ASSUME QueryInv, NEW r \in A, Query!getLastTime(r) \/ Query!respond(r)
  PROVE  QueryInv'
<1>1. PICK q \in Runners : q = runner[r]
  BY DEF QueryInv
<1>2. PICK old \in [B -> Jobs] : old = [d \in B |-> job[<<r, d>>]]
  BY DEF QueryInv
<1>3. RunnerRight(q, old)
  BY <1>1, <1>2 DEF QueryInv
<1>4. UNCHANGED <<queries, job, faults>>
  BY DEF Query!getLastTime, Query!respond
<1>5. PICK p \in Runners : runner' = [runner EXCEPT ![r] = p] /\ RunnerRight(p, old)
  <2>1. CASE Query!getLastTime(r)
    <3>1. q.stage = "time" /\ q.atomic = q.times
      BY <1>1, <2>1 DEF Query!getLastTime, Query!AllDone
    <3>2. CountedOf(old) = B
      BY <1>3, <3>1, CountedTyped DEF RunnerRight
    <3>3. PICK good \in BOOLEAN : good = (\A d \in B : job[<<r, d>>].ok)
      OBVIOUS
    <3>4. PICK p : p = [q EXCEPT !.stage = "answered", !.times = 0, !.atomic = 0, !.last = good]
      OBVIOUS
    <3>5. runner' = [runner EXCEPT ![r].stage = "answered", ![r].times = 0, ![r].atomic = 0,
                                   ![r].last = good]
      BY <2>1, <3>3, Zenon DEF Query!getLastTime
    <3>6. runner' = [runner EXCEPT ![r] = p]
      BY <1>1, <3>4, <3>5 DEF QueryInv, Runners
    <3>7. /\ p.stage = "answered" /\ p.atomic = 0 /\ p.from = q.from /\ p.to = q.to
          /\ p.rows = q.rows /\ p.ok = q.ok /\ p.times = 0 /\ p.last = good
      BY <3>4 DEF Runners
    <3>8. 0 \in 0 .. Cardinality(B)
      BY DbsCounted
    <3>9. p \in Runners
      BY <3>3, <3>4, <3>7, <3>8 DEF Runners
    <3>10. RunnerRight(p, old)
      BY <1>3, <3>1, <3>2, <3>7 DEF RunnerRight
    <3> QED
      BY <3>6, <3>9, <3>10
  <2>2. CASE Query!respond(r)
    <3>1. q.stage = "answered"
      BY <1>1, <2>2 DEF Query!respond
    <3>2. PICK p : p = [q EXCEPT !.stage = "pop"]
      OBVIOUS
    <3>3. runner' = [runner EXCEPT ![r] = p]
      BY <1>1, <2>2, <3>2 DEF Query!respond
    <3>4. p.stage = "pop" /\ p.atomic = q.atomic /\ p \in Runners
      BY <3>2 DEF Runners
    <3>5. RunnerRight(p, old)
      BY <1>3, <3>1, <3>4 DEF RunnerRight
    <3> QED
      BY <3>3, <3>4, <3>5
  <2> QED
    BY <2>1, <2>2
<1>6. runner' \in [A -> Runners] /\ runner'[r] = p /\ \A s \in A : s # r => runner'[s] = runner[s]
  BY <1>5 DEF QueryInv
<1>7. /\ job' \in [A \X B -> Jobs]
      /\ \A s \in A : s # r => \A d \in B : job'[<<s, d>>] = job[<<s, d>>]
      /\ [d \in B |-> job'[<<r, d>>]] = old
  BY <1>2, <1>4 DEF QueryInv
<1>8. queries' \in 0 .. MaxQueries /\ faults' \in 0 .. FewFaults
  BY <1>4 DEF QueryInv
<1> QED
  BY <1>5, <1>6, <1>7, <1>8, QueryFrame

\* What happens to one job, the runner's record with it.
LEMMA OneJob ==
  ASSUME QueryInv, NEW r \in A, NEW d \in B, NEW p \in Runners, NEW k \in Jobs,
         job' = [job EXCEPT ![<<r, d>>] = k], runner' = [runner EXCEPT ![r] = p],
         RunnerRight(p, [[e \in B |-> job[<<r, e>>]] EXCEPT ![d] = k]),
         UNCHANGED queries, faults' \in 0 .. FewFaults
  PROVE  QueryInv'
<1>1. runner' \in [A -> Runners] /\ runner'[r] = p /\ \A s \in A : s # r => runner'[s] = runner[s]
  BY DEF QueryInv
<1>2. job' \in [A \X B -> Jobs]
  BY DEF QueryInv
<1>3. \A s \in A : s # r => \A e \in B : job'[<<s, e>>] = job[<<s, e>>]
  BY DEF QueryInv
<1>4. [e \in B |-> job'[<<r, e>>]] = [[e \in B |-> job[<<r, e>>]] EXCEPT ![d] = k]
  BY DEF QueryInv
<1>5. queries' \in 0 .. MaxQueries
  BY DEF QueryInv
<1> QED
  BY <1>1, <1>2, <1>3, <1>4, <1>5, QueryFrame

LEMMA JobTaken ==
  ASSUME QueryInv, NEW r \in A, NEW d \in B, Query!take(<<r, d>>)
  PROVE  QueryInv'
<1>1. PICK q \in Runners : q = runner[r]
  BY DEF QueryInv
<1>2. PICK old \in [B -> Jobs] : old = [e \in B |-> job[<<r, e>>]]
  BY DEF QueryInv
<1>3. old[d] = job[<<r, d>>] /\ old[d].stage = "queued"
  BY <1>2 DEF Query!take
<1>4. PICK k : k = [old[d] EXCEPT !.stage = "running"]
  OBVIOUS
<1>5. /\ k \in Jobs /\ k.stage = "running" /\ k.kind = old[d].kind /\ k.at = old[d].at
      /\ k.rows = old[d].rows
  BY <1>4 DEF Jobs
<1>6. job' = [job EXCEPT ![<<r, d>>] = k]
  BY <1>3, <1>4 DEF Query!take
<1>7. RunnerRight(q, old)
  BY <1>1, <1>2 DEF QueryInv
<1>8. q.stage = "data" => JobRight(q.from, q.to, d, k)
  BY <1>3, <1>5, <1>7 DEF RunnerRight, JobRight
<1>9. RunnerRight(q, [old EXCEPT ![d] = k])
  BY <1>3, <1>5, <1>7, <1>8, JobGoesOn
<1>10. runner' = [runner EXCEPT ![r] = q] /\ UNCHANGED <<queries, faults>>
  BY <1>1 DEF Query!take, QueryInv
<1>11. faults' \in 0 .. FewFaults
  BY <1>10 DEF QueryInv
<1> QED
  BY <1>2, <1>5, <1>6, <1>9, <1>10, <1>11, OneJob

\* A job that is counted, well or not: the end of either round's job.
LEMMA JobCounted ==
  ASSUME QueryInv, NEW r \in A, NEW d \in B, NEW ok \in BOOLEAN,
         job[<<r, d>>].stage = "running",
         ok => job[<<r, d>>].kind = "time"
                 \/ ~(Query!Before(job[<<r, d>>].at, runner[r].to) /\ job[<<r, d>>].at[1] < Hours),
         Query!Counted(<<r, d>>, ok), UNCHANGED queries, faults' \in 0 .. FewFaults
  PROVE  QueryInv'
<1>1. PICK q \in Runners : q = runner[r]
  BY DEF QueryInv
<1>2. PICK old \in [B -> Jobs] : old = [e \in B |-> job[<<r, e>>]]
  BY DEF QueryInv
<1>3. old[d] = job[<<r, d>>] /\ old[d].stage = "running"
  BY <1>2
<1>4. PICK k : k = [old[d] EXCEPT !.stage = "counted", !.ok = ok]
  OBVIOUS
<1>5. /\ k \in Jobs /\ k.stage = "counted" /\ k.kind = old[d].kind /\ k.rows = old[d].rows
      /\ k.ok = ok
  BY <1>4 DEF Jobs
<1>6. job' = [job EXCEPT ![<<r, d>>] = k]
  BY <1>3, <1>4 DEF Query!Counted, QueryInv
<1>7. RunnerRight(q, old)
  BY <1>1, <1>2 DEF QueryInv
<1>8. q.stage = "data" => JobRight(q.from, q.to, d, k)
  <2> SUFFICES ASSUME q.stage = "data" PROVE JobRight(q.from, q.to, d, k)
    OBVIOUS
  <2>1. old[d].kind = "data" /\ JobRight(q.from, q.to, d, old[d])
    BY <1>7 DEF RunnerRight
  <2>2. ASSUME ok PROVE old[d].rows = OfDb(q.from, q.to, d) \/ q.from[2] > q.to[2]
    <3>1. ~(Query!Before(old[d].at, q.to) /\ old[d].at[1] < Hours)
      BY <1>1, <1>3, <2>1, <2>2
    <3> QED
      BY <1>3, <2>1, <3>1, HoursEnd
  <2> QED
    BY <1>5, <2>2 DEF JobRight
<1>9. /\ [q EXCEPT !.atomic = @ + 1] \in Runners
      /\ RunnerRight([q EXCEPT !.atomic = @ + 1], [old EXCEPT ![d] = k])
  BY <1>3, <1>5, <1>7, <1>8, JobIsCounted
<1>10. runner' = [runner EXCEPT ![r] = [q EXCEPT !.atomic = @ + 1]]
  BY <1>1 DEF Query!Counted, QueryInv
<1> QED
  BY <1>2, <1>5, <1>6, <1>9, <1>10, OneJob

LEMMA JobReads ==
  ASSUME QueryInv, NEW r \in A, NEW d \in B, Query!query(<<r, d>>)
  PROVE  QueryInv'
<1>1. job[<<r, d>>].stage = "running" /\ job[<<r, d>>].kind = "data" /\ UNCHANGED queries
  BY DEF Query!query
<1>2. faults' \in 0 .. FewFaults
  <2>1. faults' = faults \/ (faults < FewFaults /\ faults' = faults + 1)
    BY DEF Query!query
  <2>2. faults \in 0 .. FewFaults
    BY DEF QueryInv
  <2> QED
    BY <2>1, <2>2, ServicesAssumption
<1>3. CASE Query!Counted(<<r, d>>, TRUE)
             /\ ~(Query!Before(job[<<r, d>>].at, runner[r].to) /\ job[<<r, d>>].at[1] < Hours)
  BY <1>1, <1>2, <1>3, JobCounted
<1>4. CASE Query!Counted(<<r, d>>, FALSE)
  BY <1>1, <1>2, <1>4, JobCounted
<1>5. CASE /\ Query!Before(job[<<r, d>>].at, runner[r].to) /\ job[<<r, d>>].at[1] < Hours
           /\ job' = [job EXCEPT ![<<r, d>>].at = Query!tFlagInc(@),
                        ![<<r, d>>].rows = @ \cup Query!Selected(r, d, job[<<r, d>>].at)]
           /\ UNCHANGED <<runner, faults>>
  <2>1. PICK q \in Runners : q = runner[r]
    BY DEF QueryInv
  <2>2. PICK old \in [B -> Jobs] : old = [e \in B |-> job[<<r, e>>]]
    BY DEF QueryInv
  <2>3. old[d] = job[<<r, d>>] /\ old[d].stage = "running"
    BY <1>1, <2>2
  <2>4. PICK h \in Jobs : h = old[d]
    OBVIOUS
  <2>5. RunnerRight(q, old)
    BY <2>1, <2>2 DEF QueryInv
  <2>6. q.stage = "data"
    <3>1. d \notin CountedOf(old)
      BY <2>3 DEF CountedOf
    <3>2. q.stage \notin {"pop", "answered"}
      BY <2>5, <3>1 DEF RunnerRight
    <3>3. q.stage = "time" => old[d].kind = "time"
      BY <2>5 DEF RunnerRight
    <3> QED
      BY <1>1, <2>3, <3>2, <3>3 DEF Runners
  <2>7. JobRight(q.from, q.to, d, h)
    BY <2>4, <2>5, <2>6 DEF RunnerRight
  <2>8. PICK hour : hour = {x \in Query!Row : x.db = d /\ x.at[1] = h.at[1]
                     /\ Query!Before(q.from, x.at) /\ Query!Before(x.at, q.to)}
    OBVIOUS
  <2>9. PICK k : k = [h EXCEPT !.at = Query!tFlagInc(@), !.rows = @ \cup hour]
    OBVIOUS
  <2>10. k \in Jobs /\ JobRight(q.from, q.to, d, k)
    <3>1. h.stage = "running" /\ h.at[1] < Hours
      BY <1>5, <2>3, <2>4
    <3> QED
      BY <2>7, <2>8, <2>9, <3>1, HourRead
  <2>11. k.stage = "running" /\ k.kind = h.kind
    BY <2>3, <2>4, <2>9 DEF Jobs
  <2>12. Query!Selected(r, d, job[<<r, d>>].at) = hour
    BY <2>1, <2>3, <2>4, <2>8 DEF Query!Selected
  <2>13. job' = [job EXCEPT ![<<r, d>>] = k]
    BY <1>5, <2>3, <2>4, <2>9, <2>12 DEF QueryInv
  <2>14. RunnerRight(q, [old EXCEPT ![d] = k])
    BY <2>3, <2>4, <2>5, <2>10, <2>11, JobGoesOn
  <2>15. runner' = [runner EXCEPT ![r] = q]
    BY <1>5, <2>1 DEF QueryInv
  <2> QED
    BY <1>1, <1>2, <2>2, <2>10, <2>13, <2>14, <2>15, OneJob
<1> QED
  BY <1>3, <1>4, <1>5 DEF Query!query

LEMMA JobLooksUp ==
  ASSUME QueryInv, NEW r \in A, NEW d \in B, Query!selectLastMinTime(<<r, d>>)
  PROVE  QueryInv'
<1>1. job[<<r, d>>].stage = "running" /\ job[<<r, d>>].kind = "time" /\ UNCHANGED queries
  BY DEF Query!selectLastMinTime
<1>2. faults' \in 0 .. FewFaults
  <2>1. faults' = faults \/ (faults < FewFaults /\ faults' = faults + 1)
    BY DEF Query!selectLastMinTime
  <2>2. faults \in 0 .. FewFaults
    BY DEF QueryInv
  <2> QED
    BY <2>1, <2>2, ServicesAssumption
<1>3. PICK ok \in BOOLEAN : Query!Counted(<<r, d>>, ok)
  BY DEF Query!selectLastMinTime
<1> QED
  BY <1>1, <1>2, <1>3, JobCounted

LEMMA QueryStep == QueryInv /\ Query!Next => QueryInv'
<1> SUFFICES ASSUME QueryInv, Query!Next PROVE QueryInv'
  OBVIOUS
<1>1. CASE \E r \in A : Query!queryData(r) \/ Query!Join(r) \/ Query!getLastTime(r)
                          \/ Query!respond(r)
  BY <1>1, QueryTaken, QueryJoined, QueryEnds
<1>2. CASE \E j \in A \X B : Query!take(j) \/ Query!query(j) \/ Query!selectLastMinTime(j)
  <2>1. PICK j \in A \X B : Query!take(j) \/ Query!query(j) \/ Query!selectLastMinTime(j)
    BY <1>2
  <2>2. PICK r \in A, d \in B : j = <<r, d>>
    BY <2>1
  <2> QED
    BY <2>1, <2>2, JobTaken, JobReads, JobLooksUp
<1> QED
  BY <1>1, <1>2 DEF Query!Next

LEMMA QueryRest == QueryInv /\ UNCHANGED <<queryVars, faults>> => QueryInv'
BY DEF QueryInv, queryVars

LEMMA QueryHolds == QueryInv => Query!TypeOK /\ Query!AnswerComplete
<1> SUFFICES ASSUME QueryInv PROVE Query!TypeOK /\ Query!AnswerComplete
  OBVIOUS
<1>1. Query!TypeOK
  BY DbsCounted DEF QueryInv, Query!TypeOK, Runners, Jobs
<1>2. ASSUME NEW r \in A, runner[r].stage = "answered"
      PROVE  /\ \A d \in B : job[<<r, d>>].stage = "counted"
             /\ runner[r].ok => \/ runner[r].rows = Between(runner[r].from, runner[r].to)
                                \/ runner[r].from[2] > runner[r].to[2]
  <2>1. RunnerRight(runner[r], [d \in B |-> job[<<r, d>>]])
    BY DEF QueryInv
  <2>2. CountedOf([d \in B |-> job[<<r, d>>]]) = B
    BY <1>2, <2>1 DEF RunnerRight
  <2> QED
    BY <1>2, <2>1, <2>2 DEF RunnerRight, CountedOf
<1>3. Query!AnswerComplete
  BY <1>2 DEF Query!AnswerComplete, Between
<1> QED
  BY <1>1, <1>3

-----------------------------------------------------------------------------
(*****************************************************************************)
(* The weights of load balancing (BalanceWeights)                            *)
(*****************************************************************************)
\* What is needed of products and quotients.
LEMMA DivIs ==
  ASSUME NEW a \in Int, NEW n \in Nat \ {0}
  PROVE  a \div n \in Int /\ n * (a \div n) <= a /\ a < n * (a \div n) + n
OBVIOUS

LEMMA TimesMonotone ==
  ASSUME NEW a \in Int, NEW b \in Int, a <= b, NEW n \in Nat
  PROVE  n * a <= n * b /\ a * n <= b * n
OBVIOUS

LEMMA TimesOrder ==
  ASSUME NEW a \in Int, NEW b \in Int, NEW n \in Nat \ {0}, n * a < n * b
  PROVE  a < b
OBVIOUS

LEMMA DivAtLeast ==
  ASSUME NEW a \in Int, NEW n \in Nat \ {0}, NEW q \in Int, n * q <= a
  PROVE  q <= a \div n
<1>1. n * q < n * (a \div n) + n /\ a \div n \in Int
  BY DivIs
<1>2. n * q < n * ((a \div n) + 1)
  BY <1>1
<1> QED
  BY <1>1, <1>2, TimesOrder

LEMMA DivMonotone ==
  ASSUME NEW a \in Int, NEW b \in Int, NEW n \in Nat \ {0}, a <= b
  PROVE  a \div n <= b \div n
<1>1. a \div n \in Int /\ n * (a \div n) <= b
  BY DivIs
<1> QED
  BY <1>1, DivAtLeast

LEMMA RatioOrder ==
  ASSUME NEW a \in Nat, NEW b \in Nat, NEW m \in Nat \ {0}, NEW n \in Nat \ {0}, a * n >= b * m
  PROVE  b \div n <= a \div m
<1>1. PICK q \in Int : q = b \div n /\ n * q <= b
  BY DivIs
<1>2. m * (n * q) <= m * b
  BY <1>1, TimesMonotone
<1>3. n * (m * q) <= n * a
  BY <1>1, <1>2
<1>4. m * q <= a
  <2>1. PICK p \in Int : p = m * q
    BY <1>1
  <2>2. ~(n * a < n * p)
    BY <1>3, <2>1
  <2>3. a + 1 <= p \/ p <= a
    BY <2>1
  <2>4. a + 1 <= p => n * (a + 1) <= n * p
    BY <2>1, TimesMonotone
  <2>5. n * (a + 1) = n * a + n
    OBVIOUS
  <2> QED
    BY <2>1, <2>2, <2>3, <2>4, <2>5
<1> QED
  BY <1>1, <1>4, DivAtLeast

\* The rows of tarsstat, and the sums over those of one host.
Lines == Seq([host : Host, succ : Nat, timeout : Nat, time : Nat])
Succ(s) == [i \in DOMAIN s |-> s[i].succ]
Timeout(s) == [i \in DOMAIN s |-> s[i].timeout]
Time(s) == [i \in DOMAIN s |-> s[i].time]

LEMMA LinesTyped ==
  ASSUME NEW s \in Lines
  PROVE  /\ \A i \in DOMAIN s : /\ s[i].host \in Host /\ Succ(s)[i] \in Nat
                                /\ Timeout(s)[i] \in Nat /\ Time(s)[i] \in Nat
         /\ \A h : IsFiniteSet(Balance!Of(s, h)) /\ Balance!Of(s, h) \subseteq DOMAIN s
         /\ IsFiniteSet(Balance!Hosts(s)) /\ Balance!Hosts(s) \subseteq Host
         /\ \A h \in Balance!Hosts(s) : Balance!Of(s, h) # {}
<1>1. PICK n \in Nat : DOMAIN s = 1 .. n
  BY DEF Lines
<1>2. IsFiniteSet(DOMAIN s)
  BY <1>1, FS_Interval
<1>3. \A i \in DOMAIN s : s[i] \in [host : Host, succ : Nat, timeout : Nat, time : Nat]
  <2>1. PICK R : R = [host : Host, succ : Nat, timeout : Nat, time : Nat]
    OBVIOUS
  <2>2. s \in Seq(R)
    BY <2>1 DEF Lines
  <2>3. \A i \in DOMAIN s : s[i] \in R
    BY <2>2
  <2> QED
    BY <2>1, <2>3
<1>4. \A h : Balance!Of(s, h) \subseteq DOMAIN s
  BY DEF Balance!Of
<1>5. IsFiniteSet(Balance!Hosts(s))
  <2> DEFINE f == [i \in DOMAIN s |-> s[i].host]
  <2>1. f \in Surjection(DOMAIN s, Balance!Hosts(s))
    BY DEF Balance!Hosts, Surjection
  <2> QED
    BY <1>2, <2>1, FS_Surjection
<1>6. \A h \in Balance!Hosts(s) : h \in Host /\ Balance!Of(s, h) # {}
  BY <1>3 DEF Balance!Hosts, Balance!Of
<1> QED
  BY <1>2, <1>3, <1>4, <1>5, <1>6, FS_Subset DEF Succ, Timeout, Time

LEMMA SuccIsSum ==
  ASSUME NEW s \in Lines, NEW h
  PROVE  Balance!succCount(s, h) = SumFunctionOnSet(Succ(s), Balance!Of(s, h))
<1> DEFINE It(T) == CHOOSE g : g = [u \in SUBSET T |-> IF u = {} THEN 0
                      ELSE s[CHOOSE x \in u : TRUE].succ + g[u \ {CHOOSE x \in u : TRUE}]]
<1>1. Balance!succCount(s, h) = It(Balance!Of(s, h))[Balance!Of(s, h)]
  BY DEF Balance!succCount, Balance!MapThenSumSet, Balance!MapThenFoldSet
<1>2. PICK S : S = Balance!Of(s, h)
  OBVIOUS
<1>3. IsFiniteSet(S) /\ S \subseteq DOMAIN s
  BY <1>2, LinesTyped
<1>4. PICK g : Sums(Succ(s), g, S) /\ SumFunctionOnSet(Succ(s), S) = g[S]
  BY <1>3, SumIs
<1>5. \A f : f = [u \in SUBSET S |-> IF u = {} THEN 0
                   ELSE s[CHOOSE x \in u : TRUE].succ + f[u \ {CHOOSE x \in u : TRUE}]]
               <=> Sums(Succ(s), f, S)
  <2>1. \A u \in SUBSET S : u # {} => (CHOOSE x \in u : TRUE) \in DOMAIN s
    BY <1>3
  <2>2. \A u \in SUBSET S : u # {} =>
          Succ(s)[CHOOSE x \in u : TRUE] = s[CHOOSE x \in u : TRUE].succ
    BY <2>1 DEF Succ
  <2>3. ASSUME NEW f
        PROVE  [u \in SUBSET S |-> IF u = {} THEN 0
                   ELSE s[CHOOSE x \in u : TRUE].succ + f[u \ {CHOOSE x \in u : TRUE}]]
               = [u \in SUBSET S |-> IF u = {} THEN 0 ELSE AddedUp(Succ(s), f, u)]
    BY <2>2 DEF AddedUp
  <2> QED
    BY <2>3 DEF Sums
<1>6. Sums(Succ(s), It(S), S)
  BY <1>4, <1>5, ZenonT(40)
<1> HIDE DEF It
<1>7. It(S)[S] = g[S]
  BY <1>3, <1>4, <1>6, SumsAgree
<1> QED
  BY <1>1, <1>2, <1>4, <1>7

LEMMA TimeoutIsSum ==
  ASSUME NEW s \in Lines, NEW h
  PROVE  Balance!timeoutCount(s, h) = SumFunctionOnSet(Timeout(s), Balance!Of(s, h))
<1> DEFINE It(T) == CHOOSE g : g = [u \in SUBSET T |-> IF u = {} THEN 0
                      ELSE s[CHOOSE x \in u : TRUE].timeout + g[u \ {CHOOSE x \in u : TRUE}]]
<1>1. Balance!timeoutCount(s, h) = It(Balance!Of(s, h))[Balance!Of(s, h)]
  BY DEF Balance!timeoutCount, Balance!MapThenSumSet, Balance!MapThenFoldSet
<1>2. PICK S : S = Balance!Of(s, h)
  OBVIOUS
<1>3. IsFiniteSet(S) /\ S \subseteq DOMAIN s
  BY <1>2, LinesTyped
<1>4. PICK g : Sums(Timeout(s), g, S) /\ SumFunctionOnSet(Timeout(s), S) = g[S]
  BY <1>3, SumIs
<1>5. \A f : f = [u \in SUBSET S |-> IF u = {} THEN 0
                   ELSE s[CHOOSE x \in u : TRUE].timeout + f[u \ {CHOOSE x \in u : TRUE}]]
               <=> Sums(Timeout(s), f, S)
  <2>1. \A u \in SUBSET S : u # {} => (CHOOSE x \in u : TRUE) \in DOMAIN s
    BY <1>3
  <2>2. \A u \in SUBSET S : u # {} =>
          Timeout(s)[CHOOSE x \in u : TRUE] = s[CHOOSE x \in u : TRUE].timeout
    BY <2>1 DEF Timeout
  <2>3. ASSUME NEW f
        PROVE  [u \in SUBSET S |-> IF u = {} THEN 0
                   ELSE s[CHOOSE x \in u : TRUE].timeout + f[u \ {CHOOSE x \in u : TRUE}]]
               = [u \in SUBSET S |-> IF u = {} THEN 0 ELSE AddedUp(Timeout(s), f, u)]
    BY <2>2 DEF AddedUp
  <2> QED
    BY <2>3 DEF Sums
<1>6. Sums(Timeout(s), It(S), S)
  BY <1>4, <1>5, ZenonT(40)
<1> HIDE DEF It
<1>7. It(S)[S] = g[S]
  BY <1>3, <1>4, <1>6, SumsAgree
<1> QED
  BY <1>1, <1>2, <1>4, <1>7

LEMMA TimeIsSum ==
  ASSUME NEW s \in Lines, NEW h
  PROVE  Balance!timeSum(s, h) = SumFunctionOnSet(Time(s), Balance!Of(s, h))
<1> DEFINE It(T) == CHOOSE g : g = [u \in SUBSET T |-> IF u = {} THEN 0
                      ELSE s[CHOOSE x \in u : TRUE].time + g[u \ {CHOOSE x \in u : TRUE}]]
<1>1. Balance!timeSum(s, h) = It(Balance!Of(s, h))[Balance!Of(s, h)]
  BY DEF Balance!timeSum, Balance!MapThenSumSet, Balance!MapThenFoldSet
<1>2. PICK S : S = Balance!Of(s, h)
  OBVIOUS
<1>3. IsFiniteSet(S) /\ S \subseteq DOMAIN s
  BY <1>2, LinesTyped
<1>4. PICK g : Sums(Time(s), g, S) /\ SumFunctionOnSet(Time(s), S) = g[S]
  BY <1>3, SumIs
<1>5. \A f : f = [u \in SUBSET S |-> IF u = {} THEN 0
                   ELSE s[CHOOSE x \in u : TRUE].time + f[u \ {CHOOSE x \in u : TRUE}]]
               <=> Sums(Time(s), f, S)
  <2>1. \A u \in SUBSET S : u # {} => (CHOOSE x \in u : TRUE) \in DOMAIN s
    BY <1>3
  <2>2. \A u \in SUBSET S : u # {} =>
          Time(s)[CHOOSE x \in u : TRUE] = s[CHOOSE x \in u : TRUE].time
    BY <2>1 DEF Time
  <2>3. ASSUME NEW f
        PROVE  [u \in SUBSET S |-> IF u = {} THEN 0
                   ELSE s[CHOOSE x \in u : TRUE].time + f[u \ {CHOOSE x \in u : TRUE}]]
               = [u \in SUBSET S |-> IF u = {} THEN 0 ELSE AddedUp(Time(s), f, u)]
    BY <2>2 DEF AddedUp
  <2> QED
    BY <2>3 DEF Sums
<1>6. Sums(Time(s), It(S), S)
  BY <1>4, <1>5, ZenonT(40)
<1> HIDE DEF It
<1>7. It(S)[S] = g[S]
  BY <1>3, <1>4, <1>6, SumsAgree
<1> QED
  BY <1>1, <1>2, <1>4, <1>7

LEMMA CardinalityIs == \A S : Balance!Cardinality(S) = Cardinality(S)
BY DEF Balance!Cardinality, Cardinality

\* What the rows of one host add up to.
LEMMA CountsTyped ==
  ASSUME NEW s \in Lines, NEW h \in Balance!Hosts(s)
  PROVE  /\ Balance!succCount(s, h) \in Nat /\ Balance!timeoutCount(s, h) \in Nat
         /\ Balance!timeSum(s, h) \in Nat /\ Balance!Cardinality(Balance!Of(s, h)) \in Nat \ {0}
         /\ Balance!mergeLoadInfo(s, h) \in Nat
<1>1. PICK S : S = Balance!Of(s, h)
  OBVIOUS
<1>2. IsFiniteSet(S) /\ S # {} /\ \A i \in S : /\ Succ(s)[i] \in Nat /\ Timeout(s)[i] \in Nat
                                               /\ Time(s)[i] \in Nat
  BY <1>1, LinesTyped
<1>3. /\ Balance!succCount(s, h) \in Nat /\ Balance!timeoutCount(s, h) \in Nat
      /\ Balance!timeSum(s, h) \in Nat
  BY <1>1, <1>2, SumIsNat, SuccIsSum, TimeoutIsSum, TimeIsSum
<1>4. Balance!Cardinality(S) \in Nat \ {0}
  BY <1>2, CardinalityIs, FS_EmptySet, FS_CardinalityType
<1>5. Balance!mergeLoadInfo(s, h) \in Nat
  <2>1. PICK t \in Nat, n \in Nat \ {0} : t = Balance!timeSum(s, h) /\ n = Balance!Cardinality(Balance!Of(s, h))
    BY <1>1, <1>3, <1>4
  <2>2. t \div n \in Int /\ 0 <= t \div n
    <3>1. n * 0 <= t
      BY <2>1
    <3> QED
      BY <2>1, <3>1, DivIs, DivAtLeast
  <2> QED
    BY <2>1, <2>2 DEF Balance!mergeLoadInfo
<1> QED
  BY <1>1, <1>3, <1>4, <1>5

\* The times of the hosts, added up.
Merged(s) == [h \in Balance!Hosts(s) |-> Balance!mergeLoadInfo(s, h)]

LEMMA AveTimeIsSum ==
  ASSUME NEW s \in Lines
  PROVE  Balance!aveTimeSum(s) = SumFunctionOnSet(Merged(s), Balance!Hosts(s))
<1> DEFINE It(T) == CHOOSE g : g = [u \in SUBSET T |-> IF u = {} THEN 0
                      ELSE Balance!mergeLoadInfo(s, CHOOSE x \in u : TRUE)
                             + g[u \ {CHOOSE x \in u : TRUE}]]
<1>1. Balance!aveTimeSum(s) = It(Balance!Hosts(s))[Balance!Hosts(s)]
  BY DEF Balance!aveTimeSum, Balance!MapThenSumSet, Balance!MapThenFoldSet
<1>2. PICK S : S = Balance!Hosts(s)
  OBVIOUS
<1>3. IsFiniteSet(S)
  BY <1>2, LinesTyped
<1>4. PICK g : Sums(Merged(s), g, S) /\ SumFunctionOnSet(Merged(s), S) = g[S]
  BY <1>3, SumIs
<1>5. \A f : f = [u \in SUBSET S |-> IF u = {} THEN 0
                   ELSE Balance!mergeLoadInfo(s, CHOOSE x \in u : TRUE)
                          + f[u \ {CHOOSE x \in u : TRUE}]]
               <=> Sums(Merged(s), f, S)
  <2>1. \A u \in SUBSET S : u # {} => (CHOOSE x \in u : TRUE) \in S
    OBVIOUS
  <2>2. \A u \in SUBSET S : u # {} =>
          Merged(s)[CHOOSE x \in u : TRUE] = Balance!mergeLoadInfo(s, CHOOSE x \in u : TRUE)
    BY <1>2, <2>1 DEF Merged
  <2>3. ASSUME NEW f
        PROVE  [u \in SUBSET S |-> IF u = {} THEN 0
                   ELSE Balance!mergeLoadInfo(s, CHOOSE x \in u : TRUE)
                          + f[u \ {CHOOSE x \in u : TRUE}]]
               = [u \in SUBSET S |-> IF u = {} THEN 0 ELSE AddedUp(Merged(s), f, u)]
    BY <2>2 DEF AddedUp
  <2> QED
    BY <2>3 DEF Sums
<1>6. Sums(Merged(s), It(S), S)
  BY <1>4, <1>5, ZenonT(40)
<1> HIDE DEF It
<1>7. It(S)[S] = g[S]
  BY <1>3, <1>4, <1>6, SumsAgree
<1> QED
  BY <1>1, <1>2, <1>4, <1>7

LEMMA TimesAddUp ==
  ASSUME NEW s \in Lines, NEW h \in Balance!Hosts(s)
  PROVE  /\ Balance!aveTimeSum(s) \in Nat
         /\ Balance!mergeLoadInfo(s, h) <= Balance!aveTimeSum(s)
         /\ Balance!Cardinality(Balance!Hosts(s)) \in Nat \ {0}
         /\ \A g \in Balance!Hosts(s) \ {h} :
              /\ Balance!mergeLoadInfo(s, h) + Balance!mergeLoadInfo(s, g) <= Balance!aveTimeSum(s)
              /\ Balance!Cardinality(Balance!Hosts(s)) >= 2
<1>1. PICK S : S = Balance!Hosts(s)
  OBVIOUS
<1>2. IsFiniteSet(S) /\ h \in S
  BY <1>1, LinesTyped
<1>3. PICK w : w = Merged(s)
  OBVIOUS
<1>4. \A x \in S : w[x] \in Nat /\ w[x] = Balance!mergeLoadInfo(s, x)
  BY <1>1, <1>3, CountsTyped DEF Merged
<1>5. /\ SumFunctionOnSet(w, S) \in Nat
      /\ SumFunctionOnSet(w, S) = w[h] + SumFunctionOnSet(w, S \ {h})
  BY <1>2, <1>4, SumIsNat, SumSplit
<1>6. IsFiniteSet(S \ {h}) /\ SumFunctionOnSet(w, S \ {h}) \in Nat
  <2>1. IsFiniteSet(S \ {h}) /\ \A x \in S \ {h} : w[x] \in Nat
    BY <1>2, <1>4, FS_RemoveElement
  <2> QED
    BY <2>1, SumIsNat
<1>7. Balance!aveTimeSum(s) = SumFunctionOnSet(w, S)
  BY <1>1, <1>3, AveTimeIsSum
<1>8. Cardinality(S) \in Nat \ {0} /\ Cardinality(S \ {h}) \in Nat
      /\ Cardinality(S \ {h}) = Cardinality(S) - 1
  BY <1>2, <1>6, FS_EmptySet, FS_CardinalityType, FS_RemoveElement
<1>9. ASSUME NEW g \in S \ {h} PROVE w[h] + w[g] <= SumFunctionOnSet(w, S) /\ Cardinality(S) >= 2
  <2>1. SumFunctionOnSet(w, S \ {h}) = w[g] + SumFunctionOnSet(w, (S \ {h}) \ {g})
    BY <1>4, <1>6, SumSplit
  <2>2. SumFunctionOnSet(w, (S \ {h}) \ {g}) \in Nat
    <3>1. IsFiniteSet((S \ {h}) \ {g}) /\ \A x \in (S \ {h}) \ {g} : w[x] \in Nat
      BY <1>4, <1>6, FS_RemoveElement
    <3> QED
      BY <3>1, SumIsNat
  <2>3. w[g] \in Nat /\ w[h] \in Nat
    BY <1>2, <1>4
  <2>4. Cardinality(S \ {h}) # 0
    BY <1>6, FS_EmptySet
  <2> QED
    BY <1>5, <1>8, <2>1, <2>2, <2>3, <2>4
<1> QED
  BY <1>1, <1>2, <1>4, <1>5, <1>6, <1>7, <1>8, <1>9, CardinalityIs

\* A number within the range of an int does not run over.
LEMMA FitsInt ==
  ASSUME NEW x \in Int
  PROVE  /\ Balance!Int32(x) \in Int
         /\ 0 <= x /\ x < Half => Balance!Int32(x) = x
<1>1. Half \in Nat \ {0} /\ 2 * Half \in Nat \ {0}
  BY BalanceAssumption
<1>2. PICK n \in Nat \ {0} : n = 2 * Half
  BY <1>1
<1>3. \A y \in Int : y % n \in Int /\ (0 <= y /\ y < n => y % n = y)
  BY <1>2
<1>4. x + Half \in Int /\ (0 <= x /\ x < Half => 0 <= x + Half /\ x + Half < n)
  BY <1>1, <1>2
<1>5. Balance!Int32(x) = ((x + Half) % n) - Half
  BY <1>2 DEF Balance!Int32
<1>6. (x + Half) % n \in Int
  BY <1>3, <1>4
<1>7. ASSUME 0 <= x, x < Half PROVE Balance!Int32(x) = x
  <2>1. (x + Half) % n = x + Half
    BY <1>3, <1>4, <1>7
  <2> QED
    BY <1>1, <1>5, <2>1
<1> QED
  BY <1>1, <1>5, <1>6, <1>7

\* The time weight a host is given, and what of it is the least.
TimeWeight(s, h) ==
  IF Balance!aveTimeWeight(s, h) = 0 THEN Balance!MIN_WEIGHT ELSE Balance!aveTimeWeight(s, h)
Product(s, h) ==
  Balance!Cardinality(Balance!Hosts(s)) * 100 * (Balance!aveTimeSum(s) - Balance!mergeLoadInfo(s, h))

LEMMA TimeWeightIs ==
  ASSUME NEW s \in Lines, NEW h \in Balance!Hosts(s)
  PROVE  /\ Balance!aveTimeWeight(s, h) \in Int
         /\ Balance!aveTimeSum(s) = 0 => Balance!aveTimeWeight(s, h) = 0
         /\ ~Balance!Overflows(s) /\ Balance!aveTimeSum(s) # 0 =>
              Balance!aveTimeWeight(s, h)
                = IF Product(s, h) < Balance!aveTimeSum(s) THEN 0
                  ELSE Product(s, h) \div Balance!aveTimeSum(s)
<1>1. PICK sum, m, c \in Nat : /\ sum = Balance!aveTimeSum(s) /\ m = Balance!mergeLoadInfo(s, h)
                              /\ c = Balance!Cardinality(Balance!Hosts(s)) /\ m <= sum
  BY TimesAddUp, CountsTyped
<1>2. PICK p \in Int : p = 100 * c * (sum - m)
  OBVIOUS
<1>3. p = Product(s, h)
  <2>1. 100 * c * (sum - m) = c * 100 * (sum - m)
    OBVIOUS
  <2> QED
    BY <1>1, <1>2, <2>1 DEF Product
<1>4. 0 <= p /\ p <= 100 * c * sum
  <2>1. 100 * c \in Nat /\ 0 <= sum - m /\ sum - m <= sum
    BY <1>1
  <2>2. PICK k \in Nat : k = 100 * c
    BY <2>1
  <2>3. k * 0 <= k * (sum - m) /\ k * (sum - m) <= k * sum
    BY <2>1, <2>2, TimesMonotone
  <2> QED
    BY <1>2, <2>2, <2>3
<1>5. PICK q \in Int : q = Balance!Int32(p) /\ (0 <= p /\ p < Half => q = p)
  BY FitsInt
<1>6. Balance!aveTimeWeight(s, h) = IF sum = 0 \/ q < sum THEN 0 ELSE q \div sum
  BY <1>1, <1>2, <1>5 DEF Balance!aveTimeWeight, Balance!DEFAULT_WEIGHT
<1>7. sum # 0 => q \div sum \in Int
  BY DivIs
<1>8. ~Balance!Overflows(s) => 100 * c * sum < Half
  BY <1>1, BalanceAssumption DEF Balance!Overflows, Balance!DEFAULT_WEIGHT
<1>9. ~Balance!Overflows(s) => q = p
  BY <1>4, <1>5, <1>8, BalanceAssumption
<1> QED
  BY <1>1, <1>3, <1>6, <1>7, <1>9

LEMMA TimeOrder ==
  ASSUME NEW s \in Lines, NEW h \in Balance!Hosts(s), NEW g \in Balance!Hosts(s), h # g,
         ~Balance!Overflows(s), Balance!mergeLoadInfo(s, g) <= Balance!mergeLoadInfo(s, h)
  PROVE  TimeWeight(s, h) <= TimeWeight(s, g)
<1>1. PICK sum, m, n, c \in Nat :
        /\ sum = Balance!aveTimeSum(s) /\ c = Balance!Cardinality(Balance!Hosts(s)) /\ c >= 2
        /\ m = Balance!mergeLoadInfo(s, h) /\ n = Balance!mergeLoadInfo(s, g)
        /\ n <= m /\ m + n <= sum
  BY TimesAddUp, CountsTyped
<1>2. CASE sum = 0
  <2>1. Balance!aveTimeWeight(s, h) = 0 /\ Balance!aveTimeWeight(s, g) = 0
    BY <1>1, <1>2, TimeWeightIs
  <2> QED
    BY <2>1 DEF TimeWeight, Balance!MIN_WEIGHT
<1>3. CASE sum # 0
  <2>1. PICK k \in Nat : k = c * 100 /\ k >= 200
    BY <1>1
  <2>2. PICK p, q \in Int : p = k * (sum - m) /\ q = k * (sum - n)
    BY <1>1
  <2>3. Product(s, h) = p /\ Product(s, g) = q
    BY <1>1, <2>1, <2>2 DEF Product
  <2>4. p <= q
    <3>1. sum - m \in Int /\ sum - n \in Int /\ sum - m <= sum - n
      BY <1>1
    <3> QED
      BY <2>2, <3>1, TimesMonotone
  <2>5. sum * 100 <= q
    <3>1. PICK d \in Nat : d = sum - n /\ 2 * d >= sum
      BY <1>1
    <3>2. d * 200 <= d * k
      BY <2>1, <3>1, TimesMonotone
    <3> QED
      BY <1>1, <2>2, <3>1, <3>2
  <2>6. 100 <= q \div sum /\ q \div sum \in Int
    BY <1>1, <1>3, <2>5, DivIs, DivAtLeast
  <2>7. p \div sum <= q \div sum /\ p \div sum \in Int
    BY <1>1, <1>3, <2>4, DivIs, DivMonotone
  <2>8. ~(q < sum)
    BY <1>1, <1>3, <2>5
  <2>9. /\ Balance!aveTimeWeight(s, h) = IF p < sum THEN 0 ELSE p \div sum
        /\ Balance!aveTimeWeight(s, g) = q \div sum
    BY <1>1, <1>3, <2>3, <2>8, TimeWeightIs
  <2> QED
    BY <2>6, <2>7, <2>9 DEF TimeWeight, Balance!MIN_WEIGHT
<1> QED
  BY <1>2, <1>3

\* The part that timed out.
Calls(s, h) == Balance!succCount(s, h) + Balance!timeoutCount(s, h)

LEMMA RateIs ==
  ASSUME NEW s \in Lines, NEW h \in Balance!Hosts(s)
  PROVE  \E succ, timeouts \in Nat :
           /\ succ = Balance!succCount(s, h) /\ timeouts = Balance!timeoutCount(s, h)
           /\ Balance!timeoutRateWeight(s, h)
                = IF succ # 0 THEN 100 - (timeouts * 90) \div (succ + timeouts)
                  ELSE IF timeouts # 0 THEN 10 ELSE 100
           /\ Balance!timeoutRateWeight(s, h) \in 10 .. 100
<1>1. PICK succ, timeouts \in Nat :
        succ = Balance!succCount(s, h) /\ timeouts = Balance!timeoutCount(s, h)
  BY CountsTyped
<1>2. Balance!timeoutRateWeight(s, h)
        = IF succ # 0 THEN 100 - (timeouts * 90) \div (succ + timeouts)
          ELSE IF timeouts # 0 THEN 10 ELSE 100
  BY <1>1 DEF Balance!timeoutRateWeight, Balance!DEFAULT_WEIGHT, Balance!MIN_WEIGHT,
              Balance!TIMEOUT_WEIGHT_FACTOR
<1>3. succ # 0 => (timeouts * 90) \div (succ + timeouts) \in 0 .. 90
  <2>1. SUFFICES ASSUME succ # 0 PROVE (timeouts * 90) \div (succ + timeouts) \in 0 .. 90
    OBVIOUS
  <2>2. PICK n \in Nat \ {0} : n = succ + timeouts /\ timeouts <= n
    BY <2>1
  <2>3. PICK q \in Int : q = (timeouts * 90) \div n /\ n * q <= timeouts * 90
    BY <2>2, DivIs
  <2>4. 0 <= q
    <3>1. n * 0 <= timeouts * 90
      OBVIOUS
    <3> QED
      BY <2>3, <3>1, DivAtLeast
  <2>5. n * q < n * 91
    BY <2>2, <2>3
  <2>6. q < 91
    BY <2>5, TimesOrder
  <2> QED
    BY <2>2, <2>3, <2>4, <2>6
<1>4. Balance!timeoutRateWeight(s, h) \in 10 .. 100
  BY <1>2, <1>3
<1> QED
  BY <1>1, <1>2, <1>4

LEMMA RateOrder ==
  ASSUME NEW s \in Lines, NEW h \in Balance!Hosts(s), NEW g \in Balance!Hosts(s),
         \/ Calls(s, g) = 0
         \/ /\ Calls(s, h) # 0
            /\ Balance!timeoutCount(s, h) * Calls(s, g) >= Balance!timeoutCount(s, g) * Calls(s, h)
  PROVE  Balance!timeoutRateWeight(s, h) <= Balance!timeoutRateWeight(s, g)
<1>1. PICK a, b \in Nat :
        /\ a = Balance!succCount(s, h) /\ b = Balance!timeoutCount(s, h)
        /\ Balance!timeoutRateWeight(s, h)
             = IF a # 0 THEN 100 - (b * 90) \div (a + b) ELSE IF b # 0 THEN 10 ELSE 100
        /\ Balance!timeoutRateWeight(s, h) \in 10 .. 100
  BY RateIs
<1>2. PICK c, d \in Nat :
        /\ c = Balance!succCount(s, g) /\ d = Balance!timeoutCount(s, g)
        /\ Balance!timeoutRateWeight(s, g)
             = IF c # 0 THEN 100 - (d * 90) \div (c + d) ELSE IF d # 0 THEN 10 ELSE 100
        /\ Balance!timeoutRateWeight(s, g) \in 10 .. 100
  BY RateIs
<1>3. CASE c + d = 0
  <2>1. c = 0 /\ d = 0
    BY <1>3
  <2>2. Balance!timeoutRateWeight(s, g) = 100
    BY <1>2, <2>1
  <2>3. Balance!timeoutRateWeight(s, h) <= 100
    BY <1>1
  <2> QED
    BY <2>2, <2>3
<1>4. CASE c + d # 0
  <2>1. a + b # 0 /\ b * (c + d) >= d * (a + b)
    BY <1>1, <1>2, <1>4 DEF Calls
  <2>2. CASE a = 0
    BY <1>1, <1>2, <2>1, <2>2
  <2>3. CASE a # 0 /\ c = 0
    <3>1. d # 0 /\ b * d >= d * (a + b)
      BY <1>4, <2>1, <2>3
    <3>2. d * (a + b) = d * a + b * d /\ d * a >= 1
      BY <2>3, <3>1
    <3> QED
      BY <3>1, <3>2
  <2>4. CASE a # 0 /\ c # 0
    <3>1. PICK m, n \in Nat \ {0} : m = a + b /\ n = c + d /\ b * n >= d * m
      BY <1>4, <2>1
    <3>2. (b * 90) * n >= (d * 90) * m
      BY <3>1
    <3>3. (d * 90) \div n <= (b * 90) \div m
      <4>1. PICK e, f \in Nat : e = b * 90 /\ f = d * 90 /\ e * n >= f * m
        BY <3>2
      <4> QED
        BY <3>1, <4>1, RatioOrder
    <3>4. (d * 90) \div n \in Int /\ (b * 90) \div m \in Int
      BY DivIs
    <3>5. /\ Balance!timeoutRateWeight(s, h) = 100 - (b * 90) \div m
          /\ Balance!timeoutRateWeight(s, g) = 100 - (d * 90) \div n
      BY <1>1, <1>2, <2>4, <3>1
    <3> QED
      BY <3>3, <3>4, <3>5
  <2> QED
    BY <2>2, <2>3, <2>4
<1> QED
  BY <1>3, <1>4

LEMMA WeightIs ==
  ASSUME NEW s \in Lines, NEW h \in Balance!Hosts(s)
  PROVE  /\ TimeWeight(s, h) \in Int /\ Balance!timeoutRateWeight(s, h) \in Int
         /\ Balance!calculateWeight(s, h) \in Int
         /\ Balance!calculateWeight(s, h)
              = (TimeWeight(s, h) * TimeShare) \div 100
                  + (Balance!timeoutRateWeight(s, h) * TimeoutShare) \div 100
<1>1. TimeWeight(s, h) \in Int
  BY TimeWeightIs DEF TimeWeight, Balance!MIN_WEIGHT
<1>2. Balance!timeoutRateWeight(s, h) \in Int
  BY RateIs
<1>3. Balance!calculateWeight(s, h)
        = (TimeWeight(s, h) * TimeShare) \div 100
            + (Balance!timeoutRateWeight(s, h) * TimeoutShare) \div 100
  BY DEF Balance!calculateWeight, TimeWeight, Balance!WEIGHT_PERCENT_UNIT
<1>4. \A x \in Int : x \div 100 \in Int
  OBVIOUS
<1>5. TimeWeight(s, h) * TimeShare \in Int /\ Balance!timeoutRateWeight(s, h) * TimeoutShare \in Int
  BY <1>1, <1>2, BalanceAssumption
<1> QED
  BY <1>1, <1>2, <1>3, <1>4, <1>5

\* The host that does no better does not get the larger weight.
LEMMA WeightOrder ==
  ASSUME NEW s \in Lines, NEW h \in Balance!Hosts(s), NEW g \in Balance!Hosts(s),
         ~Balance!Overflows(s), Balance!NoBetter(s, h, g)
  PROVE  Balance!calculateWeight(s, h) <= Balance!calculateWeight(s, g)
<1>1. CASE h = g
  BY <1>1, WeightIs
<1>2. CASE h # g
  <2>1. Balance!mergeLoadInfo(s, g) <= Balance!mergeLoadInfo(s, h)
    <3>1. PICK a, b \in Nat, m, n \in Nat \ {0} :
            /\ a = Balance!timeSum(s, h) /\ m = Balance!Cardinality(Balance!Of(s, h))
            /\ b = Balance!timeSum(s, g) /\ n = Balance!Cardinality(Balance!Of(s, g))
      BY CountsTyped
    <3>2. a * n >= b * m
      BY <3>1 DEF Balance!NoBetter
    <3> QED
      BY <3>1, <3>2, RatioOrder DEF Balance!mergeLoadInfo
  <2>2. TimeWeight(s, h) <= TimeWeight(s, g)
    BY <1>2, <2>1, TimeOrder
  <2>3. Balance!timeoutRateWeight(s, h) <= Balance!timeoutRateWeight(s, g)
    BY RateOrder DEF Balance!NoBetter, Calls
  <2>4. PICK x, y, u, v \in Int :
          /\ x = TimeWeight(s, h) /\ y = TimeWeight(s, g)
          /\ u = Balance!timeoutRateWeight(s, h) /\ v = Balance!timeoutRateWeight(s, g)
    BY WeightIs
  <2>5. x * TimeShare <= y * TimeShare /\ u * TimeoutShare <= v * TimeoutShare
    BY <2>2, <2>3, <2>4, BalanceAssumption, TimesMonotone
  <2>6. /\ (x * TimeShare) \div 100 <= (y * TimeShare) \div 100
        /\ (u * TimeoutShare) \div 100 <= (v * TimeoutShare) \div 100
    <3>1. /\ x * TimeShare \in Int /\ y * TimeShare \in Int
          /\ u * TimeoutShare \in Int /\ v * TimeoutShare \in Int
      BY BalanceAssumption
    <3> QED
      BY <2>5, <3>1, DivMonotone
  <2>7. PICK p, q, k, l \in Int :
          /\ p = (x * TimeShare) \div 100 /\ q = (y * TimeShare) \div 100
          /\ k = (u * TimeoutShare) \div 100 /\ l = (v * TimeoutShare) \div 100
    <3>1. /\ x * TimeShare \in Int /\ y * TimeShare \in Int
          /\ u * TimeoutShare \in Int /\ v * TimeoutShare \in Int
      BY BalanceAssumption
    <3> QED
      BY <3>1, DivIs
  <2>8. p <= q /\ k <= l
    BY <2>6, <2>7
  <2>9. Balance!calculateWeight(s, h) = p + k /\ Balance!calculateWeight(s, g) = q + l
    BY <2>4, <2>7, WeightIs
  <2> QED
    BY <2>8, <2>9
<1> QED
  BY <1>1, <1>2

BalanceInv ==
  /\ used \in Lines /\ used \in Rows \cup {<<>>}
  /\ weights = [h \in Balance!Hosts(used) |-> Balance!calculateWeight(used, h)]
  /\ endpoints \in [Host -> [type : {"loop", "dynamic"}, weight : Nat]]

LEMMA RowsAreLines == \A s \in Rows \cup {<<>>} : s \in Lines
<1>1. <<>> \in Lines
  BY DEF Lines
<1>2. \A s \in Rows : s \in Lines
  BY BalanceAssumption DEF Lines
<1> QED
  BY <1>1, <1>2

LEMMA BalanceInit == Balance!Init => BalanceInv
<1> SUFFICES ASSUME Balance!Init PROVE BalanceInv
  OBVIOUS
<1>1. used = <<>> /\ weights = [h \in {} |-> 0]
      /\ endpoints \in [Host -> [type : {"loop", "dynamic"}, weight : {0, 1}]]
  BY DEF Balance!Init
<1>2. Balance!Hosts(used) = {}
  BY <1>1 DEF Balance!Hosts
<1>3. weights = [h \in Balance!Hosts(used) |-> Balance!calculateWeight(used, h)]
  BY <1>1, <1>2
<1>4. endpoints \in [Host -> [type : {"loop", "dynamic"}, weight : Nat]]
  <2>1. \A e \in [type : {"loop", "dynamic"}, weight : {0, 1}] :
          e \in [type : {"loop", "dynamic"}, weight : Nat]
    OBVIOUS
  <2> QED
    BY <1>1, <2>1
<1> QED
  BY <1>1, <1>3, <1>4, RowsAreLines DEF BalanceInv

LEMMA BalanceStep == BalanceInv /\ Balance!Next => BalanceInv'
<1> SUFFICES ASSUME BalanceInv, Balance!Next PROVE BalanceInv'
  OBVIOUS
<1>1. PICK rows \in Rows \cup {<<>>} :
        /\ used' = (IF Balance!Asked THEN rows ELSE <<>>)
        /\ weights' = [h \in Balance!Hosts(used') |-> Balance!calculateWeight(used', h)]
        /\ UNCHANGED endpoints
  BY DEF Balance!Next, Balance!updateDynamicWeight
<1>2. used' \in Rows \cup {<<>>}
  BY <1>1
<1>3. used' \in Lines
  BY <1>2, RowsAreLines
<1>4. weights' = [h \in Balance!Hosts(used) |-> Balance!calculateWeight(used, h)]'
  BY <1>1
<1>5. endpoints' \in [Host -> [type : {"loop", "dynamic"}, weight : Nat]]
  BY <1>1 DEF BalanceInv
<1> QED
  BY <1>2, <1>3, <1>4, <1>5 DEF BalanceInv

LEMMA BalanceRest == BalanceInv /\ UNCHANGED balanceVars => BalanceInv'
<1> SUFFICES ASSUME BalanceInv, UNCHANGED balanceVars PROVE BalanceInv'
  OBVIOUS
<1>1. UNCHANGED <<used, weights, endpoints>>
  BY DEF balanceVars
<1>2. weights' = [h \in Balance!Hosts(used') |-> Balance!calculateWeight(used', h)]
  BY <1>1 DEF BalanceInv
<1> QED
  BY <1>1, <1>2 DEF BalanceInv

LEMMA BalanceHolds == BalanceInv => Balance!TypeOK /\ Balance!Balanced
<1> SUFFICES ASSUME BalanceInv PROVE Balance!TypeOK /\ Balance!Balanced
  OBVIOUS
<1>1. PICK s \in Lines : s = used
  BY DEF BalanceInv
<1>2. weights = [h \in Balance!Hosts(s) |-> Balance!calculateWeight(s, h)]
  BY <1>1 DEF BalanceInv
<1>3. Balance!TypeOK
  <2>1. \A h \in Balance!Hosts(s) : Balance!calculateWeight(s, h) \in Int
    BY WeightIs
  <2>2. weights \in [DOMAIN weights -> Int]
    BY <1>2, <2>1
  <2> QED
    BY <2>2 DEF BalanceInv, Balance!TypeOK
<1>4. ASSUME NEW h \in Balance!Hosts(s), endpoints[h].type = "dynamic"
      PROVE  Balance!getDynamicWeight[h].weight = Balance!calculateWeight(s, h)
  <2>1. s # <<>>
    BY <1>4 DEF Balance!Hosts
  <2>2. h \in Host /\ h \in DOMAIN weights /\ weights[h] = Balance!calculateWeight(s, h)
    BY <1>2, LinesTyped
  <2>3. Balance!getDynamicWeight[h] = Balance!getDynamicWeight_One(endpoints[h], h)
    BY <1>1, <1>4, <2>1, <2>2 DEF Balance!getDynamicWeight
  <2>4. PICK given : given = [type |-> "static", weight |-> weights[h]]
    OBVIOUS
  <2>5. Balance!getDynamicWeight_One(endpoints[h], h)
          = IF given.weight = 0 THEN [given EXCEPT !.type = "loop"] ELSE given
    BY <2>2, <2>4 DEF Balance!getDynamicWeight_One
  <2>6. given.weight = weights[h] /\ [given EXCEPT !.type = "loop"].weight = weights[h]
    BY <2>4
  <2> QED
    BY <2>2, <2>3, <2>5, <2>6
<1>5. Balance!Balanced
  <2>1. ASSUME ~Balance!Overflows(s),
               NEW h \in Balance!Hosts(s), endpoints[h].type = "dynamic",
               NEW g \in Balance!Hosts(s), endpoints[g].type = "dynamic", Balance!NoBetter(s, h, g)
        PROVE  Balance!getDynamicWeight[h].weight <= Balance!getDynamicWeight[g].weight
    BY <1>4, <2>1, WeightOrder
  <2> QED
    BY <1>1, <2>1 DEF Balance!Balanced
<1> QED
  BY <1>3, <1>5

-----------------------------------------------------------------------------
(***************************************************************************)
(* The service that is chosen                                              *)
(***************************************************************************)
LEMMA Chosen ==
  ASSUME [ServicesNext]_servicesVars
  PROVE  /\ service' = service
         /\ \/ UNCHANGED servicesVars
            \/ /\ ~crossed \/ service \notin {"property", "containers"}
               /\ service = "property" => Property!Next
               /\ service = "query" => Query!Next
               /\ service = "config" => Config!Next
               /\ service = "limit" => Limit!Next
               /\ service = "traces" => Traces!Next
               /\ service = "containers" => Containers!Next
               /\ service = "images" => Images!Next
               /\ service = "balance" => Balance!Next
<1>1. CASE UNCHANGED servicesVars
  BY <1>1 DEF servicesVars
<1>2. CASE ServicesNext
  BY <1>2 DEF ServicesNext, Followed, Rest
<1> QED
  BY <1>1, <1>2

\* tarsnode: for any bounds, the threads that start and stop one container in
\* whatever order they come never have two starts of it under way, and a pull
\* belongs to the start that asked for it.  tarsregistry: for any callers, a check
\* of a base image that nothing disturbed leaves in the table and in memory what
\* docker has, whoever else asks meanwhile.
THEOREM ContainersStayRight == ServicesSpec => []ContainersKept
<1> DEFINE Inv == (service = "containers" => ContainerInv) /\ (service = "images" => ImageInv)
<1>1. ServicesInit => Inv
  BY ContainersInit, ImagesInit DEF ServicesInit
<1>2. Inv /\ [ServicesNext]_servicesVars => Inv'
  BY Chosen, ContainersStep, ContainersRest, ImagesStep, ImagesRest DEF servicesVars
<1>3. Inv => ContainersKept
  BY ContainersApart, ImagesHeal DEF ContainersKept
<1> QED
  BY <1>1, <1>2, <1>3, PTL DEF ServicesSpec

\* tarsconfig: for any references, changes and failing statements, a call answered
\* with success has every part in its place, unless the tables changed meanwhile or a
\* reference failed.  For any rate, interval and time, CHECKLIMIT lets no more
\* through within an interval than two entries allow, and refuses only behind an
\* entry's worth of calls.
THEOREM ConfigsStayTrue == ServicesSpec => []ConfigKept
<1> DEFINE Inv == (service = "config" => ConfigInv) /\ (service = "limit" => LimitInv)
<1>1. ServicesInit => Inv
  BY ConfigInit, LimitInit DEF ServicesInit
<1>2. Inv /\ [ServicesNext]_servicesVars => Inv'
  BY Chosen, ConfigStep, ConfigRest, LimitStep, LimitRest DEF servicesVars
<1>3. Inv => ConfigKept
  BY ConfigHolds, LimitHolds DEF ConfigKept
<1> QED
  BY <1>1, <1>2, <1>3, PTL DEF ServicesSpec

\* tarsquerystat and tarsqueryproperty: for any runners, databases, hours and pools,
\* no job of a query is left when its answer goes out, and a good answer has every
\* row that was asked for, whichever order the jobs are taken and counted in.
\* tarsregistry: for any hosts, rows, shares and width of an int, a host that does
\* no better than another by its rows is not given the larger weight, unless a
\* product runs over.
THEOREM AnswersStayTrue == ServicesSpec => []AnswersTrue
<1> DEFINE Inv == (service = "query" => QueryInv) /\ (service = "balance" => BalanceInv)
<1>1. ServicesInit => Inv
  BY QueryInit, BalanceInit DEF ServicesInit
<1>2. Inv /\ [ServicesNext]_servicesVars => Inv'
  BY Chosen, QueryStep, QueryRest, BalanceStep, BalanceRest DEF servicesVars
<1>3. Inv => AnswersTrue
  BY QueryHolds, BalanceHolds DEF AnswersTrue
<1> QED
  BY <1>1, <1>2, <1>3, PTL DEF ServicesSpec

\* tarslog: for any traces and times, whenever it crashes and whatever becomes of a
\* post or a snapshot, each line that has been read is in memory or was released
\* with its trace, never both; no call is counted twice in a graph; and what has
\* been read and released was sent, is still to be, or was given up.
THEOREM TracesCountOnce == ServicesSpec => []CountedOnce
<1> DEFINE Inv == service = "traces" => TraceInv
<1>1. ServicesInit => Inv
  BY TracesInit DEF ServicesInit
<1>2. Inv /\ [ServicesNext]_servicesVars => Inv'
  BY Chosen, TracesStep, TracesRest DEF servicesVars
<1>3. Inv => CountedOnce
  BY TracesCounted DEF CountedOnce
<1> QED
  BY <1>1, <1>2, <1>3, PTL DEF ServicesSpec

\* tarsproperty: for any handlers, records and times, a record that has been taken
\* is in a buffer, on its way or in the database, or it was refused, given up with
\* an alarm or skipped by the second try, unless a switch came while a table was
\* being read or a table was read by marks of an earlier round.
THEOREM PropertyLosesNothing == ServicesSpec => []PropertyKept
<1> DEFINE Inv == service = "property" => PropertyInv
<1>1. ServicesInit => Inv
  BY PropertyInit DEF ServicesInit
<1>2. Inv /\ [ServicesNext]_servicesVars => Inv'
  BY Chosen, PropertyStep, PropertyRest DEF servicesVars
<1>3. Inv => PropertyKept
  BY PropertyHeld DEF PropertyKept
<1> QED
  BY <1>1, <1>2, <1>3, PTL DEF ServicesSpec

-----------------------------------------------------------------------------
(***************************************************************************)
(* The limits of one server (ServerLimits): what Activator promises alone, *)
(* for every configuration of its limits; that the composition keeps it;   *)
(* and that what a process is told of its core agrees with what is wanted, *)
(* for all intervals and counts.                                           *)
(***************************************************************************)
\* The last age that is told apart is one.
LEMMA AncientIsNat == Ancient \in Nat /\ 0 \in 0..Ancient /\ Ancient \in 0..Ancient
BY ActivatorAssumption

LEMMA LimitsAreInt ==
    ASSUME limits \in Limits
    PROVE  /\ limits.time \in Int /\ limits.count \in Int /\ limits.punish \in Int
           /\ Counted \in Nat /\ limits.count <= Counted
BY ActivatorAssumption DEF Counted

\* What addActivatingRecord establishes in a well-typed state, for whoever asked
\* for the start: it leaves the Activator unlimited only with a count within
\* _maxCount, and it forgets a count only after a gap that is not Close.
LEMMA StartAdded ==
    ASSUME TypeOK, addActivatingRecord
    PROVE  /\ recorded' = TRUE /\ age' = 0
           /\ limited' \in BOOLEAN /\ curCount' \in Nat
           /\ (~limited => curCount <= Counted)
                => (~limited' => curCount' <= Counted)
           /\ ~limited' /\ recorded /\ Close => curCount' = curCount + 1
           /\ limited /\ Close /\ recorded => limited'
           /\ limited' /\ ~limited => recorded
<1> DEFINE soon    == recorded /\ age < limits.time
           punished  == recorded /\ limited /\ 2 * age > 3 * limits.punish
           counted == IF punished THEN 0
                      ELSE IF soon /\ curCount <= limits.count THEN curCount + 1 ELSE curCount
<1>1. /\ curCount' = counted
      /\ limited' = ((recorded /\ counted > limits.count) \/ (limited /\ ~punished))
      /\ recorded' = TRUE
      /\ age' = 0
  BY DEF addActivatingRecord
<1>2. /\ age \in Nat /\ curCount \in Nat /\ recorded \in BOOLEAN
      /\ limited \in BOOLEAN /\ limits \in Limits
  BY ActivatorAssumption DEF TypeOK
<1>3. /\ limits.time \in Int /\ limits.count \in Int /\ limits.punish \in Int
      /\ Counted \in Nat /\ limits.count <= Counted
  BY <1>2, LimitsAreInt
<1>4. punished => ~Close
  <2>1. PICK p \in Int : p = limits.punish
    BY <1>3
  <2>2. 2 * age > 3 * p => ~(age < p)
    BY <1>2
  <2> QED
    BY <2>1, <2>2 DEF Close
<1>5. counted \in Nat
  BY <1>2
<1> HIDE DEF counted
<1>6. recorded' = TRUE /\ age' = 0 /\ limited' \in BOOLEAN /\ curCount' \in Nat
  BY <1>1, <1>5
<1>7. ASSUME ~limited => curCount <= Counted, ~limited'
      PROVE  curCount' <= Counted
  <2>1. CASE recorded
    <3>1. ~(counted > limits.count)
      BY <1>1, <2>1, <1>7
    <3> QED
      BY <1>1, <1>3, <1>5, <3>1
  <2>2. CASE ~recorded
    <3>1. curCount' = curCount /\ ~limited
      BY <1>1, <1>7, <2>2 DEF counted
    <3> QED
      BY <1>7, <3>1
  <2> QED
    BY <2>1, <2>2
<1>8. ASSUME ~limited', recorded, Close
      PROVE  curCount' = curCount + 1
  <2>1. ~punished /\ soon
    BY <1>4, <1>8 DEF Close
  <2>2. ~(counted > limits.count)
    BY <1>1, <1>8
  <2>3. counted = IF curCount <= limits.count THEN curCount + 1 ELSE curCount
    BY <2>1 DEF counted
  <2> QED
    BY <1>1, <1>2, <1>3, <2>2, <2>3
<1>9. limited /\ Close /\ recorded => limited'
  BY <1>1, <1>4
<1>10. ASSUME limited', ~limited
       PROVE  recorded
  BY <1>1, <1>10
<1> QED
  BY <1>6, <1>7, <1>8, <1>9, <1>10

\* The strengthened invariant holds in every reachable state.
THEOREM ActivatorInvariant == Spec => []BurstInv
<1>1. ASSUME Init
      PROVE  BurstInv
  <2>1. TypeOK
    <3>1. age \in 0..Ancient /\ requested \in 0..MaxRequested
      BY <1>1, ActivatorAssumption DEF Init
    <3> QED
      BY <1>1, <3>1 DEF Init, TypeOK
  <2>2. recorded = FALSE /\ limited = FALSE /\ curCount = 0 /\ burst = 0
    BY <1>1 DEF Init
  <2>3. Counted \in Nat
    BY <2>1, LimitsAreInt DEF TypeOK
  <2> QED
    BY <2>1, <2>2, <2>3 DEF BurstInv
<1>2. BurstInv /\ [Next]_vars => BurstInv'
  <2> SUFFICES ASSUME BurstInv, [Next]_vars
               PROVE  BurstInv'
    OBVIOUS
  <2>0. /\ TypeOK /\ Counted \in Nat /\ burst \in Nat /\ curCount \in Nat
        /\ limits' = limits => Counted' = Counted
    BY LimitsAreInt DEF BurstInv, TypeOK, Counted
  <2>1. CASE CheckAutoStart
    <3>1. /\ UNCHANGED <<limits, recorded, age, limited, curCount, requested, burst>>
          /\ decided' = TRUE /\ ~isActivatingLimited
      BY <2>1 DEF CheckAutoStart
    <3>2. limited => ~Close \/ burst <= Counted + 1
      BY <2>0, <3>1 DEF isActivatingLimited, Close, BurstInv
    <3>3. Close' = Close /\ Counted' = Counted /\ TypeOK'
      BY <2>0, <3>1 DEF Close, TypeOK
    <3> QED
      BY <3>1, <3>2, <3>3 DEF BurstInv
  <2>2. CASE AutoStart
    <3>1. TypeOK /\ addActivatingRecord /\ decided /\ decided' = FALSE /\ limits' = limits
      BY <2>0, <2>2 DEF AutoStart
    <3>2. /\ burst' = IF recorded /\ Close THEN burst + 1 ELSE 1
          /\ requested' = requested
      BY <2>0, <2>2 DEF AutoStart, BurstSoFar
    <3>3. Counted' = Counted
      BY <2>0, <3>1
    <3>4. TypeOK'
      <4>1. age' \in 0..Ancient /\ burst' \in Nat
        BY <2>0, <3>1, <3>2, StartAdded, AncientIsNat
      <4> QED
        BY <4>1, <3>1, <3>2, StartAdded DEF TypeOK
    <3>5. ~limited' => curCount' <= Counted /\ burst' <= curCount' + 1
      <4>1. ASSUME ~limited'
            PROVE  curCount' <= Counted
        BY <4>1, <3>1, StartAdded DEF BurstInv
      <4>2. ASSUME ~limited', recorded /\ Close
            PROVE  burst' <= curCount' + 1
        <5>1. curCount' = curCount + 1 /\ ~limited
          BY <3>1, <4>2, StartAdded DEF TypeOK
        <5> QED
          BY <2>0, <3>2, <4>2, <5>1 DEF BurstInv
      <4>3. ASSUME ~(recorded /\ Close)
            PROVE  burst' <= curCount' + 1
        BY <4>3, <3>1, <3>2, StartAdded
      <4> QED
        BY <4>1, <4>2, <4>3
    <3>6. limited' => burst' <= Counted + 2
      <4>1. ASSUME limited', recorded, Close
            PROVE  burst <= Counted + 1
        BY <2>0, <3>1, <4>1 DEF BurstInv
      <4> QED
        BY <2>0, <3>2, <4>1
    <3>7. recorded' = TRUE
      BY <3>1, StartAdded
    <3> QED
      BY <3>1, <3>3, <3>4, <3>5, <3>6, <3>7 DEF BurstInv
  <2>3. CASE RequestedStart
    <3>1. TypeOK /\ addActivatingRecord /\ limits' = limits
      BY <2>0, <2>3 DEF RequestedStart
    <3>2. /\ burst' = IF recorded /\ Close THEN burst ELSE 0
          /\ decided' = decided
          /\ requested' \in 0..MaxRequested
      BY <2>0, <2>3, ActivatorAssumption DEF RequestedStart, BurstSoFar, TypeOK
    <3>3. Counted' = Counted
      BY <2>0, <3>1
    <3>4. TypeOK'
      <4>1. age' \in 0..Ancient /\ burst' \in Nat
        BY <2>0, <3>1, <3>2, StartAdded, AncientIsNat
      <4> QED
        BY <4>1, <3>1, <3>2, StartAdded DEF TypeOK
    <3>5. ~limited' => curCount' <= Counted /\ burst' <= curCount' + 1
      <4>1. ASSUME ~limited'
            PROVE  curCount' <= Counted
        BY <4>1, <3>1, StartAdded DEF BurstInv
      <4>2. ASSUME ~limited', recorded /\ Close
            PROVE  burst' <= curCount' + 1
        <5>1. curCount' = curCount + 1 /\ ~limited
          BY <3>1, <4>2, StartAdded DEF TypeOK
        <5> QED
          BY <2>0, <3>2, <4>2, <5>1 DEF BurstInv
      <4>3. ASSUME ~(recorded /\ Close)
            PROVE  burst' <= curCount' + 1
        BY <4>3, <3>1, <3>2, StartAdded
      <4> QED
        BY <4>1, <4>2, <4>3
    <3>6. limited' => burst' <= Counted + 2
      BY <2>0, <3>2 DEF BurstInv
    <3>7. limited' /\ decided' => burst' <= Counted + 1
      BY <2>0, <3>2 DEF BurstInv
    <3>8. recorded' = TRUE
      BY <3>1, StartAdded
    <3> QED
      BY <3>3, <3>4, <3>5, <3>6, <3>7, <3>8 DEF BurstInv
  <2>4. CASE SetLimitInfo
    <3>1. /\ recorded' = FALSE /\ limited' = FALSE /\ curCount' = 0 /\ burst' = 0
          /\ age' = Ancient /\ decided' = decided /\ limits' \in Limits
          /\ requested' \in 0..MaxRequested
      BY <2>0, <2>4, ActivatorAssumption DEF SetLimitInfo, TypeOK
    <3>2. TypeOK'
      BY <2>0, <3>1, AncientIsNat DEF TypeOK
    <3>3. Counted' \in Nat
      BY <3>1, ActivatorAssumption DEF Counted
    <3>4. curCount' <= Counted' /\ burst' <= curCount' + 1
      BY <3>1, <3>3
    <3> QED
      BY <3>1, <3>2, <3>4, Zenon DEF BurstInv
  <2>5. CASE Tick
    <3>1. /\ UNCHANGED <<limits, recorded, limited, curCount, decided, requested, burst>>
          /\ age < Ancient /\ age' = age + 1
      BY <2>5 DEF Tick
    <3>2. TypeOK'
      BY <2>0, <3>1, AncientIsNat DEF TypeOK
    <3>3. Close' => Close
      <4>1. limits.time \in Int /\ limits.punish \in Int /\ age \in Int
        BY <2>0, LimitsAreInt DEF TypeOK
      <4> QED
        BY <3>1, <4>1 DEF Close
    <3> QED
      BY <2>0, <3>1, <3>2, <3>3 DEF BurstInv
  <2>6. CASE UNCHANGED vars
    BY <2>6 DEF vars, BurstInv, TypeOK, Counted, Close
  <2> QED
    BY <2>1, <2>2, <2>3, <2>4, <2>5, <2>6 DEF Next
<1> QED
  BY <1>1, <1>2, PTL DEF Spec

\* Whatever the limits are configured to, a server that keeps dying is started
\* automatically at most _maxCount + 2 times in a row.
THEOREM BurstIsBounded == Spec => []BurstBound
<1>1. BurstInv => BurstBound
  <2> SUFFICES ASSUME BurstInv PROVE burst <= Counted + 2
    BY DEF BurstBound
  <2>1. Counted \in Nat /\ curCount \in Nat /\ burst \in Nat
    BY LimitsAreInt DEF BurstInv, TypeOK
  <2> QED
    BY <2>1 DEF BurstInv
<1> QED
  BY <1>1, ActivatorInvariant, PTL

-----------------------------------------------------------------------------
Limiter == [closed : BOOLEAN, count : 0 .. MaxStop,
            age : 0 .. CoreInterval, since : 0 .. CoreExpired]

\* The buffer that is written next names the server only if the one before did.
CoreInv ==
  /\ Core!TypeOK /\ Core!CoreAgrees
  /\ conf.other => conf.listed \/ stale

LEMMA StartRecorded ==
  ASSUME limiter \in Limiter, Core!addExcStopRecord
  PROVE  limiter' \in Limiter
<1> DEFINE more == IF limiter.count < MaxStop THEN limiter.count + 1 ELSE limiter.count
           close == ~limiter.closed /\ more >= MaxStop
<1>1. more \in 0 .. MaxStop
  BY ServerLimitsAssumption DEF Limiter
<1>2. CASE limiter.age < CoreInterval
  <2>1. PICK c, s : c = (limiter.closed \/ close) /\ s = (IF close THEN 0 ELSE limiter.since)
    OBVIOUS
  <2>2. c \in BOOLEAN /\ s \in 0 .. CoreExpired
    BY <2>1, ServerLimitsAssumption DEF Limiter
  <2>3. limiter' = [closed |-> c, count |-> more, age |-> limiter.age, since |-> s]
    BY <1>2, <2>1 DEF Core!addExcStopRecord, Limiter
  <2>4. QED
    BY <1>1, <2>2, <2>3 DEF Limiter
<1>3. CASE ~(limiter.age < CoreInterval)
  <2>1. limiter' = [limiter EXCEPT !.count = 1, !.age = 0]
    BY <1>3 DEF Core!addExcStopRecord
  <2>2. limiter' = [closed |-> limiter.closed, count |-> 1, age |-> 0, since |-> limiter.since]
    BY <2>1 DEF Limiter
  <2>3. 1 \in 0 .. MaxStop /\ 0 \in 0 .. CoreInterval
    BY ServerLimitsAssumption
  <2>4. QED
    BY <2>2, <2>3 DEF Limiter
<1>4. QED
  BY <1>2, <1>3

LEMMA InitCore == Core!Init => CoreInv
<1> SUFFICES ASSUME Core!Init PROVE CoreInv
  OBVIOUS
<1>1. Core!Fresh \in Limiter
  BY ServerLimitsAssumption DEF Core!Fresh, Limiter
<1>2. Core!TypeOK
  BY <1>1 DEF Core!Init, Core!TypeOK, Limiter
<1>3. Core!CoreAgrees /\ (conf.other => conf.listed \/ stale)
  BY DEF Core!Init, Core!CoreAgrees
<1>4. QED
  BY <1>2, <1>3 DEF CoreInv

LEMMA CoreStep == CoreInv /\ [Core!Next]_coreVars => CoreInv'
<1> SUFFICES ASSUME CoreInv, [Core!Next]_coreVars PROVE CoreInv'
  OBVIOUS
<1>0. Core!TypeOK /\ limiter \in Limiter
  BY DEF CoreInv, Core!TypeOK, Limiter
<1>1. Core!Fresh \in Limiter /\ Core!Fresh.closed = FALSE
  BY ServerLimitsAssumption DEF Core!Fresh, Limiter
<1>2. CASE Core!AutoStart
  <2>1. limiter' \in Limiter
    BY <1>0, <1>2, StartRecorded DEF Core!AutoStart
  <2>2. \/ up' = TRUE /\ core' = TRUE /\ missed' = FALSE /\ updated' = TRUE
        \/ up' = up /\ core' = core /\ missed' = missed /\ updated' = updated /\ up = FALSE
    BY <1>0, <1>2 DEF Core!AutoStart, Core!startFinish, Core!TypeOK
  <2>3. info' = info /\ conf' = conf /\ stale' = stale
    BY <1>2 DEF Core!AutoStart
  <2>4. Core!TypeOK'
    BY <1>0, <2>1, <2>2, <2>3 DEF Core!TypeOK, Limiter
  <2>5. Core!CoreAgrees'
    BY <2>2, <2>3 DEF CoreInv, Core!CoreAgrees
  <2>6. QED
    BY <2>3, <2>4, <2>5 DEF CoreInv
<1>3. CASE Core!RequestedStart \/ Core!Stop
  <2>1. Core!TypeOK'
    BY <1>0, <1>3 DEF Core!TypeOK, Core!RequestedStart, Core!Stop, Core!startFinish
  <2>2. Core!CoreAgrees' /\ conf' = conf /\ stale' = stale
    BY <1>3 DEF CoreInv, Core!CoreAgrees, Core!RequestedStart, Core!Stop, Core!startFinish
  <2>3. QED
    BY <2>1, <2>2 DEF CoreInv
<1>4. CASE Core!checkCoredumpLimit
  <2>1. up' = up /\ info' = info /\ conf' = conf /\ stale' = stale /\ up /\ info.enabled
    BY <1>4 DEF Core!checkCoredumpLimit
  <2>2. PICK ok \in BOOLEAN :
          \/ /\ info.manual \/ limiter.closed
             /\ Core!setServerCoreLimit(TRUE, ok) /\ updated' = ~ok
             /\ limiter' = limiter /\ missed' = missed
          \/ /\ ~info.manual /\ limiter' = [Core!Fresh EXCEPT !.age = CoreInterval]
             /\ Core!setServerCoreLimit(FALSE, ok) /\ missed' = ~core' /\ updated' = updated
    BY <1>4 DEF Core!checkCoredumpLimit, Core!IsCoreLimitNeedClose
  <2>3. CASE /\ info.manual \/ limiter.closed
             /\ Core!setServerCoreLimit(TRUE, ok) /\ updated' = ~ok
             /\ limiter' = limiter /\ missed' = missed
    <3>1. core' \in BOOLEAN /\ updated' \in BOOLEAN
      BY <1>0, <2>3 DEF Core!setServerCoreLimit, Core!TypeOK
    <3>2. Core!TypeOK'
      BY <1>0, <2>1, <2>3, <3>1 DEF Core!TypeOK
    <3>3. ~updated' => ~core'
      BY <2>3 DEF Core!setServerCoreLimit
    <3>4. Core!CoreAgrees'
      BY <2>1, <2>3, <3>3 DEF CoreInv, Core!CoreAgrees, Core!Wanted
    <3>5. QED
      BY <2>1, <3>2, <3>4 DEF CoreInv
  <2>4. CASE /\ ~info.manual /\ limiter' = [Core!Fresh EXCEPT !.age = CoreInterval]
             /\ Core!setServerCoreLimit(FALSE, ok) /\ missed' = ~core' /\ updated' = updated
    <3>1. core' \in BOOLEAN /\ missed' \in BOOLEAN
      BY <1>0, <2>4 DEF Core!setServerCoreLimit, Core!TypeOK
    <3>2. limiter' \in Limiter /\ limiter'.closed = FALSE
      <4>1. limiter' = [closed |-> FALSE, count |-> 0, age |-> CoreInterval, since |-> 0]
        BY <2>4 DEF Core!Fresh
      <4>2. 0 \in 0 .. MaxStop /\ 0 \in 0 .. CoreExpired /\ CoreInterval \in 0 .. CoreInterval
        BY ServerLimitsAssumption
      <4>3. QED
        BY <4>1, <4>2 DEF Limiter
    <3>3. Core!TypeOK'
      BY <1>0, <2>1, <2>4, <3>1, <3>2 DEF Core!TypeOK, Limiter
    <3>4. Core!CoreAgrees'
      BY <2>1, <2>4, <3>2 DEF CoreInv, Core!CoreAgrees, Core!Wanted
    <3>5. QED
      BY <2>1, <3>3, <3>4 DEF CoreInv
  <2>5. QED
    BY <2>2, <2>3, <2>4
<1>5. CASE Core!loadConfig
  <2>1. PICK wanted \in BOOLEAN, listed \in BOOLEAN :
          /\ conf' = [enabled |-> wanted, listed |-> listed,
                      reader |-> conf.other \/ listed, other |-> conf.reader]
          /\ stale' = (stale \/ (conf.listed /\ ~listed))
    BY <1>5 DEF Core!loadConfig
  <2>2. /\ up' = up /\ core' = core /\ limiter' = limiter /\ info' = info
        /\ updated' = updated /\ missed' = missed
    BY <1>5 DEF Core!loadConfig
  <2>3. PICK reader : reader = (conf.other \/ listed)
    OBVIOUS
  <2>4. conf' = [enabled |-> wanted, listed |-> listed, reader |-> reader, other |-> conf.reader]
        /\ reader \in BOOLEAN /\ stale' \in BOOLEAN
    BY <1>0, <2>1, <2>3 DEF Core!TypeOK
  <2>5. Core!TypeOK'
    BY <1>0, <2>2, <2>4 DEF Core!TypeOK
  <2>6. conf'.listed = listed /\ conf'.reader = reader /\ conf'.other = conf.reader
    BY <2>4
  <2>7. (conf'.reader => conf'.listed \/ stale') /\ (conf'.other => conf'.listed \/ stale')
    BY <2>1, <2>3, <2>6 DEF CoreInv, Core!CoreAgrees
  <2>8. Core!CoreAgrees'
    BY <2>2, <2>7 DEF CoreInv, Core!CoreAgrees, Core!Wanted
  <2>9. QED
    BY <2>5, <2>7, <2>8 DEF CoreInv
<1>6. CASE Core!setServerLimitInfo
  <2>1. /\ info' = [enabled |-> conf.enabled, manual |-> conf.reader] /\ updated' = TRUE
        /\ up' = up /\ core' = core /\ limiter' = limiter /\ conf' = conf /\ stale' = stale
    BY <1>6 DEF Core!setServerLimitInfo
  <2>2. /\ info'.enabled = conf.enabled /\ info'.manual = conf.reader
        /\ info' \in [enabled : BOOLEAN, manual : BOOLEAN]
    BY <1>0, <2>1 DEF Core!TypeOK
  <2>3. /\ missed' \in BOOLEAN
        /\ ~missed' => ~missed /\ (core \/ (conf.enabled /\ (conf.reader \/ limiter.closed)))
    BY <1>0, <1>6, <2>1, <2>2 DEF Core!setServerLimitInfo, Core!TypeOK
  <2>4. Core!TypeOK'
    BY <1>0, <2>1, <2>2, <2>3 DEF Core!TypeOK
  <2>5. Core!CoreAgrees'
    BY <2>1, <2>2, <2>3 DEF CoreInv, Core!CoreAgrees, Core!Wanted
  <2>6. QED
    BY <2>1, <2>4, <2>5 DEF CoreInv
<1>7. CASE Core!resetCoreInfo
  <2>1. /\ limiter' = Core!Fresh /\ info' = info /\ updated' = updated
        /\ up' = up /\ core' = core /\ conf' = conf /\ stale' = stale
        /\ missed' = (missed \/ (~core /\ ~(info.enabled /\ info.manual)))
    BY <1>7 DEF Core!resetCoreInfo
  <2>2. Core!TypeOK'
    BY <1>0, <1>1, <2>1 DEF Core!TypeOK, Limiter
  <2>3. Core!CoreAgrees'
    BY <1>1, <2>1 DEF CoreInv, Core!CoreAgrees, Core!Wanted
  <2>4. QED
    BY <2>1, <2>2, <2>3 DEF CoreInv
<1>8. CASE Core!Tick
  <2>1. /\ info' = info /\ updated' = updated /\ missed' = missed
        /\ up' = up /\ core' = core /\ conf' = conf /\ stale' = stale
    BY <1>8 DEF Core!Tick
  <2>2. PICK a, s : /\ a = (IF limiter.age < CoreInterval THEN limiter.age + 1 ELSE limiter.age)
                    /\ s = (IF limiter.since < CoreExpired THEN limiter.since + 1
                            ELSE limiter.since)
    OBVIOUS
  <2>3. a \in 0 .. CoreInterval /\ s \in 0 .. CoreExpired
    BY <1>0, <2>2, ServerLimitsAssumption DEF Limiter
  <2>4. limiter' = [limiter EXCEPT !.age = a, !.since = s]
    BY <1>8, <2>2 DEF Core!Tick
  <2>5. limiter' \in Limiter /\ limiter'.closed = limiter.closed
    BY <1>0, <2>3, <2>4 DEF Limiter
  <2>6. Core!TypeOK'
    BY <1>0, <2>1, <2>5 DEF Core!TypeOK, Limiter
  <2>7. Core!CoreAgrees'
    BY <2>1, <2>5 DEF CoreInv, Core!CoreAgrees, Core!Wanted
  <2>8. QED
    BY <2>1, <2>6, <2>7 DEF CoreInv
<1>9. CASE UNCHANGED coreVars
  BY <1>9 DEF CoreInv, Core!TypeOK, Core!CoreAgrees, Core!Wanted, coreVars
<1>10. QED
  BY <1>2, <1>3, <1>4, <1>5, <1>6, <1>7, <1>8, <1>9 DEF Core!Next

-----------------------------------------------------------------------------
\* A step of the whole is a step, or none, of each of the limits.
LEMMA StepsOfEach == LimitsNext => [Next]_vars /\ [Core!Next]_coreVars
<1> SUFFICES ASSUME LimitsNext PROVE [Next]_vars /\ [Core!Next]_coreVars
  OBVIOUS
<1>1. CASE Check \/ Started \/ Requested
  BY <1>1 DEF Check, Started, Requested, Next, Core!Next
<1>2. CASE Configured \/ Watched \/ Passes
  BY <1>2 DEF Configured, Watched, Passes, Next, Core!Next
<1>3. QED
  BY <1>1, <1>2 DEF LimitsNext

\* Each limit takes its own steps in the whole.
LEMMA BothImplemented == LimitsSpec => Spec /\ Core!Spec
<1>1. LimitsInit => Init /\ Core!Init
  BY DEF LimitsInit
<1>2. [LimitsNext]_<<vars, coreVars>> => [Next]_vars /\ [Core!Next]_Core!vars
  BY StepsOfEach DEF coreVars, Core!vars
<1>3. QED
  BY <1>1, <1>2, PTL DEF LimitsSpec, Spec, Core!Spec

\* Automatic starts stay bounded when starts, configurations and patches of the
\* core's limit interleave with them.
THEOREM BurstBoundTogether == LimitsSpec => []BurstBound
BY BothImplemented, BurstIsBounded, PTL

\* A running process that was not told in vain has its core closed exactly as the
\* limiter and the configuration want it, once nothing is left to be told.
THEOREM CoreStaysRight == LimitsSpec => []CoreOK
<1>1. LimitsInit => CoreInv
  BY InitCore DEF LimitsInit
<1>2. CoreInv /\ [LimitsNext]_<<vars, coreVars>> => CoreInv'
  BY StepsOfEach, CoreStep
<1>3. CoreInv => CoreOK
  BY DEF CoreInv, CoreOK
<1>4. QED
  BY <1>1, <1>2, <1>3, PTL DEF LimitsSpec
=============================================================================
