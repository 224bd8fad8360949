----------------------- MODULE WorkspaceLifecycleProofs -----------------------
(***************************************************************************)
(* Proofs about WorkspaceLifecycle, for any number of names, ids, ports    *)
(* and concurrent requests: its invariants, and that its table implements  *)
(* WorkspaceRegistry.                                                      *)
(***************************************************************************)
EXTENDS MCLifecycleHeal, TLAPS

------------------------------------------------------------------------------
(* The inductive invariant.  cl and pr stand for claim and proven.         *)

(* What a create request knows at each of its steps: which name its id was  *)
(* drawn for, that the ports it is about to record were seen answering, and *)
(* that it has attempts left.                                               *)
CreateOK(q, cl, pr) ==
    /\ q.pc # "idle" => q.name \in Names
    /\ q.pc \in LaunchPc \union {"mark_ready"} => q.id \in Ids /\ cl[q.id] = q.name
    /\ q.pc \in {"deliver", "start", "await", "mark_ready"} => q.port \in Ports
    /\ q.pc = "mark_ready" => <<q.id, q.port>> \in pr
    /\ q.pc # "mark_failed" => q.tries < MaxAttempts

DeleteOK(q) ==
    /\ q.pc # "idle" => q.id \in Ids
    /\ q.pc = "rm" => q.name \in Ids

(* The record a diagnosis works by may be stale, but it was true of the     *)
(* name its workspace id was drawn for.                                     *)
DiagnoseOK(q, cl, pr) ==
    /\ q.pc # "idle" => q.id \in Ids
    /\ q.pc \notin {"idle", "find"} =>
           /\ q.name \in Ids
           /\ <<q.name, q.port>> \in pr
           /\ cl[q.name] # NONE
           /\ cl[q.name] = cl[q.id]

RowOK(n, r, cl, pr) == r # NONE =>
    /\ cl[r.id] = n
    /\ r.status = "ready" => r.name # NONE
    /\ r.name # NONE => <<r.name, r.port>> \in pr /\ cl[r.name] = n

CreateInv == \A c \in Creators : CreateOK(creq[c], claim, proven)
DeleteInv == \A d \in Deleters : DeleteOK(dreq[d])
DiagnoseInv == \A g \in Diagnosers : DiagnoseOK(greq[g], claim, proven)
RowInv == \A n \in Names : RowOK(n, rows[n], claim, proven)

(* What an orphan may still create is claimed, as it was while its request  *)
(* was there.                                                               *)
OrphanOK(o, cl) == o.op = "create" => cl[o.id] # NONE /\ o.port \in Ports
OrphanInv == \A o \in orphans : OrphanOK(o, claim)

IInv ==
    /\ TypeOK /\ CreateInv /\ DeleteInv /\ DiagnoseInv /\ RowInv /\ OrphanInv
    /\ ContainersAreClaimed

LEMMA InitIInv == Init => IInv
  <1> SUFFICES ASSUME Init PROVE IInv
    OBVIOUS
  <1>1. TypeOK
    BY AttemptsAssumption
       DEF Init, TypeOK, Row, Container, Absent, CreateReq, NoCreate, CreatePc,
           DeleteReq, NoDelete, DiagnoseReq, DiagnosePc, NoDiagnose
  <1>2. CreateInv /\ DeleteInv /\ DiagnoseInv
    BY AttemptsAssumption
       DEF Init, CreateInv, CreateOK, NoCreate, LaunchPc, DeleteInv, DeleteOK, NoDelete,
           DiagnoseInv, DiagnoseOK, NoDiagnose
  <1>3. RowInv /\ OrphanInv /\ ContainersAreClaimed
    BY DEF Init, RowInv, RowOK, OrphanInv, ContainersAreClaimed, Exists, Absent
  <1> QED
    BY <1>1, <1>2, <1>3 DEF IInv

------------------------------------------------------------------------------
(* What a step changes *)

(* The claims and the proven launches are histories: they only grow. *)
Grows ==
    /\ \A i \in Ids : claim[i] # NONE => claim'[i] = claim[i]
    /\ proven \subseteq proven'

(* Who changes what: for each variable, the actions that may change it. *)
Changes_creq ==
    \/ UNCHANGED creq
    \/ \E c \in Creators, n \in Names : Receive(c, n)
    \/ \E c \in Creators : \/ Find(c) \/ BeginCreation(c) \/ ReadBack(c)
                           \/ RemoveStale(c) \/ CreateContainer(c)
                           \/ Deliver(c) \/ StartContainer(c)
                           \/ AwaitReady(c) \/ CleanUp(c) \/ MarkReady(c)
                           \/ ReadyFind(c) \/ MarkFailed(c)
                           \/ SetOwner(c) \/ DropCreate(c)

Changes_dreq ==
    \/ UNCHANGED dreq
    \/ \E d \in Deleters, i \in Ids : DeleteReceive(d, i)
    \/ \E d \in Deleters : \/ DeleteFind(d) \/ DeleteContainer(d)
                           \/ DeleteRow(d) \/ DropDelete(d)

Changes_greq ==
    \/ UNCHANGED greq
    \/ \E g \in Diagnosers, i \in Ids : DiagnoseReceive(g, i)
    \/ \E g \in Diagnosers : \/ DiagnoseFind(g) \/ Inspect(g) \/ Probe(g)
                             \/ HealStop(g) \/ HealStart(g)
                             \/ HealAwait(g) \/ HealInspect(g)
                             \/ HealReady(g) \/ HealFailed(g)
                             \/ DropDiagnose(g)

Changes_rows ==
    \/ UNCHANGED rows
    \/ \E c \in Creators : \/ BeginCreation(c) \/ MarkReady(c)
                           \/ MarkFailed(c) \/ SetOwner(c)
    \/ \E d \in Deleters : DeleteRow(d)
    \/ \E g \in Diagnosers : \/ HealReady(g) \/ HealFailed(g)

Changes_docker ==
    \/ UNCHANGED docker
    \/ \E c \in Creators : \/ RemoveStale(c) \/ CreateContainer(c)
                           \/ Deliver(c) \/ StartContainer(c)
                           \/ CleanUp(c)
    \/ \E d \in Deleters : DeleteContainer(d)
    \/ \E g \in Diagnosers : \/ HealStop(g) \/ HealStart(g)
    \/ \E i \in Ids : \/ ContainerExits(i) \/ WrapperHangs(i)
    \/ \E o \in orphans : OrphanEnds(o)

Changes_orphans ==
    \/ UNCHANGED orphans
    \/ \E c \in Creators : DropCreate(c)
    \/ \E d \in Deleters : DropDelete(d)
    \/ \E g \in Diagnosers : DropDiagnose(g)
    \/ \E o \in orphans : OrphanEnds(o)

Changes_claim ==
    \/ UNCHANGED claim
    \/ \E c \in Creators : BeginCreation(c)

Changes_proven ==
    \/ UNCHANGED proven
    \/ \E c \in Creators : AwaitReady(c)

Changes ==
    /\ Changes_creq /\ Changes_dreq /\ Changes_greq
    /\ Changes_rows /\ Changes_docker /\ Changes_orphans
    /\ Changes_claim /\ Changes_proven

LEMMA Frames ==
  ASSUME [Next]_vars
  PROVE  Changes
  <1>1. CASE \E c \in Creators, n \in Names : Collision(c, n) \/ Receive(c, n)
    BY <1>1
       DEF Collision, Receive, AtStep, vars, Changes_creq, Changes_dreq,
           Changes_greq, Changes_rows, Changes_docker, Changes_orphans, Changes_claim,
           Changes_proven, Changes
  <1>2. CASE \E c \in Creators : CreateStep(c) \/ DropCreate(c)
    <2>1. ASSUME NEW c \in Creators, Find(c) \/ ReadBack(c) \/ ReadyFind(c) \/ DropCreate(c)
          PROVE  Changes
      BY <2>1 DEF Changes, Find, ReadBack, ReadyFind, DropCreate, AtStep,
                  Changes_creq, Changes_dreq, Changes_greq, Changes_rows,
                  Changes_docker, Changes_orphans, Changes_claim, Changes_proven
    <2>2. ASSUME NEW c \in Creators, RemoveStale(c) \/ CreateContainer(c) \/ Deliver(c) \/ StartContainer(c) \/ CleanUp(c)
          PROVE  Changes
      BY <2>2 DEF Changes, RemoveStale, CreateContainer, Deliver, StartContainer, CleanUp, AtStep,
                  Changes_creq, Changes_dreq, Changes_greq, Changes_rows,
                  Changes_docker, Changes_orphans, Changes_claim, Changes_proven
    <2>3. ASSUME NEW c \in Creators, BeginCreation(c) \/ AwaitReady(c)
          PROVE  Changes
      BY <2>3 DEF Changes, BeginCreation, AwaitReady, AtStep,
                  Changes_creq, Changes_dreq, Changes_greq, Changes_rows,
                  Changes_docker, Changes_orphans, Changes_claim, Changes_proven
    <2>4. ASSUME NEW c \in Creators, MarkReady(c) \/ MarkFailed(c) \/ SetOwner(c)
          PROVE  Changes
      BY <2>4 DEF Changes, MarkReady, MarkFailed, SetOwner, AtStep,
                  Changes_creq, Changes_dreq, Changes_greq, Changes_rows,
                  Changes_docker, Changes_orphans, Changes_claim, Changes_proven
    <2> QED
      BY <1>2, <2>1, <2>2, <2>3, <2>4 DEF CreateStep
  <1>3. CASE \E d \in Deleters, i \in Ids : DeleteReceive(d, i)
    BY <1>3
       DEF DeleteReceive, DeleteAt, Changes_creq, Changes_dreq,
           Changes_greq, Changes_rows, Changes_docker, Changes_orphans, Changes_claim,
           Changes_proven, Changes
  <1>4. CASE \E d \in Deleters : DeleteStep(d) \/ DropDelete(d)
    BY <1>4
       DEF DeleteStep, DeleteFind, DeleteContainer, DeleteRow,
           DropDelete, DeleteAt, Changes_creq, Changes_dreq,
           Changes_greq, Changes_rows, Changes_docker, Changes_orphans, Changes_claim,
           Changes_proven, Changes
  <1>5. CASE \E g \in Diagnosers, i \in Ids : DiagnoseReceive(g, i)
    BY <1>5
       DEF DiagnoseReceive, DiagnoseAt, Changes_creq, Changes_dreq,
           Changes_greq, Changes_rows, Changes_docker, Changes_orphans, Changes_claim,
           Changes_proven, Changes
  <1>6. CASE \E g \in Diagnosers : DiagnoseStep(g) \/ DropDiagnose(g)
    BY <1>6
       DEF DiagnoseStep, DiagnoseFind, Inspect, Probe, HealStop,
           HealStart, HealAwait, HealInspect, HealReady, HealFailed,
           DropDiagnose, DiagnoseAt, Changes_creq, Changes_dreq,
           Changes_greq, Changes_rows, Changes_docker, Changes_orphans, Changes_claim,
           Changes_proven, Changes
  <1>7. CASE \E i \in Ids : ContainerExits(i) \/ WrapperHangs(i)
    BY <1>7
       DEF ContainerExits, WrapperHangs, Changes_creq, Changes_dreq,
           Changes_greq, Changes_rows, Changes_docker, Changes_orphans, Changes_claim,
           Changes_proven, Changes
  <1>8. CASE UNCHANGED vars
    BY <1>8
       DEF vars, Changes_creq, Changes_dreq, Changes_greq, Changes_rows,
           Changes_docker, Changes_orphans, Changes_claim, Changes_proven, Changes
  <1>9. CASE \E o \in orphans : OrphanEnds(o)
    BY <1>9
       DEF OrphanEnds, Changes_creq, Changes_dreq, Changes_greq,
           Changes_rows, Changes_docker, Changes_orphans, Changes_claim,
           Changes_proven, Changes
  <1> QED
    BY <1>1, <1>2, <1>3, <1>4, <1>5, <1>6, <1>7, <1>8, <1>9 DEF Next

LEMMA GrowsStep ==
  ASSUME IInv, [Next]_vars
  PROVE  Grows
  <1>1. \A i \in Ids : claim[i] # NONE => claim'[i] = claim[i]
    <2>1. ASSUME NEW c \in Creators, BeginCreation(c)
          PROVE  \A i \in Ids : claim[i] # NONE => claim'[i] = claim[i]
      BY <2>1 DEF BeginCreation, IInv, TypeOK
    <2> QED
      BY <2>1, Frames DEF Changes, Changes_claim
  <1>2. proven \subseteq proven'
    BY Frames DEF Changes, Changes_proven, AwaitReady
  <1> QED
    BY <1>1, <1>2 DEF Grows

LEMMA HistoryTypes ==
  ASSUME IInv, [Next]_vars
  PROVE  claim' \in [Ids -> Names \union {NONE}] /\ proven' \subseteq Ids \X Ports
  <1>1. ASSUME NEW c \in Creators, BeginCreation(c)
        PROVE  claim' \in [Ids -> Names \union {NONE}]
    BY <1>1 DEF BeginCreation, AtStep, IInv, TypeOK, CreateInv, CreateOK
  <1>2. ASSUME NEW c \in Creators, AwaitReady(c)
        PROVE  proven' \subseteq Ids \X Ports
    BY <1>2 DEF AwaitReady, AtStep, IInv, TypeOK, CreateInv, CreateOK, LaunchPc
  <1> QED
    BY <1>1, <1>2, Frames DEF Changes, Changes_claim, Changes_proven, IInv, TypeOK

------------------------------------------------------------------------------
(* Create requests *)

LEMMA NoCreateOK ==
  /\ NoCreate \in CreateReq
  /\ CreateOK(NoCreate, claim', proven')
  BY AttemptsAssumption DEF NoCreate, CreateReq, CreatePc, CreateOK, LaunchPc

LEMMA CreateGrows ==
  ASSUME Grows, NEW q \in CreateReq, CreateOK(q, claim, proven)
  PROVE  CreateOK(q, claim', proven')
  BY NoneAssumption DEF Grows, CreateOK, LaunchPc

(* Request c is replaced by one that is right about the next state. *)
CreateMoves(c) == \E q \in CreateReq :
    creq' = [creq EXCEPT ![c] = q] /\ CreateOK(q, claim', proven')

(* A step that asks nothing new of a request *)
LEMMA CreateGoto ==
  ASSUME NEW c \in Creators, creq[c] \in CreateReq, CreateOK(creq[c], claim, proven), Grows,
         creq[c].pc \notin {"idle", "mark_failed"},
         NEW pc \in CreatePc \ {"idle", "mark_ready"}, Goto(c, pc),
         pc \in LaunchPc => creq[c].pc \in LaunchPc,
         pc \in {"deliver", "start", "await"} => creq[c].pc \in {"deliver", "start", "await"}
  PROVE  CreateMoves(c)
  <1> DEFINE q == [creq[c] EXCEPT !.pc = pc]
  <1>1. creq' = [creq EXCEPT ![c] = q]
    BY DEF Goto
  <1>2. q \in CreateReq
    BY DEF CreateReq
  <1>3. CreateOK(q, claim, proven)
    BY DEF CreateOK, CreateReq, LaunchPc
  <1> QED
    BY <1>1, <1>2, <1>3, CreateGrows DEF CreateMoves

LEMMA AttemptFailsMoves ==
  ASSUME NEW c \in Creators, creq[c] \in CreateReq, CreateOK(creq[c], claim, proven), Grows,
         creq[c].pc \in LaunchPc, AttemptFails(c)
  PROVE  CreateMoves(c)
  <1> DEFINE t == creq[c].tries + 1
             pc == IF t < MaxAttempts THEN "rm" ELSE "mark_failed"
             q == [creq[c] EXCEPT !.tries = t, !.port = NONE, !.pc = pc]
  <1>1. creq' = [creq EXCEPT ![c] = q]
    BY DEF AttemptFails
  <1>2. t \in 0..MaxAttempts
    BY AttemptsAssumption DEF CreateOK, CreateReq, LaunchPc
  <1>3. q \in CreateReq
    BY <1>2 DEF CreateReq, CreatePc, LaunchPc
  <1>4. CreateOK(q, claim, proven)
    BY <1>2 DEF CreateOK, CreateReq, LaunchPc
  <1> QED
    BY <1>1, <1>3, <1>4, CreateGrows DEF CreateMoves

LEMMA RespondMoves ==
  ASSUME NEW c \in Creators, Respond(c)
  PROVE  CreateMoves(c)
  BY NoCreateOK DEF Respond, CreateMoves

(* Find, ReadBack and ReadyFind go on with the id of the row they found.   *)
LEMMA CreateTakesRow ==
  ASSUME IInv, Grows, NEW c \in Creators, creq[c].pc \notin {"idle", "mark_failed"},
         rows[creq[c].name] # NONE, NEW pc \in {"rm", "owner"},
         creq' = [creq EXCEPT ![c] =
                     [creq[c] EXCEPT !.id = rows[creq[c].name].id, !.pc = pc]]
  PROVE  CreateMoves(c)
  <1> DEFINE q == [creq[c] EXCEPT !.id = rows[creq[c].name].id, !.pc = pc]
  <1>1. creq[c] \in CreateReq /\ CreateOK(creq[c], claim, proven)
    BY DEF IInv, TypeOK, CreateInv
  <1>2. creq[c].name \in Names /\ creq[c].tries < MaxAttempts
    BY <1>1 DEF CreateOK
  <1>3. rows[creq[c].name].id \in Ids /\ claim[rows[creq[c].name].id] = creq[c].name
    BY <1>2 DEF IInv, RowInv, RowOK, TypeOK, Row
  <1>4. q \in CreateReq
    BY <1>1, <1>3 DEF CreateReq, CreatePc, LaunchPc
  <1>5. CreateOK(q, claim, proven)
    BY <1>1, <1>2, <1>3 DEF CreateOK, CreateReq, LaunchPc
  <1> QED
    BY <1>4, <1>5, CreateGrows DEF CreateMoves

LEMMA CreateStepMoves ==
  ASSUME IInv, Grows, NEW c \in Creators, CreateStep(c)
  PROVE  CreateMoves(c)
  <1>1. creq[c] \in CreateReq /\ CreateOK(creq[c], claim, proven)
    BY DEF IInv, TypeOK, CreateInv
  <1>2. CASE Find(c)
    <2>1. CASE rows[creq[c].name] = NONE
      <3>1. Goto(c, "begin") /\ creq[c].pc = "find"
        BY <1>2, <2>1 DEF Find, AtStep
      <3> QED
        BY <1>1, <3>1, CreateGoto DEF CreatePc, LaunchPc
    <2>2. CASE rows[creq[c].name] # NONE
      BY <1>2, <2>2, CreateTakesRow DEF Find, AtStep
    <2> QED
      BY <2>1, <2>2
  <1>3. CASE BeginCreation(c)
    <2>1. creq[c].pc = "begin" /\ creq[c].name \in Names /\ creq[c].tries < MaxAttempts
      BY <1>1, <1>3 DEF BeginCreation, AtStep, CreateOK
    <2>2. CASE Goto(c, "readback")
      BY <1>1, <2>1, <2>2, CreateGoto DEF CreatePc, LaunchPc
    <2>3. ASSUME NEW i \in Ids, claim' = [claim EXCEPT ![i] = creq[c].name],
                 creq' = [creq EXCEPT ![c] = [creq[c] EXCEPT !.id = i, !.pc = "rm"]]
          PROVE  CreateMoves(c)
      <3> DEFINE q == [creq[c] EXCEPT !.id = i, !.pc = "rm"]
      <3>1. q \in CreateReq
        BY <1>1 DEF CreateReq, CreatePc, LaunchPc
      <3>2. claim'[i] = creq[c].name
        BY <2>3 DEF IInv, TypeOK
      <3>3. CreateOK(q, claim', proven')
        BY <1>1, <2>1, <3>2 DEF CreateOK, CreateReq, LaunchPc
      <3> QED
        BY <2>3, <3>1, <3>3 DEF CreateMoves
    <2> QED
      BY <1>3, <2>2, <2>3 DEF BeginCreation
  <1>4. CASE ReadBack(c)
    BY <1>4, RespondMoves, CreateTakesRow DEF ReadBack, AtStep
  <1>5. CASE RemoveStale(c)
    <2>1. Goto(c, "create") /\ creq[c].pc = "rm"
      BY <1>5 DEF RemoveStale, AtStep
    <2> QED
      BY <1>1, <2>1, CreateGoto DEF CreatePc, LaunchPc
  <1>6. CASE CreateContainer(c)
    <2>1. creq[c].pc = "create" /\ creq[c].pc \in LaunchPc
      BY <1>6 DEF CreateContainer, AtStep, LaunchPc
    <2>2. ASSUME NEW p \in Ports,
                 creq' = [creq EXCEPT ![c] = [creq[c] EXCEPT !.port = p, !.pc = "deliver"]]
          PROVE  CreateMoves(c)
      <3> DEFINE q == [creq[c] EXCEPT !.port = p, !.pc = "deliver"]
      <3>1. q \in CreateReq
        BY <1>1 DEF CreateReq, CreatePc, LaunchPc
      <3>2. CreateOK(q, claim, proven)
        BY <1>1, <2>1 DEF CreateOK, CreateReq, LaunchPc
      <3> QED
        BY <2>2, <3>1, <3>2, CreateGrows DEF CreateMoves
    <2>3. CASE AttemptFails(c)
      BY <1>1, <2>1, <2>3, AttemptFailsMoves
    <2> QED
      BY <1>6, <2>2, <2>3 DEF CreateContainer
  <1>7. CASE Deliver(c)
    <2>1. (Goto(c, "start") \/ Goto(c, "cleanup")) /\ creq[c].pc = "deliver"
      BY <1>7 DEF Deliver, AtStep
    <2> QED
      BY <1>1, <2>1, CreateGoto DEF CreatePc, LaunchPc
  <1>8. CASE StartContainer(c)
    <2>1. (Goto(c, "await") \/ Goto(c, "cleanup")) /\ creq[c].pc = "start"
      BY <1>8 DEF StartContainer, AtStep
    <2> QED
      BY <1>1, <2>1, CreateGoto DEF CreatePc, LaunchPc
  <1>9. CASE AwaitReady(c)
    <2>1. creq[c].pc = "await"
      BY <1>9 DEF AwaitReady, AtStep
    <2>2. CASE Goto(c, "cleanup")
      BY <1>1, <2>1, <2>2, CreateGoto DEF CreatePc, LaunchPc
    <2>3. CASE Goto(c, "mark_ready") /\ <<creq[c].id, creq[c].port>> \in proven'
      <3> DEFINE q == [creq[c] EXCEPT !.pc = "mark_ready"]
      <3>1. creq' = [creq EXCEPT ![c] = q]
        BY <2>3 DEF Goto
      <3>2. q \in CreateReq
        BY <1>1 DEF CreateReq, CreatePc
      <3>3. CreateOK(creq[c], claim', proven')
        BY <1>1, CreateGrows
      <3>4. CreateOK(q, claim', proven')
        BY <1>1, <2>1, <2>3, <3>3 DEF CreateOK, CreateReq, LaunchPc
      <3> QED
        BY <3>1, <3>2, <3>4 DEF CreateMoves
    <2> QED
      BY <1>9, <2>2, <2>3 DEF AwaitReady
  <1>10. CASE CleanUp(c)
    <2>1. AttemptFails(c) /\ creq[c].pc \in LaunchPc
      BY <1>10 DEF CleanUp, AtStep, LaunchPc
    <2> QED
      BY <1>1, <2>1, AttemptFailsMoves
  <1>11. CASE MarkReady(c)
    <2>1. Goto(c, "ready_find") /\ creq[c].pc = "mark_ready"
      BY <1>11 DEF MarkReady, AtStep
    <2> QED
      BY <1>1, <2>1, CreateGoto DEF CreatePc, LaunchPc
  <1>12. CASE ReadyFind(c)
    BY <1>12, RespondMoves, CreateTakesRow DEF ReadyFind, AtStep
  <1>13. CASE MarkFailed(c) \/ SetOwner(c)
    BY <1>13, RespondMoves DEF MarkFailed, SetOwner
  <1> QED
    BY <1>2, <1>3, <1>4, <1>5, <1>6, <1>7, <1>8, <1>9, <1>10, <1>11, <1>12, <1>13
       DEF CreateStep

LEMMA CreqStep ==
  ASSUME IInv, [Next]_vars
  PROVE  creq' \in [Creators -> CreateReq] /\ CreateInv'
  <1>1. Grows
    BY GrowsStep
  <1>2. creq \in [Creators -> CreateReq]
    BY DEF IInv, TypeOK
  <1>3. \A e \in Creators : CreateOK(creq[e], claim', proven')
    BY <1>1, <1>2, CreateGrows DEF IInv, CreateInv
  <1>4. ASSUME NEW c \in Creators, CreateMoves(c)
        PROVE  creq' \in [Creators -> CreateReq] /\ CreateInv'
    BY <1>2, <1>3, <1>4 DEF CreateMoves, CreateInv
  <1>5. CASE UNCHANGED creq
    BY <1>2, <1>3, <1>5 DEF CreateInv
  <1>6. ASSUME NEW c \in Creators, NEW n \in Names, Receive(c, n)
        PROVE  CreateMoves(c)
    <2> DEFINE q == [NoCreate EXCEPT !.pc = "find", !.name = n]
    <2>1. NoCreate \in CreateReq
      BY NoCreateOK
    <2>2. q \in CreateReq
      BY <2>1 DEF CreateReq, CreatePc
    <2>3. CreateOK(q, claim', proven')
      BY AttemptsAssumption DEF NoCreate, CreateOK, LaunchPc
    <2> QED
      BY <1>6, <2>2, <2>3 DEF Receive, CreateMoves
  <1>7. ASSUME NEW c \in Creators, DropCreate(c)
        PROVE  CreateMoves(c)
    BY <1>7, RespondMoves DEF DropCreate
  <1>8. ASSUME NEW c \in Creators, CreateStep(c)
        PROVE  CreateMoves(c)
    BY <1>1, <1>8, CreateStepMoves
  <1> QED
    BY <1>4, <1>5, <1>6, <1>7, <1>8, Frames DEF Changes, Changes_creq, CreateStep

------------------------------------------------------------------------------
(* Deletes and diagnoses *)

DeleteMoves(d) == \E q \in DeleteReq : dreq' = [dreq EXCEPT ![d] = q] /\ DeleteOK(q)

LEMMA DeleteStepMoves ==
  ASSUME IInv, NEW d \in Deleters, DeleteStep(d) \/ DropDelete(d)
  PROVE  DeleteMoves(d)
  <1>1. dreq[d] \in DeleteReq /\ DeleteOK(dreq[d])
    BY DEF IInv, TypeOK, DeleteInv
  <1>2. NoDelete \in DeleteReq /\ DeleteOK(NoDelete)
    BY DEF NoDelete, DeleteReq, DeleteOK
  <1>3. CASE dreq' = [dreq EXCEPT ![d] = NoDelete]
    BY <1>2, <1>3 DEF DeleteMoves
  <1>4. ASSUME DeleteFind(d), NEW n \in RowsOf(dreq[d].id),
               dreq' = [dreq EXCEPT ![d] =
                   [@ EXCEPT !.name = rows[n].name,
                             !.pc = IF rows[n].name = NONE THEN "row" ELSE "rm"]]
        PROVE  DeleteMoves(d)
    <2> DEFINE q == [dreq[d] EXCEPT !.name = rows[n].name,
                                    !.pc = IF rows[n].name = NONE THEN "row" ELSE "rm"]
    <2>1. dreq[d].id \in Ids
      BY <1>1, <1>4 DEF DeleteFind, DeleteAt, DeleteOK
    <2>2. rows[n].name \in Ids \union {NONE}
      BY DEF RowsOf, IInv, TypeOK, Row
    <2>3. q \in DeleteReq
      BY <1>1, <2>2 DEF DeleteReq
    <2>4. DeleteOK(q)
      BY <1>1, <2>1, <2>2 DEF DeleteReq, DeleteOK
    <2> QED
      BY <1>4, <2>3, <2>4 DEF DeleteMoves
  <1>5. CASE DeleteContainer(d) /\ dreq' = [dreq EXCEPT ![d].pc = "row"]
    <2> DEFINE q == [dreq[d] EXCEPT !.pc = "row"]
    <2>1. q \in DeleteReq /\ DeleteOK(q)
      BY <1>1, <1>5 DEF DeleteContainer, DeleteAt, DeleteReq, DeleteOK
    <2> QED
      BY <1>5, <2>1 DEF DeleteMoves
  <1> QED
    BY <1>3, <1>4, <1>5 DEF DeleteStep, DeleteFind, DeleteContainer, DeleteRow, DropDelete

LEMMA DreqStep ==
  ASSUME IInv, [Next]_vars
  PROVE  dreq' \in [Deleters -> DeleteReq] /\ DeleteInv'
  <1>1. dreq \in [Deleters -> DeleteReq] /\ \A d \in Deleters : DeleteOK(dreq[d])
    BY DEF IInv, TypeOK, DeleteInv
  <1>2. ASSUME NEW d \in Deleters, DeleteMoves(d)
        PROVE  dreq' \in [Deleters -> DeleteReq] /\ DeleteInv'
    BY <1>1, <1>2 DEF DeleteMoves, DeleteInv
  <1>3. CASE UNCHANGED dreq
    BY <1>1, <1>3 DEF DeleteInv
  <1>4. ASSUME NEW d \in Deleters, NEW i \in Ids, DeleteReceive(d, i)
        PROVE  DeleteMoves(d)
    <2> DEFINE q == [NoDelete EXCEPT !.pc = "find", !.id = i]
    <2>1. q \in DeleteReq /\ DeleteOK(q)
      BY DEF NoDelete, DeleteReq, DeleteOK
    <2> QED
      BY <1>4, <2>1 DEF DeleteReceive, DeleteMoves
  <1> QED
    BY <1>2, <1>3, <1>4, DeleteStepMoves, Frames DEF Changes, Changes_dreq, DeleteStep

DiagnoseMoves(g) == \E q \in DiagnoseReq :
    greq' = [greq EXCEPT ![g] = q] /\ DiagnoseOK(q, claim', proven')

LEMMA NoDiagnoseOK ==
  /\ NoDiagnose \in DiagnoseReq
  /\ DiagnoseOK(NoDiagnose, claim', proven')
  BY DEF NoDiagnose, DiagnoseReq, DiagnosePc, DiagnoseOK

LEMMA DiagnoseGrows ==
  ASSUME Grows, claim \in [Ids -> Names \union {NONE}],
         NEW q \in DiagnoseReq, DiagnoseOK(q, claim, proven)
  PROVE  DiagnoseOK(q, claim', proven')
  BY DEF Grows, DiagnoseOK, DiagnoseReq, DiagnosePc

(* A step that only goes on, knowing whether the workspace is well *)
LEMMA DiagnoseGoto ==
  ASSUME IInv, Grows, NEW g \in Diagnosers, greq[g].pc \notin {"idle", "find"},
         NEW pc \in DiagnosePc, NEW well \in BOOLEAN,
         greq' = [greq EXCEPT ![g] = [greq[g] EXCEPT !.well = well, !.pc = pc]]
  PROVE  DiagnoseMoves(g)
  <1> DEFINE q == [greq[g] EXCEPT !.well = well, !.pc = pc]
  <1>1. greq[g] \in DiagnoseReq /\ DiagnoseOK(greq[g], claim, proven)
    BY DEF IInv, TypeOK, DiagnoseInv
  <1>2. q \in DiagnoseReq
    BY <1>1 DEF DiagnoseReq
  <1>3. DiagnoseOK(q, claim, proven)
    BY <1>1 DEF DiagnoseOK, DiagnoseReq, DiagnosePc
  <1> QED
    BY <1>2, <1>3, DiagnoseGrows DEF DiagnoseMoves, IInv, TypeOK

LEMMA DiagnoseStepMoves ==
  ASSUME IInv, Grows, NEW g \in Diagnosers, DiagnoseStep(g) \/ DropDiagnose(g)
  PROVE  DiagnoseMoves(g)
  <1>1. greq[g] \in DiagnoseReq /\ DiagnoseOK(greq[g], claim, proven)
    BY DEF IInv, TypeOK, DiagnoseInv
  <1>2. CASE Report(g)
    BY <1>2, NoDiagnoseOK DEF Report, DiagnoseMoves
  <1>3. ASSUME NEW pc \in DiagnosePc, GotoD(g, pc), greq[g].pc \notin {"idle", "find"}
        PROVE  DiagnoseMoves(g)
    <2>1. greq[g] = [greq[g] EXCEPT !.well = greq[g].well] /\ greq[g].well \in BOOLEAN
      BY <1>1 DEF DiagnoseReq
    <2>2. [greq[g] EXCEPT !.pc = pc] = [greq[g] EXCEPT !.well = greq[g].well, !.pc = pc]
      BY <1>1 DEF DiagnoseReq
    <2>3. greq' = [greq EXCEPT ![g] = [greq[g] EXCEPT !.well = greq[g].well, !.pc = pc]]
      BY <1>3, <2>2 DEF GotoD
    <2> QED
      BY <1>3, <2>1, <2>3, DiagnoseGoto
  <1>4. CASE DiagnoseFind(g) /\ ~Report(g)
    <2>1. PICK n \in RowsOf(greq[g].id) :
              /\ rows[n].name # NONE
              /\ greq' = [greq EXCEPT ![g] =
                     [greq[g] EXCEPT !.name = rows[n].name, !.port = rows[n].port,
                                     !.pc = "inspect"]]
      BY <1>4 DEF DiagnoseFind
    <2> DEFINE q == [greq[g] EXCEPT !.name = rows[n].name, !.port = rows[n].port,
                                    !.pc = "inspect"]
    <2>2. n \in Names /\ rows[n] \in Row /\ rows[n].id = greq[g].id
      BY DEF RowsOf, IInv, TypeOK
    <2>3. greq[g].id \in Ids
      BY <1>1, <1>4 DEF DiagnoseFind, DiagnoseAt, DiagnoseOK
    <2>4. RowOK(n, rows[n], claim, proven) /\ rows[n] # NONE
      BY <2>2 DEF RowsOf, IInv, RowInv
    <2>5. q \in DiagnoseReq
      BY <1>1, <2>2 DEF DiagnoseReq, DiagnosePc, Row
    <2>6. DiagnoseOK(q, claim, proven)
      BY <1>1, <2>1, <2>2, <2>3, <2>4, NoneAssumption DEF DiagnoseOK, RowOK, DiagnoseReq, Row
    <2> QED
      BY <2>1, <2>5, <2>6, DiagnoseGrows DEF DiagnoseMoves, IInv, TypeOK
  <1>5. CASE Inspect(g) /\ ~Report(g)
    <2> DEFINE pc == IF docker[greq[g].name].st \in Up THEN "probe" ELSE "stop"
    <2>1. GotoD(g, pc) /\ pc \in DiagnosePc /\ greq[g].pc = "inspect"
      BY <1>5 DEF Inspect, DiagnoseAt, DiagnosePc
    <2> HIDE DEF pc
    <2> QED
      BY <1>3, <2>1
  <1>6. CASE (Probe(g) \/ HealStop(g) \/ HealStart(g)) /\ ~Report(g)
    <2>1. /\ GotoD(g, "stop") \/ GotoD(g, "start") \/ GotoD(g, "await")
          /\ greq[g].pc \notin {"idle", "find"}
      BY <1>6 DEF Probe, HealStop, HealStart, DiagnoseAt
    <2> QED
      BY <1>3, <2>1 DEF DiagnosePc
  <1>7. CASE HealAwait(g)
    <2>1. "reinspect" \in DiagnosePc
      BY DEF DiagnosePc
    <2>2. greq[g].pc = "await"
      BY <1>7 DEF HealAwait, DiagnoseAt
    <2>3. PICK well \in BOOLEAN :
              greq' = [greq EXCEPT ![g] = [greq[g] EXCEPT !.well = well, !.pc = "reinspect"]]
      BY <1>7 DEF HealAwait
    <2> QED
      BY <2>1, <2>2, <2>3, DiagnoseGoto
  <1>8. CASE HealInspect(g) /\ ~Report(g)
    <2> DEFINE pc == IF greq[g].well /\ docker[greq[g].name].st \in Up
                     THEN "ready" ELSE "failed"
    <2>1. GotoD(g, pc) /\ pc \in DiagnosePc /\ greq[g].pc = "reinspect"
      BY <1>8 DEF HealInspect, DiagnoseAt, DiagnosePc
    <2> HIDE DEF pc
    <2> QED
      BY <1>3, <2>1
  <1> QED
    BY <1>2, <1>4, <1>5, <1>6, <1>7, <1>8
       DEF DiagnoseStep, HealReady, HealFailed, DropDiagnose

LEMMA GreqStep ==
  ASSUME IInv, [Next]_vars
  PROVE  greq' \in [Diagnosers -> DiagnoseReq] /\ DiagnoseInv'
  <1>1. Grows
    BY GrowsStep
  <1>2. greq \in [Diagnosers -> DiagnoseReq]
    BY DEF IInv, TypeOK
  <1>3. \A g \in Diagnosers : DiagnoseOK(greq[g], claim', proven')
    BY <1>1, <1>2, DiagnoseGrows DEF IInv, DiagnoseInv, TypeOK
  <1>4. ASSUME NEW g \in Diagnosers, DiagnoseMoves(g)
        PROVE  greq' \in [Diagnosers -> DiagnoseReq] /\ DiagnoseInv'
    BY <1>2, <1>3, <1>4 DEF DiagnoseMoves, DiagnoseInv
  <1>5. CASE UNCHANGED greq
    BY <1>2, <1>3, <1>5 DEF DiagnoseInv
  <1>6. ASSUME NEW g \in Diagnosers, NEW i \in Ids, DiagnoseReceive(g, i)
        PROVE  DiagnoseMoves(g)
    <2> DEFINE q == [NoDiagnose EXCEPT !.pc = "find", !.id = i]
    <2>1. q \in DiagnoseReq /\ DiagnoseOK(q, claim', proven')
      BY DEF NoDiagnose, DiagnoseReq, DiagnosePc, DiagnoseOK
    <2> QED
      BY <1>6, <2>1 DEF DiagnoseReceive, DiagnoseMoves
  <1> QED
    BY <1>1, <1>4, <1>5, <1>6, DiagnoseStepMoves, Frames
       DEF Changes, Changes_greq, DiagnoseStep

------------------------------------------------------------------------------
(* The table *)

(* A row that is right for the name n in the next state *)
GoodRow(n, r) == r \in Row \union {NONE} /\ RowOK(n, r, claim', proven')

LEMMA RowGrows ==
  ASSUME IInv, Grows, NEW n \in Names
  PROVE  rows[n] \in Row \union {NONE} /\ GoodRow(n, rows[n])
  BY NoneAssumption DEF IInv, TypeOK, RowInv, RowOK, Grows, GoodRow, Row

LEMMA AsReadyRow ==
  ASSUME NEW r \in Row, NEW i \in Ids, NEW p \in Ports
  PROVE  /\ AsReady(r, i, p) \in Row
         /\ AsReady(r, i, p).id = r.id /\ AsReady(r, i, p).status = "ready"
  BY RowAssumption DEF AsReady, Row, Status

(* An UPDATE with a record of the same name is as good as the row was.     *)
LEMMA AsReadyGood ==
  ASSUME IInv, Grows, NEW n \in Names, NEW i \in Ids, NEW p,
         <<i, p>> \in proven, claim[i] = n
  PROVE  GoodRow(n, AsReady(rows[n], i, p))
  <1>1. CASE rows[n] = NONE
    BY <1>1 DEF AsReady, GoodRow, RowOK
  <1>2. CASE rows[n] # NONE
    <2>1. rows[n] \in Row /\ RowOK(n, rows[n], claim', proven')
      BY <1>2, RowGrows DEF GoodRow
    <2>2. p \in Ports /\ i \in Ids /\ i # NONE
      BY NoneAssumption DEF IInv, TypeOK
    <2>3. <<i, p>> \in proven' /\ claim'[i] = n
      BY NoneAssumption DEF Grows
    <2> DEFINE r == AsReady(rows[n], i, p)
    <2>4. r = [id |-> rows[n].id, status |-> "ready", name |-> i, port |-> p,
               owner |-> rows[n].owner]
      BY <1>2 DEF AsReady
    <2>5. r \in Row
      BY <2>1, <2>2, <2>4 DEF Row, Status
    <2>6. RowOK(n, r, claim', proven')
      BY <1>2, <2>1, <2>2, <2>3, <2>4 DEF RowOK
    <2> QED
      BY <2>5, <2>6 DEF GoodRow
  <1> QED
    BY <1>1, <1>2

LEMMA AsFailedGood ==
  ASSUME IInv, Grows, NEW n \in Names
  PROVE  GoodRow(n, AsFailed(rows[n]))
  BY RowGrows DEF AsFailed, GoodRow, RowOK, Row, Status

LEMMA AsOwnedGood ==
  ASSUME IInv, Grows, NEW n \in Names, NEW c \in Creators
  PROVE  GoodRow(n, AsOwned(rows[n], c))
  BY RowGrows DEF AsOwned, GoodRow, RowOK, Row

LEMMA RowsStep ==
  ASSUME IInv, [Next]_vars
  PROVE  rows' \in [Names -> Row \union {NONE}] /\ RowInv'
  <1> DEFINE Good == rows' \in [Names -> Row \union {NONE}] /\ RowInv'
  <1>1. Grows
    BY GrowsStep
  <1>2. /\ rows \in [Names -> Row \union {NONE}]
        /\ \A n \in Names : GoodRow(n, rows[n])
    BY <1>1, RowGrows DEF IInv, TypeOK
  (* one row *)
  <1>3. ASSUME NEW n \in Names, NEW r, GoodRow(n, r), rows' = [rows EXCEPT ![n] = r]
        PROVE  Good
    BY <1>2, <1>3 DEF GoodRow, RowInv
  <1>4. CASE UNCHANGED rows
    BY <1>2, <1>4 DEF GoodRow, RowInv
  <1>5. ASSUME NEW c \in Creators, BeginCreation(c)
        PROVE  Good
    <2>1. CASE UNCHANGED rows
      BY <1>4, <2>1
    <2>2. CASE rows' # rows
      <3>1. creq[c].name \in Names
        BY <1>5 DEF BeginCreation, AtStep, IInv, CreateInv, CreateOK
      <3>2. PICK i \in Ids :
                /\ rows' = [rows EXCEPT ![creq[c].name] =
                      [id |-> i, status |-> "creating", name |-> NONE, port |-> NONE,
                       owner |-> NONE]]
                /\ claim' = [claim EXCEPT ![i] = creq[c].name]
        BY <1>5, <2>2 DEF BeginCreation
      <3> DEFINE r == [id |-> i, status |-> "creating", name |-> NONE, port |-> NONE,
                       owner |-> NONE]
      <3>3. r \in Row /\ claim'[i] = creq[c].name
        BY <3>2 DEF Row, Status, IInv, TypeOK
      <3>4. GoodRow(creq[c].name, r)
        BY <3>3 DEF GoodRow, RowOK
      <3> QED
        BY <1>3, <3>1, <3>2, <3>4
    <2> QED
      BY <2>1, <2>2
  <1>6. ASSUME NEW c \in Creators, MarkReady(c)
        PROVE  Good
    <2>1. /\ creq[c].name \in Names /\ creq[c].id \in Ids
          /\ claim[creq[c].id] = creq[c].name
          /\ <<creq[c].id, creq[c].port>> \in proven
      BY <1>6 DEF MarkReady, AtStep, IInv, CreateInv, CreateOK, LaunchPc
    <2>2. GoodRow(creq[c].name, AsReady(rows[creq[c].name], creq[c].id, creq[c].port))
      BY <1>1, <2>1, AsReadyGood
    <2> QED
      BY <1>3, <1>6, <2>1, <2>2 DEF MarkReady
  <1>7. ASSUME NEW c \in Creators, MarkFailed(c)
        PROVE  Good
    <2>1. creq[c].name \in Names
      BY <1>7 DEF MarkFailed, AtStep, IInv, CreateInv, CreateOK
    <2> QED
      BY <1>1, <1>3, <1>7, <2>1, AsFailedGood DEF MarkFailed
  <1>8. ASSUME NEW c \in Creators, SetOwner(c)
        PROVE  Good
    <2>1. \A n \in RowsOf(creq[c].id) : GoodRow(n, AsOwned(rows[n], c))
      BY <1>1, AsOwnedGood DEF RowsOf
    <2> QED
      BY <1>2, <1>4, <1>8, <2>1 DEF SetOwner, GoodRow, RowInv
  <1>9. ASSUME NEW d \in Deleters, DeleteRow(d)
         PROVE  Good
    BY <1>2, <1>9 DEF DeleteRow, GoodRow, RowInv, RowOK
  <1>10. ASSUME NEW g \in Diagnosers, HealReady(g)
         PROVE  Good
    <2>1. /\ greq[g].id \in Ids /\ greq[g].name \in Ids
          /\ <<greq[g].name, greq[g].port>> \in proven
          /\ claim[greq[g].name] = claim[greq[g].id]
      BY <1>10 DEF HealReady, DiagnoseAt, IInv, DiagnoseInv, DiagnoseOK
    <2>2. \A n \in RowsOf(greq[g].id) : claim[greq[g].name] = n
      BY <2>1 DEF RowsOf, IInv, RowInv, RowOK
    <2>3. \A n \in RowsOf(greq[g].id) :
              GoodRow(n, AsReady(rows[n], greq[g].name, greq[g].port))
      BY <1>1, <2>1, <2>2, AsReadyGood DEF RowsOf
    <2> QED
      BY <1>2, <1>10, <2>3 DEF HealReady, GoodRow, RowInv
  <1>11. ASSUME NEW g \in Diagnosers, HealFailed(g)
         PROVE  Good
    <2>1. \A n \in RowsOf(greq[g].id) : GoodRow(n, AsFailed(rows[n]))
      BY <1>1, AsFailedGood DEF RowsOf
    <2> QED
      BY <1>2, <1>11, <2>1 DEF HealFailed, GoodRow, RowInv
  <1> QED
    BY <1>4, <1>5, <1>6, <1>7, <1>8, <1>9, <1>10, <1>11, Frames
       DEF Changes, Changes_rows

------------------------------------------------------------------------------
(* Docker *)

(* A container that may be called hermes-ws-<i> in the next state *)
GoodContainer(i, k) == k \in Container /\ (k.st # "absent" => claim'[i] # NONE)

LEMMA DockerStep ==
  ASSUME IInv, [Next]_vars
  PROVE  docker' \in [Ids -> Container] /\ ContainersAreClaimed'
  <1> DEFINE Good == docker' \in [Ids -> Container] /\ ContainersAreClaimed'
  <1>1. /\ docker \in [Ids -> Container]
        /\ \A i \in Ids : GoodContainer(i, docker[i])
    BY GrowsStep DEF IInv, TypeOK, ContainersAreClaimed, Exists, Grows, GoodContainer
  <1>2. Absent \in Container /\ \A i \in Ids : GoodContainer(i, Absent)
    BY DEF Absent, Container, GoodContainer
  <1>3. ASSUME NEW i, NEW k, GoodContainer(i, k), docker' = [docker EXCEPT ![i] = k]
        PROVE  Good
    BY <1>1, <1>3 DEF GoodContainer, ContainersAreClaimed, Exists
  <1>4. CASE UNCHANGED docker
    BY <1>1, <1>4 DEF GoodContainer, ContainersAreClaimed, Exists
  <1>5. ASSUME NEW i \in Ids, Remove(i)
        PROVE  Good
    BY <1>2, <1>3, <1>5 DEF Remove
  (* a container that is there only changes its state *)
  <1>6. ASSUME NEW i \in Ids, docker[i].st # "absent", NEW st \in {"exited"} \union Up,
               docker' = [docker EXCEPT ![i].st = st]
        PROVE  Good
    <2> DEFINE k == [docker[i] EXCEPT !.st = st]
    <2>1. k \in Container
      BY <1>1 DEF Container
    <2>2. GoodContainer(i, k)
      BY <1>1, <1>6, <2>1 DEF GoodContainer
    <2> QED
      BY <1>3, <1>6, <2>2
  <1>7. ASSUME NEW i \in Ids, CanStart(i), Start(i)
        PROVE  Good
    <2>1. docker[i].st # "absent"
      BY <1>7 DEF CanStart, Exists
    <2> QED
      BY <1>4, <1>6, <1>7, <2>1 DEF Start, Up
  <1>8. ASSUME NEW i \in Ids, NEW p \in Ports, claim'[i] # NONE, Create(i, p)
         PROVE  Good
    <2> DEFINE k == [st |-> "created", port |-> p, hook |-> FALSE]
    <2>1. GoodContainer(i, k)
      BY <1>8 DEF GoodContainer, Container
    <2> QED
      BY <1>3, <1>8, <2>1 DEF Create
  <1>9. ASSUME NEW i \in Ids, CopyHook(i)
         PROVE  Good
    <2> DEFINE k == [docker[i] EXCEPT !.hook = TRUE]
    <2>1. k \in Container /\ k.st = docker[i].st
      BY <1>1 DEF Container
    <2>2. GoodContainer(i, k)
      BY <1>1, <2>1 DEF GoodContainer
    <2> QED
      BY <1>3, <1>9, <2>2 DEF CopyHook
  <1>10. ASSUME NEW i \in Ids, Stop(i)
         PROVE  Good
    BY <1>4, <1>6, <1>10 DEF Stop, Up
  <1>11. ASSUME NEW c \in Creators, creq[c].pc \in LaunchPc
        PROVE  creq[c].id \in Ids /\ claim[creq[c].id] # NONE
    BY <1>11, NoneAssumption DEF IInv, CreateInv, CreateOK, LaunchPc
  <1>12. ASSUME NEW c \in Creators, RemoveStale(c) \/ CleanUp(c)
        PROVE  Good
    <2>1. creq[c].pc \in LaunchPc
      BY <1>12 DEF RemoveStale, CleanUp, AtStep, LaunchPc
    <2> QED
      BY <1>4, <1>5, <1>11, <1>12, <2>1 DEF RemoveStale, CleanUp
  <1>13. ASSUME NEW c \in Creators, CreateContainer(c)
         PROVE  Good
    <2>1. creq[c].pc \in LaunchPc /\ UNCHANGED claim
      BY <1>13 DEF CreateContainer, AtStep, LaunchPc
    <2>2. creq[c].id \in Ids /\ claim'[creq[c].id] # NONE
      BY <1>11, <2>1
    <2> QED
      BY <1>4, <1>13, <1>8, <2>2 DEF CreateContainer
  <1>14. ASSUME NEW c \in Creators, Deliver(c)
         PROVE  Good
    <2>1. creq[c].id \in Ids
      BY <1>11, <1>14 DEF Deliver, AtStep, LaunchPc
    <2> QED
      BY <1>4, <1>14, <1>9, <2>1 DEF Deliver
  <1>15. ASSUME NEW c \in Creators, StartContainer(c)
         PROVE  Good
    <2>1. creq[c].id \in Ids
      BY <1>11, <1>15 DEF StartContainer, AtStep, LaunchPc
    <2> QED
      BY <1>4, <1>7, <1>15, <2>1 DEF StartContainer
  <1>16. ASSUME NEW d \in Deleters, DeleteContainer(d)
         PROVE  Good
    <2>1. dreq[d].name \in Ids
      BY <1>16 DEF DeleteContainer, DeleteAt, IInv, DeleteInv, DeleteOK
    <2> QED
      BY <1>4, <1>5, <1>16, <2>1 DEF DeleteContainer
  <1>17. ASSUME NEW g \in Diagnosers, HealStop(g) \/ HealStart(g)
         PROVE  Good
    <2>1. greq[g].name \in Ids
      BY <1>17 DEF HealStop, HealStart, DiagnoseAt, IInv, DiagnoseInv, DiagnoseOK
    <2>2. CASE HealStop(g)
      BY <1>4, <1>10, <2>1, <2>2 DEF HealStop
    <2>3. CASE HealStart(g)
      BY <1>4, <1>7, <2>1, <2>3 DEF HealStart
    <2> QED
      BY <1>17, <2>2, <2>3
  <1>18. ASSUME NEW i \in Ids, ContainerExits(i) \/ WrapperHangs(i)
         PROVE  Good
    BY <1>6, <1>18 DEF ContainerExits, WrapperHangs, Up
  <1>19. ASSUME NEW o \in orphans, OrphanEnds(o)
         PROVE  Good
    <2>1. o.id \in Ids /\ UNCHANGED claim
      BY <1>19 DEF OrphanEnds, IInv, TypeOK, Command
    <2>2. CASE o.op = "create" /\ Create(o.id, o.port)
      BY <1>8, <2>1, <2>2 DEF IInv, OrphanInv, OrphanOK
    <2> QED
      BY <1>4, <1>5, <1>7, <1>9, <1>10, <1>19, <2>1, <2>2 DEF OrphanEnds, Does
  <1> QED
    BY <1>4, <1>12, <1>13, <1>14, <1>15, <1>16, <1>17, <1>18, <1>19, Frames
       DEF Changes, Changes_docker

------------------------------------------------------------------------------
(* The orphans *)

LEMMA OrphansStep ==
  ASSUME IInv, [Next]_vars
  PROVE  orphans' \subseteq Command /\ OrphanInv'
  <1> DEFINE Good == orphans' \subseteq Command /\ OrphanInv'
  <1>1. orphans \subseteq Command /\ \A o \in orphans : OrphanOK(o, claim')
    BY GrowsStep DEF IInv, TypeOK, OrphanInv, OrphanOK, Grows, Command
  <1>2. CASE orphans' \subseteq orphans
    BY <1>1, <1>2 DEF OrphanInv
  <1>3. ASSUME NEW o \in Command, OrphanOK(o, claim'), orphans' = orphans \union {o}
        PROVE  Good
    BY <1>1, <1>3 DEF OrphanInv
  <1>4. ASSUME NEW op \in {"rm", "deliver", "start", "stop"}, NEW i \in Ids,
               Abandon({[op |-> op, id |-> i, port |-> NONE]})
        PROVE  Good
    <2> DEFINE o == [op |-> op, id |-> i, port |-> NONE]
    <2>1. o \in Command /\ OrphanOK(o, claim')
      BY DEF Command, OrphanOK
    <2> QED
      BY <1>2, <1>3, <1>4, <2>1 DEF Abandon
  <1>5. ASSUME Abandon({})
        PROVE  Good
    BY <1>2, <1>5 DEF Abandon
  <1>6. ASSUME NEW c \in Creators, DropCreate(c)
        PROVE  Good
    <2> DEFINE pc == creq[c].pc
               i == creq[c].id
    <2>1. pc \in LaunchPc => i \in Ids /\ claim[i] # NONE
      BY NoneAssumption DEF IInv, CreateInv, CreateOK, LaunchPc
    <2>2. UNCHANGED claim
      BY <1>6 DEF DropCreate
    <2>3. CASE pc = "create"
      <3>1. Abandon({[op |-> "create", id |-> i, port |-> p] : p \in Ports \ Bound})
        BY <1>6, <2>3 DEF DropCreate, LaunchPc
      <3>2. ASSUME NEW p \in Ports
            PROVE  LET o == [op |-> "create", id |-> i, port |-> p]
                   IN  o \in Command /\ OrphanOK(o, claim')
        BY <2>1, <2>2, <2>3 DEF Command, OrphanOK, LaunchPc
      <3> QED
        BY <1>2, <1>3, <3>1, <3>2 DEF Abandon
    <2>4. CASE pc \in {"rm", "deliver", "start"}
      <3>1. Abandon({[op |-> pc, id |-> i, port |-> NONE]})
        BY <1>6, <2>4 DEF DropCreate, LaunchPc
      <3> QED
        BY <1>4, <2>1, <2>4, <3>1 DEF LaunchPc
    <2>5. CASE pc = "cleanup"
      <3>1. Abandon({[op |-> "rm", id |-> i, port |-> NONE]})
        BY <1>6, <2>5 DEF DropCreate, LaunchPc
      <3> QED
        BY <1>4, <2>1, <2>5, <3>1 DEF LaunchPc
    <2>6. CASE pc \notin LaunchPc \ {"await"}
      BY <1>5, <1>6, <2>6 DEF DropCreate
    <2> QED
      BY <2>3, <2>4, <2>5, <2>6 DEF LaunchPc
  <1>7. ASSUME NEW d \in Deleters, DropDelete(d)
        PROVE  Good
    <2>1. dreq[d].pc = "rm" => dreq[d].name \in Ids
      BY DEF IInv, DeleteInv, DeleteOK
    <2> QED
      BY <1>4, <1>5, <1>7, <2>1 DEF DropDelete
  <1>8. ASSUME NEW g \in Diagnosers, DropDiagnose(g)
        PROVE  Good
    <2>1. greq[g].pc \in {"stop", "start"} => greq[g].name \in Ids
      BY DEF IInv, DiagnoseInv, DiagnoseOK
    <2> QED
      BY <1>4, <1>5, <1>8, <2>1 DEF DropDiagnose
  <1>9. ASSUME NEW o \in orphans, OrphanEnds(o)
        PROVE  Good
    BY <1>2, <1>9 DEF OrphanEnds
  <1> QED
    BY <1>2, <1>6, <1>7, <1>8, <1>9, Frames DEF Changes, Changes_orphans

------------------------------------------------------------------------------
(* The invariants *)

LEMMA StepIInv == IInv /\ [Next]_vars => IInv'
  BY HistoryTypes, CreqStep, DreqStep, GreqStep, RowsStep, DockerStep, OrphansStep
     DEF IInv, TypeOK

(* The inductive invariant holds in every reachable state. *)
THEOREM Invariance == Spec => []IInv
  BY InitIInv, StepIInv, PTL DEF Spec

(* TypeOK: every variable of the lifecycle keeps its type; in particular    *)
(* no request ever makes more than MaxAttempts launches (LaunchRetryPolicy).*)
THEOREM TypeCorrect == Spec => []TypeOK
  BY Invariance, PTL DEF IInv

(* ReadyHasContainer: whatever the races, a row is never ready without the  *)
(* container name and the ports that resolve_ready_workspace forwards to.   *)
THEOREM ReadyAlwaysHasContainer == Spec => []ReadyHasContainer
  <1>1. IInv => ReadyHasContainer
    <2> SUFFICES ASSUME IInv, NEW n \in Names, rows[n] # NONE, rows[n].status = "ready"
                 PROVE  rows[n].name # NONE /\ rows[n].port # NONE
      BY DEF ReadyHasContainer
    <2>1. rows[n].name # NONE /\ <<rows[n].name, rows[n].port>> \in proven
      BY DEF IInv, RowInv, RowOK
    <2>2. proven \subseteq Ids \X Ports
      BY DEF IInv, TypeOK
    <2> QED
      BY <2>1, <2>2, NoneAssumption
  <1> QED
    BY <1>1, Invariance, PTL

(* RowsNameProvenLaunch: every container and port a row ever names were     *)
(* seen answering by a launch of an id drawn for that row's name.           *)
THEOREM RowsAlwaysNameProvenLaunch == Spec => []RowsNameProvenLaunch
  <1>1. IInv => RowsNameProvenLaunch
    BY DEF IInv, RowInv, RowOK, RowsNameProvenLaunch
  <1> QED
    BY <1>1, Invariance, PTL

(* ContainersAreClaimed: no launch, however it races, makes a container for *)
(* an id that the table never held.                                         *)
THEOREM ContainersAlwaysClaimed == Spec => []ContainersAreClaimed
  BY Invariance, PTL DEF IInv

------------------------------------------------------------------------------
(* The table implements the registry. *)

Entry(r) == IF r = NONE THEN NONE ELSE [id |-> r.id, status |-> r.status]
Entries == [n \in Names |-> Entry(rows[n])]

(* A workspace id is found in at most one row. *)
LEMMA RowsOfUnique ==
  ASSUME IInv, NEW i, NEW n \in RowsOf(i), NEW m \in RowsOf(i)
  PROVE  n = m
  <1>1. /\ n \in Names /\ rows[n] # NONE /\ rows[n].id = i
        /\ m \in Names /\ rows[m] # NONE /\ rows[m].id = i
    BY DEF RowsOf
  <1>2. claim[i] = n /\ claim[i] = m
    BY <1>1 DEF IInv, RowInv, RowOK
  <1> QED
    BY <1>2

(* A step that leaves every entry alone stutters.                           *)
LEMMA EntriesStutter ==
  ASSUME \A n \in Names : Entry(rows'[n]) = Entry(rows[n]), UNCHANGED claim
  PROVE  [Registry!Next]_(Registry!vars)
  BY DEF Registry!vars, Entry

(* A step that writes one status settles that name.                         *)
LEMMA EntrySettles ==
  ASSUME IInv, NEW n \in Names, NEW s \in {"ready", "failed"}, rows[n] # NONE,
         rows'[n] # NONE, rows'[n].id = rows[n].id, rows'[n].status = s,
         \A m \in Names : m # n => rows'[m] = rows[m],
         UNCHANGED claim
  PROVE  [Registry!Next]_(Registry!vars)
  <1>1. Entries[n] = [id |-> rows[n].id, status |-> rows[n].status]
    BY DEF Entries, Entry
  <1>2. Entries[n] # NONE
    BY <1>1, RowAssumption DEF IInv, TypeOK, Row
  <1>3. Entries' = [Entries EXCEPT ![n].status = s]
    <2>1. Entries'[n] = [Entries[n] EXCEPT !.status = s]
      BY <1>1 DEF Entries, Entry
    <2>2. \A m \in Names : m # n => Entries'[m] = Entries[m]
      BY DEF Entries, Entry
    <2> QED
      BY <2>1, <2>2 DEF Entries
  <1>4. Registry!Settle(n, s)
    BY <1>2, <1>3 DEF Registry!Settle, Entries, Entry
  <1> QED
    BY <1>4 DEF Registry!Next, Registry!Settled

(* A step that empties a row releases its name.                             *)
LEMMA EntryReleases ==
  ASSUME IInv, NEW n \in Names, rows[n] # NONE, rows'[n] = NONE,
         \A m \in Names : m # n => rows'[m] = rows[m],
         UNCHANGED claim
  PROVE  [Registry!Next]_(Registry!vars)
  <1>1. Entries[n] # NONE
    BY RowAssumption DEF IInv, TypeOK, Row, Entries, Entry
  <1>2. Entries' = [Entries EXCEPT ![n] = NONE]
    BY DEF Entries, Entry
  <1>3. Registry!Release(n)
    BY <1>1, <1>2 DEF Registry!Release, Entries, Entry
  <1> QED
    BY <1>3 DEF Registry!Next

(* An INSERT claims the name.                                               *)
LEMMA EntryClaims ==
  ASSUME IInv, NEW c \in Creators, BeginCreation(c)
  PROVE  [Registry!Next]_(Registry!vars)
  <1> DEFINE n == creq[c].name
  <1>1. n \in Names
    BY DEF BeginCreation, AtStep, IInv, CreateInv, CreateOK
  <1>2. CASE UNCHANGED <<rows, claim>>
    BY <1>2, EntriesStutter
  <1>3. CASE ~UNCHANGED <<rows, claim>>
    <2>1. PICK i \in Ids :
              /\ rows[n] = NONE /\ claim[i] = NONE
              /\ rows' = [rows EXCEPT ![n] =
                    [id |-> i, status |-> "creating", name |-> NONE, port |-> NONE,
                     owner |-> NONE]]
              /\ claim' = [claim EXCEPT ![i] = n]
      BY <1>3 DEF BeginCreation
    <2>2. /\ rows'[n] = [id |-> i, status |-> "creating", name |-> NONE, port |-> NONE,
                         owner |-> NONE]
          /\ \A m \in Names : m # n => rows'[m] = rows[m]
      BY <1>1, <2>1 DEF IInv, TypeOK
    <2>3. rows'[n] # NONE
      BY <2>2, RowAssumption DEF Row, Status
    <2>4. Entries' = [Entries EXCEPT ![n] = [id |-> i, status |-> "creating"]]
      <3>1. Entries'[n] = [id |-> i, status |-> "creating"]
        BY <1>1, <2>2, <2>3 DEF Entries, Entry
      <3>2. \A m \in Names : m # n => Entries'[m] = Entries[m]
        BY <2>2 DEF Entries, Entry
      <3> QED
        BY <3>1, <3>2 DEF Entries
    <2>5. Registry!Claim(n, i)
      BY <1>1, <2>1, <2>4 DEF Registry!Claim, Entries, Entry
    <2> QED
      BY <1>1, <2>5 DEF Registry!Next
  <1> QED
    BY <1>2, <1>3

(* An UPDATE of the rows with an id, of which there is at most one          *)
LEMMA UpdateRefines ==
  ASSUME IInv, NEW i, NEW s \in {"ready", "failed"},
         \A n \in RowsOf(i) : /\ rows'[n] # NONE /\ rows'[n].id = rows[n].id
                              /\ rows'[n].status = s,
         \A m \in Names \ RowsOf(i) : rows'[m] = rows[m],
         UNCHANGED claim
  PROVE  [Registry!Next]_(Registry!vars)
  <1>1. CASE RowsOf(i) = {}
    BY <1>1, EntriesStutter
  <1>2. ASSUME NEW n \in RowsOf(i)
        PROVE  [Registry!Next]_(Registry!vars)
    <2>1. n \in Names /\ rows[n] # NONE
      BY DEF RowsOf
    <2>2. \A m \in Names : m # n => rows'[m] = rows[m]
      BY RowsOfUnique
    <2> QED
      BY <2>1, <2>2, EntrySettles
  <1> QED
    BY <1>1, <1>2

LEMMA StepRefines == IInv /\ [Next]_vars => [Registry!Next]_(Registry!vars)
  <1> SUFFICES ASSUME IInv, [Next]_vars
               PROVE  [Registry!Next]_(Registry!vars)
    OBVIOUS
  <1> DEFINE Refines == [Registry!Next]_(Registry!vars)
  <1>1. rows \in [Names -> Row \union {NONE}]
    BY DEF IInv, TypeOK
  <1>2. CASE UNCHANGED <<rows, claim>>
    BY <1>2, EntriesStutter
  <1>3. ASSUME NEW c \in Creators, MarkReady(c)
        PROVE  Refines
    <2> DEFINE n == creq[c].name
    <2>1. /\ n \in Names /\ creq[c].id \in Ids
          /\ <<creq[c].id, creq[c].port>> \in proven /\ UNCHANGED claim
      BY <1>3 DEF MarkReady, AtStep, IInv, CreateInv, CreateOK, LaunchPc
    <2>2. creq[c].port \in Ports
      BY <2>1 DEF IInv, TypeOK
    <2>3. /\ rows'[n] = AsReady(rows[n], creq[c].id, creq[c].port)
          /\ \A m \in Names : m # n => rows'[m] = rows[m]
      BY <1>1, <1>3, <2>1 DEF MarkReady
    <2>4. CASE rows[n] = NONE
      BY <2>1, <2>3, <2>4, EntriesStutter DEF AsReady
    <2>5. CASE rows[n] # NONE
      <3>1. rows'[n] # NONE /\ rows'[n].id = rows[n].id /\ rows'[n].status = "ready"
        BY <1>1, <1>3, <2>1, <2>2, <2>3, <2>5, AsReadyRow, RowAssumption
      <3> QED
        BY <2>1, <2>3, <2>5, <3>1, EntrySettles
    <2> QED
      BY <2>4, <2>5
  <1>4. ASSUME NEW c \in Creators, MarkFailed(c)
        PROVE  Refines
    <2> DEFINE n == creq[c].name
    <2>1. n \in Names /\ UNCHANGED claim
      BY <1>4 DEF MarkFailed, AtStep, IInv, CreateInv, CreateOK
    <2>2. /\ rows'[n] = AsFailed(rows[n])
          /\ \A m \in Names : m # n => rows'[m] = rows[m]
      BY <1>1, <1>4, <2>1 DEF MarkFailed
    <2>3. CASE rows[n] = NONE
      BY <2>1, <2>2, <2>3, EntriesStutter DEF AsFailed
    <2>4. CASE rows[n] # NONE
      <3>1. rows'[n] # NONE /\ rows'[n].id = rows[n].id /\ rows'[n].status = "failed"
        BY <1>1, <2>1, <2>2, <2>4, RowAssumption DEF AsFailed, Row, Status
      <3> QED
        BY <2>1, <2>2, <2>4, <3>1, EntrySettles
    <2> QED
      BY <2>3, <2>4
  <1>5. ASSUME NEW c \in Creators, SetOwner(c)
        PROVE  Refines
    <2>1. ASSUME NEW n \in Names
          PROVE  Entry(rows'[n]) = Entry(rows[n])
      <3>1. CASE rows'[n] = rows[n]
        BY <3>1
      <3>2. CASE rows'[n] # rows[n]
        <4>1. rows'[n] = AsOwned(rows[n], c) /\ n \in RowsOf(creq[c].id)
          BY <1>5, <3>2 DEF SetOwner
        <4>2. rows[n] \in Row /\ rows[n] # NONE
          BY <1>1, <4>1 DEF RowsOf
        <4>3. /\ rows'[n] # NONE /\ rows'[n].id = rows[n].id
              /\ rows'[n].status = rows[n].status
          BY <4>1, <4>2, RowAssumption DEF AsOwned, Row
        <4> QED
          BY <4>2, <4>3 DEF Entry
      <3> QED
        BY <3>1, <3>2
    <2>2. UNCHANGED claim
      BY <1>5 DEF SetOwner
    <2> QED
      BY <2>1, <2>2, EntriesStutter
  <1>6. ASSUME NEW d \in Deleters, DeleteRow(d)
        PROVE  Refines
    <2>1. /\ UNCHANGED claim
          /\ \A n \in Names : rows'[n] = IF n \in RowsOf(dreq[d].id) THEN NONE ELSE rows[n]
      BY <1>6 DEF DeleteRow, DeleteAt
    <2>2. CASE RowsOf(dreq[d].id) = {}
      BY <2>1, <2>2, EntriesStutter
    <2>3. ASSUME NEW n \in RowsOf(dreq[d].id)
          PROVE  Refines
      <3>1. n \in Names /\ rows[n] # NONE /\ rows'[n] = NONE
        BY <2>1 DEF RowsOf
      <3>2. \A m \in Names : m # n => rows'[m] = rows[m]
        BY <2>1, RowsOfUnique
      <3> QED
        BY <2>1, <3>1, <3>2, EntryReleases
    <2> QED
      BY <2>2, <2>3
  <1>7. ASSUME NEW g \in Diagnosers, HealReady(g)
        PROVE  Refines
    <2>1. /\ greq[g].name \in Ids /\ <<greq[g].name, greq[g].port>> \in proven
          /\ UNCHANGED claim
      BY <1>7 DEF HealReady, DiagnoseAt, IInv, DiagnoseInv, DiagnoseOK
    <2>2. greq[g].port \in Ports
      BY <2>1 DEF IInv, TypeOK
    <2>3. \A n \in Names : rows'[n] = IF n \in RowsOf(greq[g].id)
                                     THEN AsReady(rows[n], greq[g].name, greq[g].port)
                                     ELSE rows[n]
      BY <1>7 DEF HealReady
    <2>4. ASSUME NEW n \in RowsOf(greq[g].id)
          PROVE  rows'[n] # NONE /\ rows'[n].id = rows[n].id /\ rows'[n].status = "ready"
      <3>1. n \in Names /\ rows[n] \in Row /\ rows[n] # NONE
        BY <1>1 DEF RowsOf
      <3>2. rows'[n] = [id |-> rows[n].id, status |-> "ready", name |-> greq[g].name,
                        port |-> greq[g].port, owner |-> rows[n].owner]
        BY <2>3, <3>1 DEF AsReady
      <3> QED
        BY <2>1, <2>2, <3>1, <3>2, RowAssumption DEF Row, Status
    <2> QED
      BY <2>1, <2>3, <2>4, UpdateRefines
  <1>8. ASSUME NEW g \in Diagnosers, HealFailed(g)
        PROVE  Refines
    <2>1. /\ UNCHANGED claim
          /\ \A n \in Names : rows'[n] = IF n \in RowsOf(greq[g].id)
                                        THEN AsFailed(rows[n]) ELSE rows[n]
      BY <1>8 DEF HealFailed, DiagnoseAt
    <2>2. ASSUME NEW n \in RowsOf(greq[g].id)
          PROVE  rows'[n] # NONE /\ rows'[n].id = rows[n].id /\ rows'[n].status = "failed"
      <3>1. n \in Names /\ rows[n] \in Row /\ rows[n] # NONE
        BY <1>1 DEF RowsOf
      <3>2. rows'[n] = [rows[n] EXCEPT !.status = "failed"]
        BY <2>1, <3>1 DEF AsFailed
      <3>3. rows'[n] \in Row /\ rows'[n].id = rows[n].id /\ rows'[n].status = "failed"
        BY <3>1, <3>2 DEF Row, Status
      <3> QED
        BY <3>3, RowAssumption
    <2> QED
      BY <2>1, <2>2, UpdateRefines
  <1>9. CASE UNCHANGED rows
    (* claim changes only where rows does *)
    <2>1. ASSUME NEW c \in Creators, BeginCreation(c)
          PROVE  Refines
      BY <2>1, EntryClaims
    <2> QED
      BY <1>2, <1>9, <2>1, Frames DEF Changes, Changes_claim
  <1> QED
    BY <1>3, <1>4, <1>5, <1>6, <1>7, <1>8, <1>9, EntryClaims, Frames
       DEF Changes, Changes_rows

LEMMA InitRefines == Init => Registry!Init
  BY DEF Init, Registry!Init

(* ImplementsRegistry: under every interleaving the table is a registry of  *)
(* names.  A name is claimed once for a fresh id, keeps that id until it is *)
(* deleted, and is only ever settled in between.                            *)
THEOREM Implementation == Spec => ImplementsRegistry
  BY InitRefines, Invariance, StepRefines, PTL DEF Spec, ImplementsRegistry, Registry!Spec

------------------------------------------------------------------------------
(* One creator at a time, and neither diagnoses nor abandoned deletes: what *)
(* a retry finds is left over from attempts that are over.                  *)

OneCreator == \A c, e \in Creators : c = e

(* The container of an id is the one that answered on those ports, though   *)
(* it may have stopped since; or a delete has removed it and goes on to the *)
(* row.                                                                     *)
Backed(i, p) ==
    docker[i].st \in Up \union {"exited"} /\ docker[i].port = p /\ docker[i].hook
Leaving(i) == \E d \in Deleters : dreq[d].id = i /\ dreq[d].pc = "row"
Covered(i, p) == Backed(i, p) \/ Leaving(i)

NoDiagnoses == \A g \in Diagnosers : greq[g].pc = "idle"

RowsNameTheirOwn ==
    \A n \in Names : rows[n] # NONE /\ rows[n].name # NONE => rows[n].name = rows[n].id

DeletesRemoveTheirOwn ==
    \A d \in Deleters : dreq[d].pc = "rm" => dreq[d].name = dreq[d].id

RunningIsHooked == \A i \in Ids : docker[i].st = "running" => docker[i].hook

(* While a launch is under way its name is not ready, and is its own.       *)
Unsettled(r, i) == r = NONE \/ (r.id = i /\ r.status # "ready")

LaunchesUnsettled ==
    \A c \in Creators :
        creq[c].pc \in LaunchPc \union {"mark_ready"} =>
            Unsettled(rows[creq[c].name], creq[c].id)

(* What is about to be recorded is there, unless the row is gone.           *)
RecordsCovered ==
    \A c \in Creators :
        creq[c].pc = "mark_ready" =>
            rows[creq[c].name] = NONE \/ Covered(creq[c].id, creq[c].port)

ReadyCovered ==
    \A n \in Names :
        rows[n] # NONE /\ rows[n].status = "ready" => Covered(rows[n].id, rows[n].port)

RetryInv ==
    /\ NoDiagnoses /\ RowsNameTheirOwn /\ DeletesRemoveTheirOwn /\ RunningIsHooked
    /\ LaunchesUnsettled /\ RecordsCovered /\ ReadyCovered

LEMMA InitRetryInv == Init => RetryInv
  <1> SUFFICES ASSUME Init PROVE RetryInv
    OBVIOUS
  <1>1. /\ \A n \in Names : rows[n] = NONE
        /\ \A i \in Ids : docker[i].st = "absent"
        /\ \A c \in Creators : creq[c].pc = "idle"
        /\ \A d \in Deleters : dreq[d].pc = "idle"
        /\ \A g \in Diagnosers : greq[g].pc = "idle"
    BY DEF Init, Absent, NoCreate, NoDelete, NoDiagnose
  <1> QED
    BY <1>1 DEF RetryInv, NoDiagnoses, RowsNameTheirOwn, DeletesRemoveTheirOwn,
                RunningIsHooked, LaunchesUnsettled, LaunchPc, RecordsCovered, ReadyCovered

(* Who still changes the rows and the containers, without diagnoses and     *)
(* without orphans                                                          *)
LEMMA RetryChanges ==
  ASSUME NoDiagnoses, Changes
  PROVE  /\ \/ UNCHANGED rows
            \/ \E c \in Creators : \/ BeginCreation(c) \/ MarkReady(c)
                                   \/ MarkFailed(c) \/ SetOwner(c)
            \/ \E d \in Deleters : DeleteRow(d)
         /\ \/ orphans' # orphans
            \/ UNCHANGED docker
            \/ \E c \in Creators : \/ RemoveStale(c) \/ CreateContainer(c)
                                   \/ Deliver(c) \/ StartContainer(c) \/ CleanUp(c)
            \/ \E d \in Deleters : DeleteContainer(d)
            \/ \E i \in Ids : ContainerExits(i) \/ WrapperHangs(i)
  <1>1. ASSUME NEW g \in Diagnosers
        PROVE  ~HealReady(g) /\ ~HealFailed(g) /\ ~HealStop(g) /\ ~HealStart(g)
    BY DEF NoDiagnoses, HealReady, HealFailed, HealStop, HealStart, DiagnoseAt
  <1>2. ASSUME NEW o \in orphans
        PROVE  OrphanEnds(o) => orphans' # orphans
    BY DEF OrphanEnds
  <1> QED
    BY <1>1, <1>2 DEF Changes, Changes_rows, Changes_docker

(* A running container has its boot script: docker start makes a container *)
(* run only if it has.                                                      *)
LEMMA HookedStep ==
  ASSUME IInv, RetryInv, [Next]_vars, UNCHANGED orphans
  PROVE  RunningIsHooked'
  <1>1. docker \in [Ids -> Container] /\ RunningIsHooked
    BY DEF IInv, TypeOK, RetryInv
  <1>2. ASSUME NEW i, NEW k, docker' = [docker EXCEPT ![i] = k], k.st = "running" => k.hook
        PROVE  RunningIsHooked'
    BY <1>1, <1>2 DEF RunningIsHooked
  <1>3. CASE UNCHANGED docker
    BY <1>1, <1>3 DEF RunningIsHooked
  <1>4. ASSUME NEW i, Remove(i)
        PROVE  RunningIsHooked'
    BY <1>2, <1>4 DEF Remove, Absent
  <1>5. ASSUME NEW c \in Creators, CreateContainer(c)
        PROVE  RunningIsHooked'
    BY <1>2, <1>3, <1>5 DEF CreateContainer, Create
  <1>6. ASSUME NEW c \in Creators, Deliver(c)
        PROVE  RunningIsHooked'
    <2>1. creq[c].id \in Ids
      BY <1>6 DEF Deliver, AtStep, IInv, CreateInv, CreateOK, LaunchPc
    <2> DEFINE k == [docker[creq[c].id] EXCEPT !.hook = TRUE]
    <2>2. k.hook
      BY <1>1, <2>1 DEF Container
    <2> QED
      BY <1>2, <1>3, <1>6, <2>2 DEF Deliver, CopyHook
  <1>7. ASSUME NEW c \in Creators, StartContainer(c)
        PROVE  RunningIsHooked'
    <2> DEFINE i == creq[c].id
               k == [docker[i] EXCEPT !.st = IF docker[i].hook THEN "running" ELSE "mute"]
    <2>1. i \in Ids
      BY <1>7 DEF StartContainer, AtStep, IInv, CreateInv, CreateOK, LaunchPc
    <2>2. k.st = "running" => k.hook
      BY <1>1, <2>1 DEF Container
    <2> QED
      BY <1>2, <1>3, <1>7, <2>2 DEF StartContainer, Start
  <1>8. ASSUME NEW i \in Ids, ContainerExits(i) \/ WrapperHangs(i)
        PROVE  RunningIsHooked'
    <2>1. PICK st \in {"exited", "mute"} : docker' = [docker EXCEPT ![i].st = st]
      BY <1>8 DEF ContainerExits, WrapperHangs
    <2> DEFINE k == [docker[i] EXCEPT !.st = st]
    <2>2. k.st # "running"
      BY <1>1 DEF Container
    <2> QED
      BY <1>2, <2>1, <2>2
  <1> QED
    BY <1>3, <1>4, <1>5, <1>6, <1>7, <1>8, Frames, RetryChanges
       DEF RetryInv, RemoveStale, CleanUp, DeleteContainer

(* A container stays until a launch replaces it or a delete removes it.     *)
LEMMA BackedStep ==
  ASSUME IInv, RetryInv, [Next]_vars, UNCHANGED orphans,
         NEW i \in Ids, NEW p, Backed(i, p),
         \A c \in Creators : creq[c].pc \in {"rm", "cleanup"} => creq[c].id # i
  PROVE  Backed(i, p)' \/ Leaving(i)'
  <1>1. docker \in [Ids -> Container]
    BY DEF IInv, TypeOK
  <1>2. CASE docker'[i] = docker[i]
    BY <1>2 DEF Backed
  <1>3. ASSUME NEW st \in Up \union {"exited"}, docker' = [docker EXCEPT ![i].st = st]
        PROVE  Backed(i, p)'
    <2>1. docker'[i] = [docker[i] EXCEPT !.st = st]
      BY <1>1, <1>3
    <2>2. docker'[i].st = st /\ docker'[i].port = p /\ docker'[i].hook
      BY <1>1, <2>1 DEF Container, Backed
    <2> QED
      BY <2>2 DEF Backed
  <1>4. ASSUME NEW j, j # i, NEW k, docker' = [docker EXCEPT ![j] = k]
        PROVE  Backed(i, p)'
    BY <1>1, <1>2, <1>4 DEF Backed
  <1>5. ASSUME NEW c \in Creators, RemoveStale(c) \/ CleanUp(c)
        PROVE  Backed(i, p)'
    <2>1. creq[c].id # i
      BY <1>5 DEF RemoveStale, CleanUp, AtStep
    <2> QED
      BY <1>2, <1>4, <1>5, <2>1 DEF RemoveStale, CleanUp, Remove, Backed
  <1>6. ASSUME NEW c \in Creators, CreateContainer(c)
        PROVE  Backed(i, p)'
    <2>1. Exists(i)
      BY DEF Backed, Exists, Up
    <2> QED
      BY <1>2, <1>4, <1>6, <2>1 DEF CreateContainer, Create, Backed
  <1>7. ASSUME NEW c \in Creators, Deliver(c)
        PROVE  Backed(i, p)'
    <2>1. CASE creq[c].id = i /\ docker' = [docker EXCEPT ![i].hook = TRUE]
      <3>1. docker'[i] = [docker[i] EXCEPT !.hook = TRUE]
        BY <1>1, <2>1
      <3>2. docker'[i] = docker[i]
        BY <1>1, <3>1 DEF Container, Backed
      <3> QED
        BY <1>2, <3>2 DEF Backed
    <2> QED
      BY <1>2, <1>4, <1>7, <2>1 DEF Deliver, CopyHook, Backed
  <1>8. ASSUME NEW c \in Creators, StartContainer(c)
        PROVE  Backed(i, p)'
    <2>1. CASE creq[c].id = i /\ Start(i)
      <3>1. docker' = docker \/ docker' = [docker EXCEPT ![i].st = "running"]
        BY <2>1 DEF Start, Backed
      <3> QED
        BY <1>2, <1>3, <3>1 DEF Up, Backed
    <2>2. CASE creq[c].id # i /\ Start(creq[c].id)
      BY <1>2, <1>4, <2>2 DEF Start, Backed
    <2> QED
      BY <1>2, <1>8, <2>1, <2>2 DEF StartContainer, Backed
  <1>9. ASSUME NEW d \in Deleters, DeleteContainer(d)
        PROVE  Backed(i, p)' \/ Leaving(i)'
    <2>1. dreq[d].pc = "rm" /\ dreq[d].name = dreq[d].id /\ dreq[d] \in DeleteReq
      BY <1>9 DEF DeleteContainer, DeleteAt, RetryInv, DeletesRemoveTheirOwn, IInv, TypeOK
    <2>2. CASE UNCHANGED docker
      BY <1>2, <2>2
    <2>3. CASE Remove(dreq[d].name) /\ dreq' = [dreq EXCEPT ![d].pc = "row"]
      <3>1. CASE dreq[d].name = i
        <4>1. dreq'[d] = [dreq[d] EXCEPT !.pc = "row"]
          BY <2>3 DEF IInv, TypeOK
        <4>2. dreq'[d].pc = "row" /\ dreq'[d].id = i
          BY <2>1, <3>1, <4>1 DEF DeleteReq
        <4> QED
          BY <4>2 DEF Leaving
      <3>2. CASE dreq[d].name # i
        BY <1>4, <2>3, <3>2 DEF Remove
      <3> QED
        BY <3>1, <3>2
    <2> QED
      BY <1>9, <2>2, <2>3 DEF DeleteContainer
  <1>10. ASSUME NEW j \in Ids, ContainerExits(j) \/ WrapperHangs(j)
         PROVE  Backed(i, p)'
    <2>1. PICK st \in Up \union {"exited"} : docker' = [docker EXCEPT ![j].st = st]
      BY <1>10 DEF ContainerExits, WrapperHangs, Up
    <2> QED
      BY <1>3, <1>4, <2>1
  <1> QED
    BY <1>2, <1>5, <1>6, <1>7, <1>8, <1>9, <1>10, Frames, RetryChanges DEF RetryInv

(* A delete that has reached the row goes on to remove it. *)
LEMMA LeavingStep ==
  ASSUME IInv, [Next]_vars, Retries, NEW i, Leaving(i)
  PROVE  Leaving(i)' \/ \A n \in Names : rows'[n] = NONE \/ rows'[n].id # i
  <1>1. PICK d \in Deleters : dreq[d].id = i /\ dreq[d].pc = "row"
    BY DEF Leaving
  <1>2. dreq \in [Deleters -> DeleteReq]
    BY DEF IInv, TypeOK
  <1>3. CASE dreq'[d] = dreq[d]
    BY <1>1, <1>3 DEF Leaving
  <1>4. CASE dreq'[d].pc = "idle"
    BY <1>1, <1>4 DEF Retries
  <1>5. ASSUME NEW e \in Deleters, NEW q, dreq' = [dreq EXCEPT ![e] = q],
               e = d => q.pc = "idle"
        PROVE  dreq'[d] = dreq[d] \/ dreq'[d].pc = "idle"
    BY <1>2, <1>5
  <1>6. ASSUME NEW e \in Deleters, DeleteRow(e) \/ DropDelete(e)
        PROVE  dreq'[d] = dreq[d] \/ dreq'[d].pc = "idle"
    BY <1>5, <1>6 DEF DeleteRow, DropDelete, NoDelete
  <1>7. ASSUME NEW e \in Deleters, NEW j \in Ids, DeleteReceive(e, j)
        PROVE  dreq'[d] = dreq[d] \/ dreq'[d].pc = "idle"
    <2>1. e # d
      BY <1>1, <1>7 DEF DeleteReceive, DeleteAt
    <2> QED
      BY <1>5, <1>7, <2>1 DEF DeleteReceive
  <1>8. ASSUME NEW e \in Deleters, DeleteFind(e) \/ DeleteContainer(e)
        PROVE  dreq'[d] = dreq[d] \/ dreq'[d].pc = "idle"
    <2>1. e # d
      BY <1>1, <1>8 DEF DeleteFind, DeleteContainer, DeleteAt
    <2> QED
      BY <1>5, <1>8, <2>1 DEF DeleteFind, DeleteContainer
  <1> QED
    BY <1>3, <1>4, <1>6, <1>7, <1>8, Frames DEF Changes, Changes_dreq

(* What becomes of a row that is there after a step: it keeps its id, its   *)
(* container and its ports; or it is new; or it is the one that the launch  *)
(* of its own id records.                                                   *)
Keeps(n) ==
    /\ rows[n] # NONE
    /\ rows'[n].id = rows[n].id /\ rows'[n].name = rows[n].name /\ rows'[n].port = rows[n].port
    /\ rows'[n].status \in {rows[n].status, "failed"}
IsNew(n) ==
    /\ rows'[n].name = NONE /\ rows'[n].status = "creating"
    /\ \E c \in Creators : creq[c].pc = "begin"
IsRecorded(n) == \E c \in Creators :
    /\ creq[c].pc = "mark_ready" /\ creq[c].name = n /\ creq'[c].pc = "ready_find"
    /\ rows[n] # NONE /\ rows[n].id = creq[c].id /\ rows'[n].id = creq[c].id
    /\ rows'[n].name = creq[c].id /\ rows'[n].port = creq[c].port
    /\ UNCHANGED <<docker, dreq>>

LEMMA RowFates ==
  ASSUME IInv, RetryInv, [Next]_vars, NEW n \in Names, rows'[n] # NONE
  PROVE  Keeps(n) \/ IsNew(n) \/ IsRecorded(n)
  <1>1. rows \in [Names -> Row \union {NONE}] /\ creq \in [Creators -> CreateReq]
    BY DEF IInv, TypeOK
  <1>2. CASE rows'[n] = rows[n]
    BY <1>2 DEF Keeps
  <1>3. ASSUME NEW c \in Creators, BeginCreation(c)
        PROVE  Keeps(n) \/ IsNew(n)
    <2>1. CASE n # creq[c].name \/ rows[creq[c].name] # NONE
      <3>1. rows'[n] = rows[n]
        BY <1>1, <1>3, <2>1 DEF BeginCreation
      <3> QED
        BY <3>1 DEF Keeps
    <2>2. CASE n = creq[c].name /\ rows[n] = NONE
      <3>1. PICK i \in Ids : rows' = [rows EXCEPT ![n] =
                [id |-> i, status |-> "creating", name |-> NONE, port |-> NONE, owner |-> NONE]]
        BY <1>3, <2>2 DEF BeginCreation
      <3>2. rows'[n].name = NONE /\ rows'[n].status = "creating"
        BY <1>1, <3>1
      <3> QED
        BY <1>3, <3>2 DEF BeginCreation, AtStep, IsNew
    <2> QED
      BY <2>1, <2>2
  <1>4. ASSUME NEW c \in Creators, MarkReady(c)
        PROVE  Keeps(n) \/ IsRecorded(n)
    <2>1. creq[c].pc = "mark_ready" /\ UNCHANGED <<docker, dreq>>
      BY <1>4 DEF MarkReady, AtStep
    <2>2. CASE n # creq[c].name
      <3>1. rows'[n] = rows[n]
        BY <1>1, <1>4, <2>2 DEF MarkReady
      <3> QED
        BY <3>1 DEF Keeps
    <2>3. CASE n = creq[c].name
      <3>1. rows'[n] = AsReady(rows[n], creq[c].id, creq[c].port)
        BY <1>1, <1>4, <2>3 DEF MarkReady
      <3>2. rows[n] # NONE
        BY <3>1 DEF AsReady
      <3>3. rows[n].id = creq[c].id
        BY <2>1, <2>3, <3>2 DEF RetryInv, LaunchesUnsettled, Unsettled
      <3>4. /\ rows'[n].id = rows[n].id /\ rows'[n].name = creq[c].id
            /\ rows'[n].port = creq[c].port
        BY <3>1, <3>2 DEF AsReady
      <3>5. creq'[c] = [creq[c] EXCEPT !.pc = "ready_find"]
        BY <1>1, <1>4 DEF MarkReady, Goto
      <3>6. creq'[c].pc = "ready_find"
        BY <1>1, <3>5 DEF CreateReq
      <3> QED
        BY <2>1, <2>3, <3>2, <3>3, <3>4, <3>6 DEF IsRecorded
    <2> QED
      BY <2>2, <2>3
  <1>5. ASSUME NEW c \in Creators, MarkFailed(c)
        PROVE  Keeps(n)
    <2>1. CASE n # creq[c].name
      <3>1. rows'[n] = rows[n]
        BY <1>1, <1>5, <2>1 DEF MarkFailed
      <3> QED
        BY <3>1 DEF Keeps
    <2>2. CASE n = creq[c].name
      <3>1. rows'[n] = AsFailed(rows[n])
        BY <1>1, <1>5, <2>2 DEF MarkFailed
      <3>2. rows[n] # NONE /\ rows[n] \in Row
        BY <1>1, <3>1 DEF AsFailed
      <3>3. rows'[n] = [rows[n] EXCEPT !.status = "failed"]
        BY <3>1, <3>2 DEF AsFailed
      <3> QED
        BY <3>2, <3>3 DEF Keeps, Row
    <2> QED
      BY <2>1, <2>2
  <1>6. ASSUME NEW c \in Creators, SetOwner(c), rows'[n] # rows[n]
        PROVE  Keeps(n)
    <2>1. rows'[n] = AsOwned(rows[n], c) /\ n \in RowsOf(creq[c].id)
      BY <1>6 DEF SetOwner
    <2>2. rows[n] \in Row /\ rows[n] # NONE
      BY <1>1, <2>1 DEF RowsOf
    <2>3. rows'[n] = [rows[n] EXCEPT !.owner = c]
      BY <2>1, <2>2 DEF AsOwned
    <2> QED
      BY <2>2, <2>3 DEF Keeps, Row
  <1>7. ASSUME NEW d \in Deleters, DeleteRow(d)
        PROVE  Keeps(n)
    <2>1. rows'[n] = rows[n]
      BY <1>7 DEF DeleteRow
    <2> QED
      BY <2>1 DEF Keeps
  <1> QED
    BY <1>2, <1>3, <1>4, <1>5, <1>6, <1>7, Frames, RetryChanges DEF RetryInv

LEMMA DeletesStep ==
  ASSUME IInv, RetryInv, [Next]_vars
  PROVE  DeletesRemoveTheirOwn'
  <1>1. dreq \in [Deleters -> DeleteReq] /\ DeletesRemoveTheirOwn
    BY DEF IInv, TypeOK, RetryInv
  <1>2. ASSUME NEW d \in Deleters, NEW q, dreq' = [dreq EXCEPT ![d] = q],
               q.pc = "rm" => q.name = q.id
        PROVE  DeletesRemoveTheirOwn'
    BY <1>1, <1>2 DEF DeletesRemoveTheirOwn
  <1>3. CASE UNCHANGED dreq
    BY <1>1, <1>3 DEF DeletesRemoveTheirOwn
  <1>4. ASSUME NEW d \in Deleters, dreq' = [dreq EXCEPT ![d] = NoDelete]
        PROVE  DeletesRemoveTheirOwn'
    BY <1>2, <1>4 DEF NoDelete
  <1>5. ASSUME NEW d \in Deleters, NEW i \in Ids, DeleteReceive(d, i)
        PROVE  DeletesRemoveTheirOwn'
    BY <1>2, <1>5 DEF DeleteReceive, NoDelete
  <1>6. ASSUME NEW d \in Deleters, DeleteContainer(d)
        PROVE  DeletesRemoveTheirOwn'
    <2> DEFINE q == [dreq[d] EXCEPT !.pc = "row"]
    <2>1. q.pc # "rm"
      BY <1>1 DEF DeleteReq
    <2> QED
      BY <1>2, <1>4, <1>6, <2>1 DEF DeleteContainer
  <1>7. ASSUME NEW d \in Deleters, DeleteFind(d)
        PROVE  DeletesRemoveTheirOwn'
    <2>1. CASE dreq' = [dreq EXCEPT ![d] = NoDelete]
      BY <1>4, <2>1
    <2>2. ASSUME NEW n \in RowsOf(dreq[d].id),
                 dreq' = [dreq EXCEPT ![d] =
                    [@ EXCEPT !.name = rows[n].name,
                              !.pc = IF rows[n].name = NONE THEN "row" ELSE "rm"]]
          PROVE  DeletesRemoveTheirOwn'
      <3> DEFINE q == [dreq[d] EXCEPT !.name = rows[n].name,
                                      !.pc = IF rows[n].name = NONE THEN "row" ELSE "rm"]
      <3>1. n \in Names /\ rows[n] # NONE /\ rows[n].id = dreq[d].id
        BY DEF RowsOf
      <3>2. /\ q.name = rows[n].name /\ q.id = dreq[d].id
            /\ q.pc = "rm" => rows[n].name # NONE
        BY <1>1 DEF DeleteReq
      <3>3. q.pc = "rm" => q.name = q.id
        BY <3>1, <3>2 DEF RetryInv, RowsNameTheirOwn
      <3> QED
        BY <1>2, <2>2, <3>3
    <2> QED
      BY <1>7, <2>1, <2>2 DEF DeleteFind
  <1> QED
    BY <1>3, <1>4, <1>5, <1>6, <1>7, Frames DEF Changes, Changes_dreq, DeleteRow, DropDelete

(* A launch begins on a row that is not ready and goes on with the same id. *)
LEMMA UnsettledStep ==
  ASSUME OneCreator, IInv, RetryInv, [Next]_vars
  PROVE  LaunchesUnsettled'
  <1> SUFFICES ASSUME NEW c \in Creators, creq'[c].pc \in LaunchPc \union {"mark_ready"}
               PROVE  Unsettled(rows'[creq'[c].name], creq'[c].id)
    BY DEF LaunchesUnsettled
  <1> DEFINE q == creq[c]
             Good == Unsettled(rows'[creq'[c].name], creq'[c].id)
  <1>1. creq \in [Creators -> CreateReq] /\ rows \in [Names -> Row \union {NONE}]
    BY DEF IInv, TypeOK
  <1>2. q \in CreateReq /\ (q.pc # "idle" => q.name \in Names)
    BY <1>1 DEF IInv, CreateInv, CreateOK
  <1>3. CASE creq'[c] = creq[c]
    <2>1. Unsettled(rows[q.name], q.id) /\ q.name \in Names
      BY <1>2, <1>3 DEF RetryInv, LaunchesUnsettled, LaunchPc
    <2>2. CASE rows'[q.name] = NONE
      BY <1>3, <2>2 DEF Unsettled
    <2>3. CASE rows'[q.name] # NONE
      <3>1. Keeps(q.name) \/ IsNew(q.name) \/ IsRecorded(q.name)
        BY <2>1, <2>3, RowFates
      <3>2. ~IsNew(q.name) /\ ~IsRecorded(q.name)
        BY <1>3 DEF OneCreator, IsNew, IsRecorded, LaunchPc
      <3> QED
        BY <1>3, <2>1, <3>1, <3>2 DEF Keeps, Unsettled
    <2> QED
      BY <2>2, <2>3
  (* with the same name and id, over the same rows *)
  <1>4. CASE /\ q.pc \in LaunchPc /\ UNCHANGED rows
             /\ creq'[c].name = q.name /\ creq'[c].id = q.id
    BY <1>4 DEF RetryInv, LaunchesUnsettled, Unsettled
  <1>5. CASE AttemptFails(c) /\ q.pc \in LaunchPc /\ UNCHANGED rows
    <2>1. creq'[c].name = q.name /\ creq'[c].id = q.id
      BY <1>1, <1>5 DEF AttemptFails, CreateReq
    <2> QED
      BY <1>4, <1>5, <2>1
  <1>6. ASSUME NEW pc, Goto(c, pc)
        PROVE  creq'[c].name = q.name /\ creq'[c].id = q.id /\ creq'[c].pc = pc
    BY <1>1, <1>6 DEF Goto, CreateReq
  <1>7. CASE RemoveStale(c) \/ Deliver(c) \/ StartContainer(c) \/ AwaitReady(c)
    <2>1. q.pc \in LaunchPc /\ UNCHANGED rows
      BY <1>7 DEF RemoveStale, Deliver, StartContainer, AwaitReady, AtStep, LaunchPc
    <2>2. PICK pc \in CreatePc : Goto(c, pc)
      BY <1>7 DEF RemoveStale, Deliver, StartContainer, AwaitReady, CreatePc, LaunchPc
    <2> QED
      BY <1>4, <1>6, <2>1, <2>2
  <1>8. CASE CleanUp(c)
    BY <1>5, <1>8 DEF CleanUp, AtStep, LaunchPc
  <1>9. CASE CreateContainer(c)
    <2>1. q.pc \in LaunchPc /\ UNCHANGED rows
      BY <1>9 DEF CreateContainer, AtStep, LaunchPc
    <2>2. ASSUME NEW p, creq' = [creq EXCEPT ![c] = [@ EXCEPT !.port = p, !.pc = "deliver"]]
          PROVE  creq'[c].name = q.name /\ creq'[c].id = q.id
      BY <1>1, <2>2 DEF CreateReq
    <2> QED
      BY <1>4, <1>5, <1>9, <2>1, <2>2 DEF CreateContainer
  <1>10. CASE Respond(c)
    <2>1. creq'[c].pc = "idle"
      BY <1>1, <1>10 DEF Respond, NoCreate
    <2> QED
      BY <2>1 DEF LaunchPc
  (* on the row that was found, when it is not ready *)
  <1>11. ASSUME NEW pc, UNCHANGED rows, rows[q.name] # NONE,
                creq' = [creq EXCEPT ![c] = [@ EXCEPT !.id = rows[q.name].id, !.pc = pc]],
                pc = "rm" => rows[q.name].status # "ready",
                pc \in {"rm", "owner"}
         PROVE  Good
    <2>1. creq'[c].name = q.name /\ creq'[c].id = rows[q.name].id /\ creq'[c].pc = pc
      BY <1>1, <1>11 DEF CreateReq
    <2>2. pc = "rm"
      BY <1>11, <2>1 DEF LaunchPc
    <2> QED
      BY <1>11, <2>1, <2>2 DEF Unsettled
  <1>12. CASE Find(c)
    <2>1. CASE Goto(c, "begin")
      BY <1>6, <2>1 DEF LaunchPc
    <2> DEFINE pc == IF rows[q.name].status = "ready" THEN "owner" ELSE "rm"
    <2>2. CASE /\ rows[q.name] # NONE
               /\ creq' = [creq EXCEPT ![c] = [@ EXCEPT !.id = rows[q.name].id, !.pc = pc]]
      BY <1>11, <1>12, <2>2 DEF Find
    <2> QED
      BY <1>12, <2>1, <2>2 DEF Find
  <1>13. CASE ReadBack(c)
    <2>1. q.name \in Names /\ UNCHANGED rows
      BY <1>2, <1>13 DEF ReadBack, AtStep
    <2> DEFINE pc == IF rows[q.name].name # NONE THEN "owner" ELSE "rm"
    <2>2. CASE /\ rows[q.name] # NONE
               /\ creq' = [creq EXCEPT ![c] = [@ EXCEPT !.id = rows[q.name].id, !.pc = pc]]
      <3>1. pc = "rm" => rows[q.name].status # "ready"
        BY <2>1, <2>2 DEF IInv, RowInv, RowOK
      <3> QED
        BY <1>11, <2>1, <2>2, <3>1
    <2> QED
      BY <1>10, <1>13, <2>2 DEF ReadBack
  <1>14. CASE ReadyFind(c)
    <2>1. CASE /\ rows[q.name] # NONE
               /\ creq' = [creq EXCEPT ![c] = [@ EXCEPT !.id = rows[q.name].id, !.pc = "owner"]]
      BY <1>11, <1>14, <2>1 DEF ReadyFind
    <2> QED
      BY <1>10, <1>14, <2>1 DEF ReadyFind
  <1>15. CASE BeginCreation(c)
    <2>1. CASE Goto(c, "readback")
      BY <1>6, <2>1 DEF LaunchPc
    <2>2. ASSUME NEW i \in Ids,
                 rows' = [rows EXCEPT ![q.name] =
                    [id |-> i, status |-> "creating", name |-> NONE, port |-> NONE,
                     owner |-> NONE]],
                 creq' = [creq EXCEPT ![c] = [@ EXCEPT !.id = i, !.pc = "rm"]]
          PROVE  Good
      <3>1. q.name \in Names
        BY <1>2, <1>15 DEF BeginCreation, AtStep
      <3>2. creq'[c].name = q.name /\ creq'[c].id = i
        BY <1>1, <2>2 DEF CreateReq
      <3>3. rows'[q.name].id = i /\ rows'[q.name].status = "creating"
        BY <1>1, <2>2, <3>1
      <3> QED
        BY <3>2, <3>3 DEF Unsettled
    <2> QED
      BY <1>15, <2>1, <2>2 DEF BeginCreation
  <1>16. CASE MarkReady(c)
    BY <1>6, <1>16 DEF MarkReady, LaunchPc
  <1>17. CASE \E n \in Names : Receive(c, n)
    <2>1. PICK n \in Names : creq' = [creq EXCEPT ![c] = [NoCreate EXCEPT !.pc = "find", !.name = n]]
      BY <1>17 DEF Receive
    <2>2. creq'[c].pc = "find"
      BY <1>1, <2>1 DEF NoCreate
    <2> QED
      BY <2>2 DEF LaunchPc
  <1>18. CASE UNCHANGED creq
    BY <1>3, <1>18
  <1>19. CASE \E n \in Names : \E e \in Creators : Receive(e, n)
    BY <1>17, <1>19 DEF OneCreator
  <1>20. CASE MarkFailed(c) \/ SetOwner(c) \/ DropCreate(c)
    BY <1>10, <1>20 DEF MarkFailed, SetOwner, DropCreate
  <1>21. ASSUME NEW e \in Creators,
                \/ Find(e) \/ BeginCreation(e) \/ ReadBack(e)
                \/ RemoveStale(e) \/ CreateContainer(e)
                \/ Deliver(e) \/ StartContainer(e)
                \/ AwaitReady(e) \/ CleanUp(e) \/ MarkReady(e)
                \/ ReadyFind(e) \/ MarkFailed(e)
                \/ SetOwner(e) \/ DropCreate(e)
         PROVE  Good
    <2>1. e = c
      BY DEF OneCreator
    <2> QED
      BY <1>7, <1>8, <1>9, <1>12, <1>13, <1>14, <1>15, <1>16, <1>20, <1>21, <2>1
  <1> QED
    BY <1>18, <1>19, <1>21, Frames DEF Changes, Changes_creq

(* What a row with this id relies on stays as long as the row does, unless  *)
(* a launch is about to remove the container.                               *)
LEMMA CoveredStep ==
  ASSUME IInv, RetryInv, [Next]_vars, Retries, NEW i \in Ids, NEW p, Covered(i, p),
         \A c \in Creators : creq[c].pc \in {"rm", "cleanup"} => creq[c].id # i,
         NEW n \in Names, rows'[n] # NONE, rows'[n].id = i
  PROVE  Covered(i, p)'
  <1>1. CASE Backed(i, p)
    <2>1. Backed(i, p)' \/ Leaving(i)'
      BY <1>1, BackedStep DEF Retries
    <2> QED
      BY <2>1 DEF Covered, Backed, Leaving
  <1>2. CASE Leaving(i)
    <2>1. Leaving(i)'
      BY <1>2, LeavingStep DEF Leaving
    <2> QED
      BY <2>1 DEF Covered, Backed, Leaving
  <1> QED
    BY <1>1, <1>2 DEF Covered

LEMMA RecordsStep ==
  ASSUME OneCreator, IInv, RetryInv, [Next]_vars, Retries
  PROVE  RecordsCovered'
  <1> SUFFICES ASSUME NEW c \in Creators, creq'[c].pc = "mark_ready",
                      rows'[creq'[c].name] # NONE,
                      NEW i, NEW p, creq'[c].id = i, creq'[c].port = p
               PROVE  Covered(i, p)'
    BY DEF RecordsCovered, Covered, Backed, Leaving
  <1>1. creq \in [Creators -> CreateReq]
    BY DEF IInv, TypeOK
  <1>2. /\ creq[c].pc # "idle" => creq[c].name \in Names
        /\ creq[c].pc \in LaunchPc \union {"mark_ready"} => creq[c].id \in Ids
    BY DEF IInv, CreateInv, CreateOK
  <1>3. CASE creq'[c] = creq[c]
    <2> DEFINE n == creq[c].name
    <2>1. n \in Names /\ creq[c].pc = "mark_ready" /\ i = creq[c].id /\ p = creq[c].port
      BY <1>2, <1>3
    <2>2. Keeps(n) \/ IsNew(n) \/ IsRecorded(n)
      BY <1>3, <2>1, RowFates
    <2>3. rows[n] # NONE /\ rows'[n].id = rows[n].id
      BY <1>3, <2>1, <2>2 DEF OneCreator, Keeps, IsNew, IsRecorded
    <2>4. rows[n].id = i
      BY <2>1, <2>3 DEF RetryInv, LaunchesUnsettled, Unsettled
    <2>5. Covered(i, p) /\ i \in Ids
      BY <1>2, <2>1, <2>3 DEF RetryInv, RecordsCovered
    <2>6. \A e \in Creators : creq[e].pc \in {"rm", "cleanup"} => creq[e].id # i
      BY <2>1 DEF OneCreator
    <2> QED
      BY <1>3, <2>1, <2>3, <2>4, <2>5, <2>6, CoveredStep
  <1>4. CASE AwaitReady(c)
    <2>1. creq[c].id \in Ids /\ UNCHANGED docker
      BY <1>2, <1>4 DEF AwaitReady, AtStep, LaunchPc
    <2>2. ASSUME NEW pc, Goto(c, pc)
          PROVE  creq'[c].pc = pc /\ i = creq[c].id /\ p = creq[c].port
      BY <1>1, <2>2 DEF Goto, CreateReq
    <2>3. Answers(creq[c].id, creq[c].port) /\ i = creq[c].id /\ p = creq[c].port
      BY <1>4, <2>2 DEF AwaitReady
    <2>4. docker'[i].st = "running" /\ docker'[i].port = p /\ docker'[i].hook
      BY <2>1, <2>3 DEF Answers, RetryInv, RunningIsHooked
    <2> QED
      BY <2>4 DEF Covered, Backed, Up
  (* no other step of the request leads there *)
  <1>6. ~Respond(c) /\ ~AttemptFails(c)
    <2>1. ASSUME Respond(c) PROVE FALSE
      <3>1. creq'[c].pc = "idle"
        BY <1>1, <2>1 DEF Respond, NoCreate
      <3> QED
        BY <3>1
    <2>2. ASSUME AttemptFails(c) PROVE FALSE
      <3>1. creq'[c].pc \in {"rm", "mark_failed"}
        BY <1>1, <2>2 DEF AttemptFails, CreateReq
      <3> QED
        BY <3>1
    <2> QED
      BY <2>1, <2>2
  <1>7. ASSUME NEW pc, Goto(c, pc)
        PROVE  pc = "mark_ready"
    BY <1>1, <1>7 DEF Goto, CreateReq
  <1>8. ASSUME NEW n, creq' = [creq EXCEPT ![c] = [NoCreate EXCEPT !.pc = "find", !.name = n]]
        PROVE  FALSE
    <2>1. creq'[c].pc = "find"
      BY <1>1, <1>8 DEF NoCreate
    <2> QED
      BY <2>1
  <1>9. ASSUME NEW j, NEW pc \in {"rm", "owner"},
               creq' = [creq EXCEPT ![c] = [@ EXCEPT !.id = j, !.pc = pc]]
        PROVE  FALSE
    BY <1>1, <1>9 DEF CreateReq
  <1>10. ~Find(c) /\ ~BeginCreation(c) /\ ~ReadBack(c) /\ ~ReadyFind(c)
    BY <1>6, <1>7, <1>9 DEF Find, BeginCreation, ReadBack, ReadyFind
  <1>11. ASSUME NEW j,
               creq' = [creq EXCEPT ![c] = [@ EXCEPT !.port = j, !.pc = "deliver"]]
        PROVE  FALSE
    BY <1>1, <1>11 DEF CreateReq
  <1>12. ~CreateContainer(c) /\ ~CleanUp(c)
    BY <1>6, <1>11 DEF CreateContainer, CleanUp
  <1>13. ~RemoveStale(c) /\ ~Deliver(c) /\ ~StartContainer(c) /\ ~MarkReady(c)
    BY <1>7 DEF RemoveStale, Deliver, StartContainer, MarkReady
  <1>14. ~MarkFailed(c) /\ ~SetOwner(c) /\ ~DropCreate(c)
    BY <1>6 DEF MarkFailed, SetOwner, DropCreate
  <1>15. ASSUME NEW n, Receive(c, n) PROVE FALSE
    BY <1>8, <1>15 DEF Receive
  <1>16. ASSUME NEW e \in Creators PROVE e = c
    BY DEF OneCreator
  <1> QED
    BY <1>3, <1>4, <1>10, <1>12, <1>13, <1>14, <1>15, <1>16, Frames DEF Changes, Changes_creq

LEMMA ReadyStep ==
  ASSUME IInv, RetryInv, [Next]_vars, Retries
  PROVE  ReadyCovered'
  <1> SUFFICES ASSUME NEW n \in Names, rows'[n] # NONE, rows'[n].status = "ready",
                      NEW i, NEW p, rows'[n].id = i, rows'[n].port = p
               PROVE  Covered(i, p)'
    BY DEF ReadyCovered, Covered, Backed, Leaving
  <1>1. rows \in [Names -> Row \union {NONE}]
    BY DEF IInv, TypeOK
  <1>2. CASE Keeps(n)
    <2>1. rows[n] # NONE /\ rows[n].status = "ready" /\ rows[n].id = i /\ rows[n].port = p
      BY <1>2 DEF Keeps
    <2>2. i \in Ids /\ Covered(i, p)
      BY <1>1, <2>1 DEF RetryInv, ReadyCovered, Row
    <2>3. ASSUME NEW c \in Creators, creq[c].pc \in {"rm", "cleanup"}, creq[c].id = i
          PROVE  FALSE
      <3>1. claim[i] = creq[c].name
        BY <2>3 DEF IInv, CreateInv, CreateOK, LaunchPc
      <3>2. claim[i] = n
        BY <2>1 DEF IInv, RowInv, RowOK
      <3> QED
        BY <2>1, <2>3, <3>1, <3>2 DEF RetryInv, LaunchesUnsettled, Unsettled, LaunchPc
    <2> QED
      BY <2>2, <2>3, CoveredStep
  <1>3. CASE IsRecorded(n)
    <2>1. PICK c \in Creators :
              /\ creq[c].pc = "mark_ready" /\ creq[c].name = n /\ rows[n] # NONE
              /\ i = creq[c].id /\ p = creq[c].port /\ UNCHANGED <<docker, dreq>>
      BY <1>3 DEF IsRecorded
    <2>2. Covered(i, p)
      BY <2>1 DEF RetryInv, RecordsCovered
    <2> QED
      BY <2>1, <2>2 DEF Covered, Backed, Leaving
  <1>4. ~IsNew(n)
    BY DEF IsNew
  <1> QED
    BY <1>2, <1>3, <1>4, RowFates

LEMMA OwnNamesStep ==
  ASSUME IInv, RetryInv, [Next]_vars
  PROVE  RowsNameTheirOwn'
  <1> SUFFICES ASSUME NEW n \in Names, rows'[n] # NONE, rows'[n].name # NONE
               PROVE  rows'[n].name = rows'[n].id
    BY DEF RowsNameTheirOwn
  <1> QED
    BY RowFates DEF Keeps, IsNew, IsRecorded, RetryInv, RowsNameTheirOwn

LEMMA StepRetryInv ==
  ASSUME OneCreator, IInv, RetryInv, [Next]_vars, Retries
  PROVE  RetryInv'
  <1>1. NoDiagnoses'
    BY DEF Retries, RetryInv, NoDiagnoses
  <1> QED
    BY <1>1, OwnNamesStep, DeletesStep, HookedStep, UnsettledStep, RecordsStep, ReadyStep
       DEF RetryInv, Retries

LEMMA RetryStutters ==
  ASSUME RetryInv, UNCHANGED vars
  PROVE  RetryInv'
  BY DEF vars, RetryInv, NoDiagnoses, RowsNameTheirOwn, DeletesRemoveTheirOwn, RunningIsHooked,
         LaunchesUnsettled, RecordsCovered, ReadyCovered, Covered, Backed, Leaving, Unsettled

(* RetriedIsBacked: with one creator at a time, and no diagnosis, whatever  *)
(* attempts failed or were dropped at whatever point before, a name that is *)
(* ready is served by its own container with its own ports and boot script, *)
(* or a delete has begun (container/mod.rs:72-86, launch_and_record).       *)
THEOREM RetriedAlwaysBacked == OneCreator /\ SideSpec => []RetriedIsBacked
  <1> DEFINE J == OneCreator /\ IInv /\ (side = "retries" => RetryInv)
  <1>1. OneCreator /\ SideInit => J
    BY InitIInv, InitRetryInv DEF SideInit
  <1>2. J /\ [SideNext]_<<side, vars>> => J'
    <2> SUFFICES ASSUME J, [SideNext]_<<side, vars>> PROVE J'
      OBVIOUS
    <2>1. [Next]_vars /\ UNCHANGED side
      BY DEF SideNext
    <2>2. IInv'
      BY <2>1, StepIInv
    <2>3. ASSUME side = "retries" PROVE RetryInv'
      BY <2>1, <2>3, StepRetryInv, RetryStutters DEF SideNext
    <2> QED
      BY <2>1, <2>2, <2>3 DEF OneCreator
  <1>3. J => RetriedIsBacked
    <2> SUFFICES ASSUME IInv, RetryInv, NEW n \in Names, rows[n] # NONE,
                        rows[n].status = "ready"
                 PROVE  \/ /\ rows[n].name = rows[n].id
                           /\ docker[rows[n].id].st \in Up \union {"exited"}
                           /\ docker[rows[n].id].port = rows[n].port
                           /\ docker[rows[n].id].hook
                        \/ \E d \in Deleters : dreq[d].id = rows[n].id
                                                 /\ dreq[d].pc \in {"rm", "row"}
      BY DEF RetriedIsBacked, ReadyIsBacked
    <2>1. rows[n].name = rows[n].id
      BY DEF IInv, RowInv, RowOK, RetryInv, RowsNameTheirOwn
    <2>2. Covered(rows[n].id, rows[n].port)
      BY DEF RetryInv, ReadyCovered
    <2> QED
      BY <2>1, <2>2 DEF Covered, Backed, Leaving
  <1> QED
    BY <1>1, <1>2, <1>3, PTL DEF SideSpec

==============================================================================
