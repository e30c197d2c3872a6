---------------------------- MODULE HostedWorkers ----------------------------
(* DockerWorkers: one container and one data volume per account, under names *)
(* derived from the account.  The store keeps the generation of the account, *)
(* from which the token of its container is derived, and whether the volume  *)
(* was ever handed out.  One mutex makes Ensure, Inspect and Close follow    *)
(* each other; the controller may die between any two of their steps, and a  *)
(* container command may take effect although it reported a failure, then    *)
(* before the next one is run.                                               *)
EXTENDS Naturals, FiniteSets

CONSTANTS Users, MaxWorkers,
          Images,       \* the worker images deployments name
          MaxGen        \* bound on the generations of an account

VARIABLES
    gen,        \* worker_generations, 0 if there is no row
    initialized,\* worker_volumes
    box,        \* the container of each account
    volume,     \* none, empty, or written by a worker
    allocations,\* the generation of the assignment in memory, 0 if there is none
    closed,
    image,      \* Config.WorkerImage of the deployment in charge
    job,        \* the Ensure that holds the mutex
    worked      \* history: a worker has written data of the account

store == << gen, initialized >>
docker == << box, volume >>
vars == << store, docker, allocations, closed, image, job, worked >>

NoBox == [ here |-> FALSE, running |-> FALSE, gen |-> 0, image |-> "none" ]
NoJob == [ pc |-> "free" ]
Boxes == { u \in Users : box[u].here }

Init ==
    /\ gen = [u \in Users |-> 0] /\ initialized = [u \in Users |-> FALSE]
    /\ box = [u \in Users |-> NoBox] /\ volume = [u \in Users |-> "none"]
    /\ allocations = [u \in Users |-> 0] /\ closed = FALSE /\ image \in Images
    /\ job = NoJob
    /\ worked = [u \in Users |-> FALSE]

Go(pc) == job' = [job EXCEPT !.pc = pc]
Return == job' = NoJob

-----------------------------------------------------------------------------
(* Ensure.                                                                   *)

\* A cached assignment that answers is returned as it is.
EnsureCached(u) ==
    /\ job = NoJob /\ ~closed
    /\ allocations[u] # 0 /\ box[u].running
    /\ UNCHANGED vars

\* Otherwise the assignment is dropped and the generation read or made.
EnsureBegin(u) ==
    /\ job = NoJob /\ ~closed
    /\ allocations' = [allocations EXCEPT ![u] = 0]
    /\ gen' = [gen EXCEPT ![u] = IF @ = 0 THEN 1 ELSE @]
    /\ job' = [ pc |-> "list", user |-> u, exists |-> FALSE ]
    /\ UNCHANGED << initialized, docker, closed, image, worked >>

\* The containers of the deployment, stopped ones too.
EnsureList ==
    LET u == job.user
    IN  /\ job.pc = "list"
        /\ \/ /\ box[u].here \/ Cardinality(Boxes) < MaxWorkers
              /\ job' = [job EXCEPT !.pc = "volume", !.exists = box[u].here]
           \/ Return
        /\ UNCHANGED << store, docker, allocations, closed, image, worked >>

\* Faulty variant: a missing volume is made whatever the store says.
VolumeMissing(u) == FALSE

\* ErrWorkerDataMissing
DataMissing(u) == initialized[u] /\ volume[u] = "none"

\* The volume is made, or found with the labels of the account.
EnsureVolume ==
    LET u == job.user
    IN  /\ job.pc = "volume"
        /\ \/ DataMissing(u) /\ Return /\ UNCHANGED volume
           \/ /\ ~DataMissing(u)
              /\ volume' = [volume EXCEPT ![u] = IF @ = "none" THEN "empty" ELSE @]
              /\ Go("mark") \/ Return
           \/ Return /\ UNCHANGED volume
        /\ UNCHANGED << store, box, allocations, closed, image, worked >>

\* MarkVolumeInitialized, before any container can use the volume.
EnsureMark ==
    LET u == job.user
    IN  /\ job.pc = "mark"
        /\ \/ /\ initialized' = [initialized EXCEPT ![u] = TRUE]
              /\ Go(IF job.exists THEN "inspect" ELSE "replace") \/ Return
           \/ Return /\ UNCHANGED initialized
        /\ UNCHANGED << gen, docker, allocations, closed, image, worked >>

\* The labels and the image a container must have to be used as it is.
Ours(u) == box[u].gen = gen[u] /\ box[u].image = image

\* Any other container is ErrWorkerOwnership; a stopped one is started.
EnsureInspect ==
    LET u == job.user
    IN  /\ job.pc = "inspect"
        /\ \/ /\ box[u].here /\ Ours(u)
              /\ box' = [box EXCEPT ![u].running = TRUE]
              /\ Go("probe") \/ Return
           \/ Return /\ UNCHANGED box
        /\ UNCHANGED << store, volume, allocations, closed, image, worked >>

\* ReplaceGeneration: a token is never used for two containers.
EnsureReplace ==
    LET u == job.user
    IN  /\ job.pc = "replace"
        /\ \/ /\ gen[u] < MaxGen
              /\ gen' = [gen EXCEPT ![u] = @ + 1]
              /\ Go("create") \/ Return
           \/ Return /\ UNCHANGED gen
        /\ UNCHANGED << initialized, docker, allocations, closed, image, worked >>

EnsureCreate ==
    LET u == job.user
    IN  /\ job.pc = "create"
        /\ \/ /\ box' = [box EXCEPT ![u] = [ here |-> TRUE, running |-> FALSE,
                                                  gen |-> gen[u], image |-> image ]]
              /\ Go("start") \/ Return
           \/ Return /\ UNCHANGED box
        /\ UNCHANGED << store, volume, allocations, closed, image, worked >>

EnsureStart ==
    LET u == job.user
    IN  /\ job.pc = "start"
        /\ \/ /\ box[u].here
              /\ box' = [box EXCEPT ![u].running = TRUE]
              /\ Go("probe") \/ Return
           \/ Return /\ UNCHANGED box
        /\ UNCHANGED << store, volume, allocations, closed, image, worked >>

\* The worker answers with its token, or 20 seconds pass.
EnsureProbe ==
    LET u == job.user
    IN  /\ job.pc = "probe" /\ Return
        /\ \/ /\ box[u].running
              /\ allocations' = [allocations EXCEPT ![u] = gen[u]]
           \/ UNCHANGED allocations
        /\ UNCHANGED << store, docker, closed, image, worked >>

\* Inspect: what the administrator is told, without allocating anything.
Inspect(u) ==
    IF gen[u] = 0 /\ ~initialized[u] THEN "not_allocated"
    ELSE IF DataMissing(u) \/ (box[u].here /\ ~Ours(u)) THEN "recovery_blocked"
    ELSE IF box[u].running THEN "running"
    ELSE "stopped"

-----------------------------------------------------------------------------
(* Close, and the world outside.                                             *)

\* Every running container is stopped; a stop may fail.
CloseWorkers ==
    /\ job = NoJob
    /\ closed' = TRUE
    /\ \E stopped \in SUBSET Boxes :
         box' = [u \in Users |-> IF u \in stopped THEN [box[u] EXCEPT !.running = FALSE] ELSE box[u]]
    /\ UNCHANGED << store, volume, allocations, image, job, worked >>

\* The controller ends, in the middle of Ensure too, and is started again, by a
\* deployment that may name another image; the containers are still there.
Restart ==
    /\ allocations' = [u \in Users |-> 0] /\ closed' = FALSE /\ job' = NoJob
    /\ image' \in Images
    /\ UNCHANGED << store, docker, worked >>

WorkerWrites(u) ==
    /\ box[u].running /\ volume[u] # "none"
    /\ volume' = [volume EXCEPT ![u] = "written"]
    /\ worked' = [worked EXCEPT ![u] = TRUE]
    /\ UNCHANGED << store, box, allocations, closed, image, job >>

WorkerDies(u) ==
    /\ box[u].running /\ box' = [box EXCEPT ![u].running = FALSE]
    /\ UNCHANGED << store, volume, allocations, closed, image, job, worked >>

\* An operator removes a container to free its place, or a volume is lost,
\* which Docker refuses while a container refers to it, and which is assumed
\* not to happen between the check of an Ensure and its create.
BoxRemoved(u) ==
    /\ box[u].here /\ box' = [box EXCEPT ![u] = NoBox]
    /\ UNCHANGED << store, volume, allocations, closed, image, job, worked >>

VolumeLost(u) ==
    /\ volume[u] # "none" /\ ~box[u].here
    /\ job # NoJob => job.user # u
    /\ volume' = [volume EXCEPT ![u] = "none"]
    /\ UNCHANGED << store, box, allocations, closed, image, job, worked >>

Next ==
    \/ EnsureList \/ EnsureVolume \/ EnsureMark \/ EnsureInspect \/ EnsureReplace
    \/ EnsureCreate \/ EnsureStart \/ EnsureProbe
    \/ CloseWorkers \/ Restart
    \/ \E u \in Users :
         \/ EnsureCached(u) \/ EnsureBegin(u)
         \/ WorkerWrites(u) \/ WorkerDies(u) \/ BoxRemoved(u) \/ VolumeLost(u)

Spec == Init /\ [][Next]_vars

-----------------------------------------------------------------------------
\* Whatever step the controller died at: data a worker has written is never
\* replaced by an empty volume (ErrWorkerDataMissing), and no container is left
\* that the deployment which made it must refuse (ErrWorkerOwnership), so that
\* recovery is blocked only if the volume is gone, or by a container of another
\* image, which an operator must remove.  An assignment holds the token of the
\* current generation, and the deployment stays in its limit.
WorkersRecoverable ==
    /\ Cardinality(Boxes) <= MaxWorkers
    /\ \A u \in Users :
         /\ worked[u] => volume[u] # "empty"
         /\ Inspect(u) = "recovery_blocked" =>
              volume[u] = "none" \/ (box[u].here /\ box[u].image # image)
         /\ allocations[u] \in { 0, gen[u] }
=============================================================================
