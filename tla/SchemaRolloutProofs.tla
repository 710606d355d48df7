-------------------------- MODULE SchemaRolloutProofs --------------------------
(***************************************************************************)
(* Theorems about SchemaRollout, for any number of pods, jobs, versions    *)
(* and commits, with and without the cache and the seeded digest.          *)
(*                                                                         *)
(* RepoInv is about the jobs and the repository, PodInv about the pods and *)
(* redis; they meet only in the digest that a pod is deployed with.        *)
(***************************************************************************)
EXTENDS SchemaRollout, TLAPS

\* The versions, and the repository, whose digest is that of versions there were.
RepoTypeOK ==
    /\ gsr \in 1 .. MaxVersion /\ legacy \in 1 .. MaxLegacy
    /\ repo \in [commits : 0 .. MaxCommits, digest : Digest]
    /\ repo.digest.gsr <= gsr /\ repo.digest.legacy <= legacy

JobAt == {"new", "cloned", "loading", "loaded", "committed", "refused", "rebased", "over"}

JobTypeOK ==
    job \in [Jobs -> [at : JobAt, base : Nat, was : {None} \cup Digest, gsr : Nat,
                      digest : {None} \cup Digest]]

\* What a clone holds is from the past; if nothing was committed since, it is what the
\* repository holds.
CloneOK(s) ==
    /\ s.at \notin {"new", "over"} =>
          s.was \in Digest /\ s.was.gsr <= gsr /\ s.was.legacy <= legacy /\ s.base <= repo.commits
    /\ s.at \in {"cloned", "loading", "loaded", "committed", "rebased"} /\ s.base = repo.commits =>
          s.was = repo.digest

\* What a job loaded is not older than what its clone holds.
LoadOK(s) ==
    /\ s.at = "loading" => s.was.gsr <= s.gsr /\ s.gsr <= gsr
    /\ s.at \in {"loaded", "committed", "refused", "rebased"} =>
          /\ s.digest \in Digest /\ s.digest.gsr <= gsr /\ s.digest.legacy <= legacy
          /\ s.was.gsr <= s.digest.gsr /\ s.was.legacy <= s.digest.legacy

RepoInv == RepoTypeOK /\ JobTypeOK /\ \A j \in Jobs : CloneOK(job[j]) /\ LoadOK(job[j])

PodAt == {"down", "gsr", "fallback", "get", "set", "setDigest", "setLast", "expire",
          "legacy", "forking"}

PodState == [at : PodAt, digest : {None} \cup Digest, manifest : {None} \cup Manifest,
             last : {None} \cup Digest]

\* A pod's digest names a schema there was, before the manifest it caches was loaded.
PodOK(s) ==
    /\ s \in PodState
    /\ s.digest # None => s.digest.gsr <= gsr
    /\ s.at \in {"get", "set", "setDigest"} /\ s.digest # None => s.manifest.gsr >= s.digest.gsr
    /\ s.at \in {"get", "set", "setDigest", "setLast", "expire", "legacy"} =>
          s.manifest \in Manifest /\ s.manifest.legacies = 0
    /\ s.at \in {"setDigest", "setLast"} => s.digest # None
    /\ s.at \in {"setLast", "expire"} => s.last # None

\* What is in redis: no copy is too old, and none holds legacy graphql.
RedisOK ==
    /\ redis \in Redis
    /\ redis.cache # None => redis.cache.legacies = 0
    /\ redis.expiring \subseteq {d \in Digest : redis.copies[d] # None}
    /\ CopiesAreNotOlder

\* The workers of a pod are forked after its file was written, and serve it.
FileOK(p) ==
    /\ pod[p].at = "forking" => file[p] \in Schema /\ file[p].legacies = 1
    /\ pod[p].at # "forking" => served[p] = {}
    /\ served[p] \subseteq {file[p]}

PodTypeOK ==
    /\ pod \in [Pods -> PodState]
    /\ file \in [Pods -> {None} \cup Schema]
    /\ served \in [Pods -> SUBSET Schema]

PodInv == RedisOK /\ PodTypeOK /\ \A p \in Pods : PodOK(pod[p]) /\ FileOK(p)

IInv == RepoInv /\ PodInv

-----------------------------------------------------------------------------
(* The jobs and the repository.                                            *)

\* Nothing has been loaded yet.
LEMMA RepoInit == Init => RepoInv
  <1> SUFFICES ASSUME Init PROVE RepoInv OBVIOUS
  <1>1. First \in Digest /\ First.gsr = 1 /\ First.legacy = 1
    BY RolloutAssumption DEF First, Digest, RolloutAssumption
  <1>2. gsr = 1 /\ legacy = 1 /\ repo = [commits |-> 0, digest |-> First] BY DEF Init
  <1>3. RepoTypeOK
    BY <1>1, <1>2, RolloutAssumption DEF RepoTypeOK, RolloutAssumption
  <1>4. JobTypeOK BY DEF Init, JobTypeOK, NewJob, JobAt
  <1>5. \A j \in Jobs : job[j].at = "new" BY DEF Init, NewJob
  <1>6. QED BY <1>3, <1>4, <1>5 DEF RepoInv, CloneOK, LoadOK

\* Versions only grow.
LEMMA PublishRepo == ASSUME RepoInv, Publish PROVE RepoInv'
  <1> USE RolloutAssumption DEF RolloutAssumption, RepoInv, Publish
  <1>1. RepoTypeOK' BY DEF RepoTypeOK, Digest
  <1>2. JobTypeOK' BY DEF JobTypeOK
  <1>3. \A j \in Jobs : CloneOK(job[j])' /\ LoadOK(job[j])'
    <2> SUFFICES ASSUME NEW j \in Jobs PROVE CloneOK(job[j])' /\ LoadOK(job[j])' OBVIOUS
    <2>1. /\ gsr \in Nat /\ legacy \in Nat /\ gsr' \in Nat /\ legacy' \in Nat
          /\ gsr <= gsr' /\ legacy <= legacy'
      BY DEF RepoTypeOK
    <2>2. job[j].gsr \in Nat BY DEF JobTypeOK
    <2>3. CloneOK(job[j]) /\ LoadOK(job[j]) OBVIOUS
    <2>4. QED BY <2>1, <2>2, <2>3 DEF CloneOK, LoadOK, Digest
  <1>4. QED BY <1>1, <1>2, <1>3

\* A step of a job that leaves the repository as it is.
LEMMA JobStepRepo ==
    ASSUME RepoInv, NEW j \in Jobs, NEW new, job' = [job EXCEPT ![j] = new],
           new \in [at : JobAt, base : Nat, was : {None} \cup Digest, gsr : Nat,
                    digest : {None} \cup Digest],
           CloneOK(new), LoadOK(new), UNCHANGED <<world, repo>>
    PROVE  RepoInv'
  <1>1. RepoTypeOK' /\ JobTypeOK' BY DEF RepoInv, RepoTypeOK, JobTypeOK, world
  <1>2. \A i \in Jobs : job'[i] = IF i = j THEN new ELSE job[i] BY DEF RepoInv, JobTypeOK
  <1>3. \A i \in Jobs : CloneOK(job'[i]) /\ LoadOK(job'[i]) BY <1>2 DEF RepoInv
  <1>4. \A i \in Jobs : CloneOK(job[i])' /\ LoadOK(job[i])'
    BY <1>3 DEF CloneOK, LoadOK, world
  <1>5. QED BY <1>1, <1>4 DEF RepoInv

\* A push that is accepted: nothing was committed since the clone, so that the digest
\* pushed is not older than the one it replaces.
LEMMA AcceptedGoesForward ==
    ASSUME RepoInv, NEW j \in Jobs, job[j].at \in {"committed", "rebased"}, Accepted(j)
    PROVE  /\ repo' = [commits |-> repo.commits + 1, digest |-> job[j].digest]
           /\ job[j].digest \in Digest
           /\ job[j].digest.gsr >= repo.digest.gsr /\ job[j].digest.legacy >= repo.digest.legacy
           /\ repo.commits < MaxCommits
  BY DEF RepoInv, RepoTypeOK, CloneOK, LoadOK, Accepted, Digest

\* The clones of all other jobs are then out of date.
LEMMA AcceptedRepo ==
    ASSUME RepoInv, NEW j \in Jobs, job[j].at \in {"committed", "rebased"}, Accepted(j),
           job' = [job EXCEPT ![j] = Over], UNCHANGED world
    PROVE  RepoInv'
  <1>1. /\ repo' = [commits |-> repo.commits + 1, digest |-> job[j].digest]
        /\ job[j].digest \in Digest /\ repo.commits < MaxCommits
    BY AcceptedGoesForward
  <1>2. /\ repo.commits \in 0 .. MaxCommits /\ repo'.commits = repo.commits + 1
        /\ repo'.digest = job[j].digest
    BY <1>1 DEF RepoInv, RepoTypeOK
  <1>3. job[j].digest.gsr <= gsr /\ job[j].digest.legacy <= legacy BY DEF RepoInv, LoadOK
  <1>4. RepoTypeOK'
    BY <1>1, <1>2, <1>3, RolloutAssumption DEF RepoInv, RepoTypeOK, world, RolloutAssumption
  <1>5. Over.at = "over" /\ Over \in [at : JobAt, base : Nat, was : {None} \cup Digest,
                                      gsr : Nat, digest : {None} \cup Digest]
    BY DEF Over, NewJob, JobAt
  <1>6. JobTypeOK' BY <1>5 DEF RepoInv, JobTypeOK
  <1>7. ASSUME NEW i \in Jobs PROVE CloneOK(job[i])' /\ LoadOK(job[i])'
    <2>1. CASE i = j
      <3>1. job'[i] = Over BY <2>1 DEF RepoInv, JobTypeOK
      <3>2. QED BY <3>1, <1>5 DEF CloneOK, LoadOK
    <2>2. CASE i # j
      <3>1. job'[i] = job[i] /\ job[i].base \in Nat BY <2>2 DEF RepoInv, JobTypeOK
      <3>2. CloneOK(job[i]) /\ LoadOK(job[i]) BY DEF RepoInv
      <3>3. QED
        BY <3>1, <3>2, <1>2, RolloutAssumption DEF CloneOK, LoadOK, world, RolloutAssumption
    <2>3. QED BY <2>1, <2>2
  <1>8. QED BY <1>4, <1>6, <1>7 DEF RepoInv

\* So are they when somebody else commits.
LEMMA CommitElsewhereRepo == ASSUME RepoInv, CommitElsewhere PROVE RepoInv'
  <1> USE DEF RepoInv, CommitElsewhere
  <1>1. /\ repo.commits \in 0 .. MaxCommits /\ repo'.commits = repo.commits + 1
        /\ repo'.digest = repo.digest /\ repo' \in [commits : 0 .. MaxCommits, digest : Digest]
    BY RolloutAssumption DEF RepoTypeOK, RolloutAssumption
  <1>2. RepoTypeOK' /\ JobTypeOK' BY <1>1 DEF RepoTypeOK, JobTypeOK, world
  <1>3. ASSUME NEW i \in Jobs PROVE CloneOK(job[i])' /\ LoadOK(job[i])'
    <2>1. job[i].base \in Nat BY DEF JobTypeOK
    <2>2. CloneOK(job[i]) /\ LoadOK(job[i]) OBVIOUS
    <2>3. QED
      BY <2>1, <2>2, <1>1, RolloutAssumption DEF CloneOK, LoadOK, world, RolloutAssumption
  <1>4. QED BY <1>2, <1>3

\* A step of a job.
LEMMA UpdateSchemaRepo == ASSUME RepoInv, NEW j \in Jobs, UpdateSchema(j) PROVE RepoInv'
  <1> DEFINE J == [at : JobAt, base : Nat, was : {None} \cup Digest, gsr : Nat,
                   digest : {None} \cup Digest]
             s == job[j]
  <1>1. s \in J /\ CloneOK(s) /\ LoadOK(s) BY DEF RepoInv, JobTypeOK
  <1>2. /\ gsr \in 1 .. MaxVersion /\ legacy \in 1 .. MaxLegacy /\ gsr \in Nat
        /\ repo.commits \in Nat /\ repo.digest \in Digest /\ repo.digest.gsr <= gsr /\ repo.digest.legacy <= legacy
    BY RolloutAssumption DEF RepoInv, RepoTypeOK, RolloutAssumption
  <1>3. Over \in J /\ CloneOK(Over) /\ LoadOK(Over)
    BY DEF Over, NewJob, JobAt, CloneOK, LoadOK
  <1>4. CASE Clone(j)
    <2> DEFINE n == [s EXCEPT !.at = "cloned", !.base = repo.commits, !.was = repo.digest]
    <2>1. n \in J /\ n.at = "cloned" /\ n.base = repo.commits /\ n.was = repo.digest
      BY <1>1, <1>2 DEF JobAt
    <2>2. job' = [job EXCEPT ![j] = n] /\ UNCHANGED <<world, repo>>
      BY <1>4 DEF Clone, JobStep
    <2> HIDE DEF n
    <2>3. CloneOK(n) /\ LoadOK(n) BY <2>1, <1>2 DEF CloneOK, LoadOK
    <2>4. QED BY <2>1, <2>2, <2>3, JobStepRepo
  <1>5. CASE JobLoads(j)
    <2>1. CASE JobStep(j, "cloned", [s EXCEPT !.at = "loading", !.gsr = gsr])
      <3> DEFINE n == [s EXCEPT !.at = "loading", !.gsr = gsr]
      <3>1. /\ n \in J /\ n.at = "loading" /\ n.gsr = gsr /\ n.was = s.was /\ n.base = s.base
        BY <1>1, <1>2 DEF JobAt
      <3>2. s.at = "cloned" /\ job' = [job EXCEPT ![j] = n] /\ UNCHANGED <<world, repo>>
        BY <1>5, <2>1 DEF JobLoads, JobStep
      <3> HIDE DEF n
      <3>3. CloneOK(n) /\ LoadOK(n) BY <3>1, <3>2, <1>1, <1>2 DEF CloneOK, LoadOK
      <3>4. QED BY <3>1, <3>2, <3>3, JobStepRepo
    <2>2. CASE JobStep(j, "loading",
                       [s EXCEPT !.at = "loaded", !.digest = [gsr |-> s.gsr, legacy |-> legacy]])
      <3> DEFINE n == [s EXCEPT !.at = "loaded", !.digest = [gsr |-> s.gsr, legacy |-> legacy]]
                 d == [gsr |-> s.gsr, legacy |-> legacy]
      <3>1. s.at = "loading" /\ job' = [job EXCEPT ![j] = n] /\ UNCHANGED <<world, repo>>
        BY <1>5, <2>2 DEF JobLoads, JobStep
      <3>2. s.was \in Digest /\ s.was.gsr <= s.gsr /\ s.gsr <= gsr /\ s.gsr \in Nat
        BY <3>1, <1>1 DEF CloneOK, LoadOK
      <3>3. d \in Digest /\ d.gsr = s.gsr /\ d.legacy = legacy
        BY <3>2, <1>2, RolloutAssumption DEF Digest, RolloutAssumption
      <3>4. n \in J /\ n.at = "loaded" /\ n.digest = d /\ n.was = s.was /\ n.base = s.base
        BY <3>3, <1>1 DEF JobAt
      <3> HIDE DEF n, d
      <3>5. CloneOK(n) /\ LoadOK(n)
        BY <3>1, <3>2, <3>3, <3>4, <1>1, <1>2 DEF CloneOK, LoadOK
      <3>6. QED BY <3>1, <3>4, <3>5, JobStepRepo
    <2>3. QED BY <1>5, <2>1, <2>2 DEF JobLoads
  <1>6. ASSUME job' = [job EXCEPT ![j] = Over], UNCHANGED <<world, repo>> PROVE RepoInv'
    BY <1>3, <1>6, JobStepRepo
  <1>7. CASE Commit(j)
    <2>1. CASE job' = [job EXCEPT ![j] = Over] BY <2>1, <1>6, <1>7 DEF Commit, JobStep
    <2>2. CASE job' = [job EXCEPT ![j] = [s EXCEPT !.at = "committed"]]
      <3> DEFINE n == [s EXCEPT !.at = "committed"]
      <3>1. /\ n \in J /\ n.at = "committed" /\ n.base = s.base /\ n.was = s.was
            /\ n.digest = s.digest
        BY <1>1, <1>2 DEF JobAt
      <3>2. s.at = "loaded" /\ job' = [job EXCEPT ![j] = n] /\ UNCHANGED <<world, repo>>
        BY <2>2, <1>7 DEF Commit, JobStep
      <3> HIDE DEF n
      <3>3. CloneOK(n) /\ LoadOK(n) BY <3>1, <3>2, <1>1, <1>2 DEF CloneOK, LoadOK
      <3>4. QED BY <3>1, <3>2, <3>3, JobStepRepo
    <2>3. QED BY <2>1, <2>2, <1>7 DEF Commit, JobStep
  <1>8. CASE Push(j)
    <2>1. CASE JobStep(j, "committed", Over) /\ Accepted(j)
      BY <2>1, AcceptedRepo DEF JobStep
    <2>2. CASE JobStep(j, "committed", [s EXCEPT !.at = "refused"]) /\ UNCHANGED repo
      <3> DEFINE n == [s EXCEPT !.at = "refused"]
      <3>1. /\ n \in J /\ n.at = "refused" /\ n.base = s.base /\ n.was = s.was
            /\ n.digest = s.digest
        BY <1>1, <1>2 DEF JobAt
      <3>2. s.at = "committed" /\ job' = [job EXCEPT ![j] = n] /\ UNCHANGED <<world, repo>>
        BY <2>2 DEF JobStep
      <3> HIDE DEF n
      <3>3. CloneOK(n) /\ LoadOK(n) BY <3>1, <3>2, <1>1, <1>2 DEF CloneOK, LoadOK
      <3>4. QED BY <3>1, <3>2, <3>3, JobStepRepo
    <2>3. QED BY <2>1, <2>2, <1>8 DEF Push
  <1>9. CASE Rebase(j)
    <2>1. CASE repo.digest = s.was
      <3> DEFINE n == [s EXCEPT !.at = "rebased", !.base = repo.commits]
      <3>1. /\ n \in J /\ n.at = "rebased" /\ n.base = repo.commits /\ n.was = s.was
            /\ n.digest = s.digest
        BY <1>1, <1>2 DEF JobAt
      <3>2. s.at = "refused" /\ job' = [job EXCEPT ![j] = n] /\ UNCHANGED <<world, repo>>
        BY <2>1, <1>9 DEF Rebase, JobStep
      <3> HIDE DEF n
      <3>3. CloneOK(n) /\ LoadOK(n) BY <3>1, <3>2, <1>1, <1>2, <2>1 DEF CloneOK, LoadOK
      <3>4. QED BY <3>1, <3>2, <3>3, JobStepRepo
    <2>2. CASE repo.digest # s.was BY <2>2, <1>6, <1>9 DEF Rebase, JobStep
    <2>3. QED BY <2>1, <2>2
  <1>10. CASE PushAgain(j)
    <2>1. CASE JobStep(j, "rebased", Over) /\ Accepted(j)
      BY <2>1, AcceptedRepo DEF JobStep
    <2>2. CASE JobStep(j, "rebased", Over) /\ UNCHANGED repo
      BY <2>2, <1>6 DEF JobStep
    <2>3. QED BY <2>1, <2>2, <1>10 DEF PushAgain
  <1>11. QED BY <1>4, <1>5, <1>7, <1>8, <1>9, <1>10 DEF UpdateSchema

-----------------------------------------------------------------------------
(* The pods and redis.                                                     *)

\* No pod has started, and redis is empty.
LEMMA PodInit == Init => PodInv
  <1> SUFFICES ASSUME Init PROVE PodInv OBVIOUS
  <1> DEFINE l == IF Seeded THEN First ELSE None
             c == [d \in Digest |-> None]
  <1>1. First \in Digest BY RolloutAssumption DEF First, Digest, RolloutAssumption
  <1>2. redis = [cache |-> None, last |-> l, copies |-> c, expiring |-> {}] BY DEF Init
  <1>3. l \in Digest \cup {None} /\ c \in [Digest -> Manifest \cup {None}] BY <1>1
  <1>4. \A d \in Digest : c[d] = None OBVIOUS
  <1> HIDE DEF l, c
  <1>5. redis \in Redis /\ redis.cache = None /\ redis.expiring = {} /\ redis.copies = c
    BY <1>2, <1>3 DEF Redis
  <1>6. RedisOK BY <1>4, <1>5 DEF RedisOK, CopiesAreNotOlder
  <1>7. NewPod \in PodState /\ NewPod.at = "down" /\ NewPod.digest = None
    BY DEF NewPod, PodState, PodAt
  <1>8. PodTypeOK BY <1>7 DEF Init, PodTypeOK
  <1>9. \A p \in Pods : PodOK(pod[p]) /\ FileOK(p)
    BY <1>7 DEF Init, PodOK, FileOK
  <1>10. QED BY <1>6, <1>8, <1>9 DEF PodInv

\* A step of one pod that leaves files and workers as they are.
LEMMA PodStepInv ==
    ASSUME PodInv, RedisOK', NEW p \in Pods, NEW new \in PodState, PodOK(new),
           pod' = [pod EXCEPT ![p] = new], new.at # "forking", pod[p].at # "forking",
           UNCHANGED <<gsr, file, served>>
    PROVE  PodInv'
  <1>1. PodTypeOK' BY DEF PodInv, PodTypeOK
  <1>2. \A q \in Pods : pod'[q] = IF q = p THEN new ELSE pod[q] BY DEF PodInv, PodTypeOK
  <1>3. \A q \in Pods : PodOK(pod'[q]) BY <1>2 DEF PodInv
  <1>4. \A q \in Pods : PodOK(pod[q])' BY <1>3 DEF PodOK
  <1>5. \A q \in Pods : FileOK(q)' BY <1>2 DEF PodInv, FileOK
  <1>6. QED BY <1>1, <1>4, <1>5 DEF PodInv

\* Most steps of loadSupergraph only go on; what must hold at the next step of a pod with
\* these fields holds already.
LEMMA GoesInv ==
    ASSUME PodInv, RedisOK', NEW p \in Pods, NEW to \in PodAt \ {"forking"},
           pod' = [pod EXCEPT ![p] = Ahead(pod[p], to)], pod[p].at # "forking",
           pod[p].at \in {"get", "set", "setDigest", "setLast", "expire"} \/ to = "fallback",
           to = "setDigest" => pod[p].at = "set" /\ pod[p].digest # None,
           to = "setLast" => pod[p].at = "setDigest" /\ pod[p].last # None,
           to = "expire" => pod[p].at = "setLast",
           to \notin {"get", "set"},
           UNCHANGED <<gsr, file, served>>
    PROVE  PodInv'
  <1> DEFINE new == Ahead(pod[p], to)
  <1>1. pod[p] \in PodState /\ PodOK(pod[p]) BY DEF PodInv, PodTypeOK
  <1>2. /\ new \in PodState /\ new.at = to /\ new.digest = pod[p].digest
        /\ new.manifest = pod[p].manifest
        /\ new.last = IF to = "legacy" THEN None ELSE pod[p].last
    BY <1>1 DEF PodState, Ahead
  <1> HIDE DEF new
  <1>3. PodOK(new) BY <1>1, <1>2 DEF PodOK
  <1>4. pod' = [pod EXCEPT ![p] = new] BY DEF new
  <1>5. QED BY <1>2, <1>3, <1>4, PodStepInv

\* A pod is deployed with a digest of the past.
LEMMA DeployInv == ASSUME RepoInv, PodInv, NEW p \in Pods, Deploy(p) PROVE PodInv'
  <1>1. PICK d \in {repo.digest, None} :
            pod[p].at = "down" /\ pod' = [pod EXCEPT ![p] = [NewPod EXCEPT !.at = "gsr", !.digest = d]]
    BY DEF Deploy, Becomes
  <1> DEFINE new == [NewPod EXCEPT !.at = "gsr", !.digest = d]
  <1>2. d \in {None} \cup Digest /\ (d # None => d.gsr <= gsr) BY DEF RepoInv, RepoTypeOK
  <1>3. new \in PodState /\ new.at = "gsr" /\ new.digest = d
    BY <1>2 DEF NewPod, PodState, PodAt
  <1>4. pod' = [pod EXCEPT ![p] = new] BY <1>1
  <1> HIDE DEF new
  <1>5. PodOK(new) BY <1>2, <1>3 DEF PodOK
  <1>6. UNCHANGED <<gsr, redis, file, served>> BY DEF Deploy, Becomes, world
  <1>7. RedisOK' BY <1>6 DEF PodInv, RedisOK, CopiesAreNotOlder
  <1>8. QED BY <1>1, <1>3, <1>4, <1>5, <1>6, <1>7, PodStepInv

\* Its container is restarted with the digest it had.
LEMMA RestartInv == ASSUME PodInv, NEW p \in Pods, Restart(p) PROVE PodInv'
  <1>1. PICK at \in {"gsr", "down"} :
            pod' = [pod EXCEPT ![p] = [NewPod EXCEPT !.at = at,
                                       !.digest = IF at = "gsr" THEN pod[p].digest ELSE None]]
    BY DEF Restart
  <1> DEFINE d == IF at = "gsr" THEN pod[p].digest ELSE None
             new == [NewPod EXCEPT !.at = at, !.digest = d]
  <1>2. pod[p] \in PodState /\ PodOK(pod[p]) BY DEF PodInv, PodTypeOK
  <1>3. d \in {None} \cup Digest /\ (d # None => d.gsr <= gsr) BY <1>2 DEF PodOK, PodState
  <1>4. pod' = [pod EXCEPT ![p] = new] BY <1>1
  <1> HIDE DEF d
  <1>5. new \in PodState /\ new.at = at /\ new.digest = d
    BY <1>3 DEF NewPod, PodState, PodAt
  <1> HIDE DEF new
  <1>6. PodOK(new) BY <1>3, <1>5 DEF PodOK
  <1>7. /\ UNCHANGED <<gsr, redis>> /\ served' = [served EXCEPT ![p] = {}]
        /\ file' = [file EXCEPT ![p] = None]
    BY DEF Restart, world
  <1>8. RedisOK' BY <1>7 DEF PodInv, RedisOK, CopiesAreNotOlder
  <1>9. PodTypeOK' BY <1>4, <1>5, <1>7 DEF PodInv, PodTypeOK
  <1>10. ASSUME NEW q \in Pods PROVE PodOK(pod[q])' /\ FileOK(q)'
    <2>1. CASE q = p
      <3>1. pod'[q] = new /\ served'[q] = {} BY <2>1, <1>4, <1>7 DEF PodInv, PodTypeOK
      <3>2. QED BY <3>1, <1>5, <1>6, <1>7 DEF PodOK, FileOK
    <2>2. CASE q # p
      <3>1. pod'[q] = pod[q] /\ served'[q] = served[q] /\ file'[q] = file[q]
        BY <2>2, <1>4, <1>7 DEF PodInv, PodTypeOK
      <3>2. PodOK(pod[q]) /\ FileOK(q) BY DEF PodInv
      <3>3. QED BY <3>1, <3>2, <1>7 DEF PodOK, FileOK
    <2>3. QED BY <2>1, <2>2
  <1>11. QED BY <1>8, <1>9, <1>10 DEF PodInv

\* The registry holds what the digest names, or newer.
LEMMA GsrInv == ASSUME RepoInv, PodInv, NEW p \in Pods, LoadSupergraphFromGsr(p) PROVE PodInv'
  <1>1. UNCHANGED <<gsr, redis, file, served>> /\ pod[p].at = "gsr"
    BY DEF LoadSupergraphFromGsr, Goes, Becomes, world
  <1>2. RedisOK' BY <1>1 DEF PodInv, RedisOK, CopiesAreNotOlder
  <1>3. pod[p] \in PodState /\ PodOK(pod[p]) BY DEF PodInv, PodTypeOK
  <1>4. CASE pod' = [pod EXCEPT ![p] = [pod[p] EXCEPT !.at = "get", !.manifest = FromGsr]]
    <2> DEFINE new == [pod[p] EXCEPT !.at = "get", !.manifest = FromGsr]
    <2>1. FromGsr \in Manifest /\ FromGsr.gsr = gsr /\ FromGsr.legacies = 0
      BY DEF FromGsr, Manifest, RepoInv, RepoTypeOK
    <2>2. /\ new \in PodState /\ new.at = "get" /\ new.digest = pod[p].digest
          /\ new.manifest = FromGsr
      BY <1>3, <2>1 DEF PodState, PodAt
    <2>3. pod' = [pod EXCEPT ![p] = new] BY <1>4
    <2> HIDE DEF new
    <2>4. PodOK(new) BY <1>3, <2>1, <2>2 DEF PodOK
    <2>5. QED BY <1>1, <1>2, <2>2, <2>3, <2>4, PodStepInv
  <1>5. CASE Goes(p, "gsr", "fallback")
    <2>1. pod' = [pod EXCEPT ![p] = Ahead(pod[p], "fallback")] BY <1>5 DEF Goes, Becomes
    <2> DEFINE to == "fallback"
    <2>2. /\ to \in PodAt \ {"forking"}
          /\ to \notin {"get", "set", "setDigest", "setLast", "expire"}
      BY DEF PodAt
    <2>3. pod' = [pod EXCEPT ![p] = Ahead(pod[p], to)] /\ to = "fallback" BY <2>1
    <2> HIDE DEF to
    <2>4. QED BY <1>1, <1>2, <2>2, <2>3, GoesInv
  <1>6. QED BY <1>4, <1>5 DEF LoadSupergraphFromGsr, Becomes

\* The cache holds no legacy graphql, and what comes from it is not kept as a copy.
LEMMA FromCacheInv == ASSUME PodInv, NEW p \in Pods, LoadSchemaFromCache(p) PROVE PodInv'
  <1> DEFINE new == [pod[p] EXCEPT !.at = "legacy", !.manifest = redis.cache]
  <1>1. /\ UNCHANGED <<gsr, redis, file, served>> /\ pod[p].at = "fallback"
        /\ pod' = [pod EXCEPT ![p] = new] /\ redis.cache # None
    BY DEF LoadSchemaFromCache, Becomes, world, AfterFallback
  <1>2. RedisOK' BY <1>1 DEF PodInv, RedisOK, CopiesAreNotOlder
  <1>3. pod[p] \in PodState /\ PodOK(pod[p]) BY DEF PodInv, PodTypeOK
  <1>4. redis.cache \in Manifest /\ redis.cache.legacies = 0
    BY <1>1 DEF PodInv, RedisOK, Redis
  <1>5. /\ new \in PodState /\ new.at = "legacy" /\ new.digest = pod[p].digest
        /\ new.manifest = redis.cache
    BY <1>3, <1>4 DEF PodState, PodAt
  <1> HIDE DEF new
  <1>6. PodOK(new) BY <1>3, <1>4, <1>5 DEF PodOK
  <1>7. QED BY <1>1, <1>2, <1>5, <1>6, PodStepInv

\* The last digest is read.
LEMMA GetLastInv == ASSUME PodInv, NEW p \in Pods, GetLastDigest(p) PROVE PodInv'
  <1> DEFINE new == [pod[p] EXCEPT !.at = "set", !.last = redis.last]
  <1>1. /\ UNCHANGED <<gsr, redis, file, served>> /\ pod[p].at = "get"
        /\ pod' = [pod EXCEPT ![p] = new]
    BY DEF GetLastDigest, Becomes, world
  <1>2. RedisOK' BY <1>1 DEF PodInv, RedisOK, CopiesAreNotOlder
  <1>3. pod[p] \in PodState /\ PodOK(pod[p]) BY DEF PodInv, PodTypeOK
  <1>4. redis.last \in {None} \cup Digest BY DEF PodInv, RedisOK, Redis
  <1>5. /\ new \in PodState /\ new.at = "set" /\ new.digest = pod[p].digest
        /\ new.manifest = pod[p].manifest
    BY <1>3, <1>4 DEF PodState, PodAt
  <1> HIDE DEF new
  <1>6. PodOK(new) BY <1>1, <1>3, <1>5 DEF PodOK
  <1>7. QED BY <1>1, <1>2, <1>5, <1>6, PodStepInv

\* The manifest becomes the cache, without legacy graphql.
LEMMA SetCacheInv == ASSUME PodInv, NEW p \in Pods, SetCache(p) PROVE PodInv'
  <1> DEFINE to == IF pod[p].digest = None THEN "legacy" ELSE "setDigest"
  <1>1. pod[p] \in PodState /\ PodOK(pod[p]) BY DEF PodInv, PodTypeOK
  <1>2. /\ UNCHANGED <<gsr, file, served>> /\ pod[p].at = "set"
        /\ pod' = [pod EXCEPT ![p] = Ahead(pod[p], to)]
        /\ redis' = [redis EXCEPT !.cache = pod[p].manifest]
    BY DEF SetCache, Goes, Becomes, world
  <1>3. pod[p].manifest \in Manifest /\ pod[p].manifest.legacies = 0
    BY <1>1, <1>2 DEF PodOK
  <1>4. redis \in Redis BY DEF PodInv, RedisOK
  <1>5. /\ redis' \in Redis /\ redis'.cache = pod[p].manifest
        /\ redis'.copies = redis.copies /\ redis'.expiring = redis.expiring
    BY <1>2, <1>3, <1>4 DEF Redis
  <1>6. RedisOK' BY <1>3, <1>5 DEF PodInv, RedisOK, CopiesAreNotOlder
  <1>7. /\ to \in PodAt \ {"forking"} /\ to \notin {"get", "set", "setLast", "expire"}
        /\ to = "setDigest" => pod[p].digest # None
    BY DEF PodAt
  <1> HIDE DEF to
  <1>8. QED BY <1>2, <1>6, <1>7, GoesInv

\* The copy under the pod's digest is replaced by one that is not older than the digest.
LEMMA SetDigestInv == ASSUME PodInv, NEW p \in Pods, SetDigest(p) PROVE PodInv'
  <1> DEFINE s == pod[p]
             to == IF s.last \in {None, s.digest} THEN "legacy" ELSE "setLast"
  <1>1. s \in PodState /\ PodOK(s) BY DEF PodInv, PodTypeOK
  <1>2. /\ UNCHANGED <<gsr, file, served>> /\ s.at = "setDigest"
        /\ pod' = [pod EXCEPT ![p] = Ahead(s, to)]
        /\ redis' = [redis EXCEPT !.copies[s.digest] = s.manifest,
                                  !.expiring = @ \ {s.digest}]
    BY DEF SetDigest, Goes, Becomes, world
  <1>3. /\ s.manifest \in Manifest /\ s.digest # None /\ s.digest \in Digest
        /\ s.manifest.gsr >= s.digest.gsr
    BY <1>1, <1>2 DEF PodOK, PodState
  <1>4. redis \in Redis BY DEF PodInv, RedisOK
  <1>5. /\ redis' \in Redis /\ redis'.cache = redis.cache
        /\ redis'.copies = [redis.copies EXCEPT ![s.digest] = s.manifest]
        /\ redis'.expiring = redis.expiring \ {s.digest}
    BY <1>2, <1>3, <1>4 DEF Redis
  <1>6. \A d \in Digest : redis'.copies[d] = IF d = s.digest THEN s.manifest ELSE redis.copies[d]
    BY <1>3, <1>4, <1>5 DEF Redis
  <1>7. RedisOK' BY <1>3, <1>5, <1>6 DEF PodInv, RedisOK, CopiesAreNotOlder
  <1>8. /\ to \in PodAt \ {"forking"} /\ to \notin {"get", "set", "setDigest", "expire"}
        /\ to = "setLast" => s.last # None
    BY DEF PodAt
  <1> HIDE DEF to
  <1>9. QED BY <1>2, <1>7, <1>8, GoesInv

\* The last digest is replaced.
LEMMA SetLastInv == ASSUME PodInv, NEW p \in Pods, SetLastDigest(p) PROVE PodInv'
  <1>1. pod[p] \in PodState /\ PodOK(pod[p]) BY DEF PodInv, PodTypeOK
  <1>2. /\ UNCHANGED <<gsr, file, served>> /\ pod[p].at = "setLast"
        /\ pod' = [pod EXCEPT ![p] = Ahead(pod[p], "expire")]
        /\ redis' = [redis EXCEPT !.last = pod[p].digest]
    BY DEF SetLastDigest, Goes, Becomes, world
  <1>3. redis \in Redis /\ pod[p].digest \in Digest \cup {None}
    BY <1>1 DEF PodInv, RedisOK, PodState
  <1>4. /\ redis' \in Redis /\ redis'.cache = redis.cache
        /\ redis'.copies = redis.copies /\ redis'.expiring = redis.expiring
    BY <1>2, <1>3 DEF Redis
  <1>5. RedisOK' BY <1>4 DEF PodInv, RedisOK, CopiesAreNotOlder
  <1> DEFINE to == "expire"
  <1>6. /\ to \in PodAt \ {"forking"} /\ to \notin {"get", "set", "setDigest", "setLast"}
    BY DEF PodAt
  <1>7. pod' = [pod EXCEPT ![p] = Ahead(pod[p], to)] BY <1>2
  <1> HIDE DEF to
  <1>8. QED BY <1>2, <1>5, <1>6, <1>7, GoesInv

\* The copy under the digest before expires, if there is one.
LEMMA ExpireLastInv == ASSUME PodInv, NEW p \in Pods, ExpireLast(p) PROVE PodInv'
  <1> DEFINE l == pod[p].last
  <1>1. pod[p] \in PodState /\ PodOK(pod[p]) BY DEF PodInv, PodTypeOK
  <1>2. /\ UNCHANGED <<gsr, file, served>> /\ pod[p].at = "expire"
        /\ pod' = [pod EXCEPT ![p] = Ahead(pod[p], "legacy")]
        /\ redis' = IF redis.copies[l] = None THEN redis
                    ELSE [redis EXCEPT !.expiring = @ \cup {l}]
    BY DEF ExpireLast, Goes, Becomes, world
  <1>3. redis \in Redis /\ l \in Digest
    BY <1>1, <1>2 DEF PodInv, RedisOK, PodOK, PodState
  <1>4. /\ redis' \in Redis /\ redis'.cache = redis.cache /\ redis'.copies = redis.copies
        /\ redis'.expiring \subseteq redis.expiring \cup ({l} \ {d \in Digest : redis.copies[d] = None})
    BY <1>2, <1>3 DEF Redis
  <1>5. RedisOK' BY <1>3, <1>4 DEF PodInv, RedisOK, CopiesAreNotOlder
  <1> DEFINE to == "legacy"
  <1>6. /\ to \in PodAt \ {"forking"} /\ to \notin {"get", "set", "setDigest", "setLast", "expire"}
    BY DEF PodAt
  <1>7. pod' = [pod EXCEPT ![p] = Ahead(pod[p], to)] BY <1>2
  <1> HIDE DEF to
  <1>8. QED BY <1>2, <1>5, <1>6, <1>7, GoesInv

\* Redis fails, and the rest of its commands are given up.
LEMMA RedisFailsInv == ASSUME PodInv, NEW p \in Pods, RedisFails(p) PROVE PodInv'
  <1>1. PICK at \in {"get", "set", "setDigest", "setLast", "expire"} : Goes(p, at, "legacy")
    BY DEF RedisFails
  <1>2. /\ UNCHANGED <<gsr, redis, file, served>> /\ pod[p].at = at
        /\ pod' = [pod EXCEPT ![p] = Ahead(pod[p], "legacy")]
    BY <1>1 DEF RedisFails, Goes, Becomes, world
  <1>3. RedisOK' BY <1>2 DEF PodInv, RedisOK, CopiesAreNotOlder
  <1> DEFINE to == "legacy"
  <1>4. to \in PodAt \ {"forking"} /\ to \notin {"get", "set", "setDigest", "setLast", "expire"}
    BY DEF PodAt
  <1>5. pod' = [pod EXCEPT ![p] = Ahead(pod[p], to)] BY <1>2
  <1>6. pod[p].at \in {"get", "set", "setDigest", "setLast", "expire"} /\ pod[p].at # "forking"
    BY <1>2
  <1> HIDE DEF to
  <1>7. QED BY <1>2, <1>3, <1>4, <1>5, <1>6, GoesInv

\* A step that leaves the pods alone, and redis in order.
LEMMA OthersInv ==
    ASSUME RepoInv, RepoInv', PodInv, RedisOK', UNCHANGED <<pod, file, served>>, gsr <= gsr'
    PROVE  PodInv'
  <1>1. PodTypeOK' BY DEF PodInv, PodTypeOK
  <1>2. gsr \in Nat /\ gsr' \in Nat
    BY RolloutAssumption DEF RepoInv, RepoTypeOK, RolloutAssumption
  <1>3. ASSUME NEW q \in Pods PROVE PodOK(pod[q])' /\ FileOK(q)'
    <2>1. PodOK(pod[q]) /\ FileOK(q) BY DEF PodInv
    <2>2. pod[q].digest # None => pod[q].digest.gsr \in Nat
      BY <2>1 DEF PodOK, PodState, Digest
    <2>3. QED BY <2>1, <2>2, <1>2 DEF PodOK, FileOK
  <1>4. QED BY <1>1, <1>3 DEF PodInv

\* A copy expires.
LEMMA ExpireInv == ASSUME RepoInv, RepoInv', PodInv, Expire PROVE PodInv'
  <1>1. PICK d \in redis.expiring :
            redis' = [redis EXCEPT !.copies[d] = None, !.expiring = @ \ {d}]
    BY DEF Expire
  <1>2. redis \in Redis /\ d \in Digest BY DEF PodInv, RedisOK
  <1>3. /\ redis' \in Redis /\ redis'.cache = redis.cache
        /\ redis'.copies = [redis.copies EXCEPT ![d] = None]
        /\ redis'.expiring = redis.expiring \ {d}
    BY <1>1, <1>2 DEF Redis
  <1>4. \A x \in Digest : redis'.copies[x] = IF x = d THEN None ELSE redis.copies[x]
    BY <1>2, <1>3 DEF Redis
  <1>5. RedisOK' BY <1>3, <1>4 DEF PodInv, RedisOK, CopiesAreNotOlder
  <1>6. gsr <= gsr' BY RolloutAssumption DEF Expire, world, RepoInv, RepoTypeOK, RolloutAssumption
  <1>7. QED BY <1>5, <1>6, OthersInv DEF Expire

\* The file of a pod is written before its workers are forked, with legacy graphql added to
\* a manifest without it.
LEMMA WriteFileInv == ASSUME RepoInv, PodInv, NEW p \in Pods, WriteFile(p) PROVE PodInv'
  <1> DEFINE new == Ahead(pod[p], "forking")
             f == [gsr |-> pod[p].manifest.gsr, legacy |-> legacy,
                   legacies |-> pod[p].manifest.legacies + 1]
  <1>1. pod[p] \in PodState /\ PodOK(pod[p]) BY DEF PodInv, PodTypeOK
  <1>2. /\ UNCHANGED <<gsr, redis, served>> /\ pod[p].at = "legacy"
        /\ pod' = [pod EXCEPT ![p] = new] /\ file' = [file EXCEPT ![p] = f]
    BY DEF WriteFile, WithLegacy, Goes, Becomes, world
  <1>3. pod[p].manifest \in Manifest /\ pod[p].manifest.legacies = 0
    BY <1>1, <1>2 DEF PodOK
  <1>4. f \in Schema /\ f.legacies = 1
    BY <1>3 DEF Manifest, Schema, RepoInv, RepoTypeOK
  <1>5. new \in PodState /\ new.at = "forking" /\ new.digest = pod[p].digest
    BY <1>1 DEF PodState, PodAt, Ahead
  <1> HIDE DEF new, f
  <1>6. PodOK(new) BY <1>1, <1>5 DEF PodOK
  <1>7. RedisOK' BY <1>2 DEF PodInv, RedisOK, CopiesAreNotOlder
  <1>8. PodTypeOK' BY <1>2, <1>4, <1>5 DEF PodInv, PodTypeOK
  <1>9. ASSUME NEW q \in Pods PROVE PodOK(pod[q])' /\ FileOK(q)'
    <2>1. PodOK(pod[q]) /\ FileOK(q) BY DEF PodInv
    <2>2. CASE q = p
      <3>1. pod'[q] = new /\ file'[q] = f BY <2>2, <1>2 DEF PodInv, PodTypeOK
      <3>2. served[q] = {} BY <2>1, <2>2, <1>2 DEF FileOK
      <3>3. QED BY <3>1, <3>2, <1>2, <1>4, <1>5, <1>6 DEF PodOK, FileOK
    <2>3. CASE q # p
      <3>1. pod'[q] = pod[q] /\ file'[q] = file[q] BY <2>3, <1>2 DEF PodInv, PodTypeOK
      <3>2. QED BY <2>1, <3>1, <1>2 DEF PodOK, FileOK
    <2>4. QED BY <2>2, <2>3
  <1>10. QED BY <1>7, <1>8, <1>9 DEF PodInv

\* Workers serve what is in the file.
LEMMA WorkerStartsInv == ASSUME PodInv, NEW p \in Pods, WorkerStarts(p) PROVE PodInv'
  <1>1. /\ UNCHANGED <<gsr, redis, pod, file>> /\ pod[p].at = "forking"
        /\ served' = [served EXCEPT ![p] = @ \cup {file[p]}]
    BY DEF WorkerStarts, WorkerLoads, world
  <1>2. file[p] \in Schema BY <1>1 DEF PodInv, FileOK
  <1>3. PodTypeOK' BY <1>1, <1>2 DEF PodInv, PodTypeOK
  <1>4. RedisOK' BY <1>1 DEF PodInv, RedisOK, CopiesAreNotOlder
  <1>5. ASSUME NEW q \in Pods PROVE PodOK(pod[q])' /\ FileOK(q)'
    <2>1. PodOK(pod[q]) /\ FileOK(q) BY DEF PodInv
    <2>2. served'[q] = IF q = p THEN served[q] \cup {file[q]} ELSE served[q]
      BY <1>1 DEF PodInv, PodTypeOK
    <2>3. QED BY <2>1, <2>2, <1>1 DEF PodOK, FileOK
  <1>6. QED BY <1>3, <1>4, <1>5 DEF PodInv

-----------------------------------------------------------------------------
\* Every step keeps the invariant of the jobs and the repository.
LEMMA RepoNext == RepoInv /\ [Next]_vars => RepoInv'
  <1> SUFFICES ASSUME RepoInv, [Next]_vars PROVE RepoInv' OBVIOUS
  <1>1. CASE Publish BY <1>1, PublishRepo
  <1>2. CASE CommitElsewhere BY <1>2, CommitElsewhereRepo
  <1>3. ASSUME NEW j \in Jobs, UpdateSchema(j) PROVE RepoInv' BY <1>3, UpdateSchemaRepo
  <1>4. CASE UNCHANGED <<world, repo, job>>
    BY <1>4 DEF world, RepoInv, RepoTypeOK, JobTypeOK, CloneOK, LoadOK
  <1>5. QED
    BY <1>1, <1>2, <1>3, <1>4
    DEF Next, vars, Expire, Deploy, Restart, LoadSupergraph, LoadSupergraphFromGsr,
        LoadSchemaFromCache, GetLastDigest, SetCache, SetDigest, SetLastDigest, ExpireLast,
        RedisFails, WriteFile, WithLegacy, WorkerStarts, Goes, Becomes

\* Every step keeps the whole invariant.
LEMMA NextInv == IInv /\ [Next]_vars => IInv'
  <1> SUFFICES ASSUME RepoInv, PodInv, [Next]_vars PROVE PodInv'
    BY RepoNext DEF IInv
  <1>1. RepoInv' BY RepoNext
  <1>2. gsr \in Nat /\ gsr' \in Nat
    BY <1>1, RolloutAssumption DEF RepoInv, RepoTypeOK, RolloutAssumption
  <1>3. ASSUME UNCHANGED <<redis, pod, file, served>>, gsr <= gsr' PROVE PodInv'
    <2>1. RedisOK' BY <1>3 DEF PodInv, RedisOK, CopiesAreNotOlder
    <2>2. QED BY <1>1, <1>3, <2>1, OthersInv
  <1>4. CASE Publish BY <1>2, <1>3, <1>4 DEF Publish
  <1>5. CASE CommitElsewhere BY <1>2, <1>3, <1>5 DEF CommitElsewhere, world
  <1>6. CASE Expire BY <1>1, <1>6, ExpireInv
  <1>7. ASSUME NEW j \in Jobs, UpdateSchema(j) PROVE PodInv'
    BY <1>2, <1>3, <1>7
    DEF UpdateSchema, Clone, JobLoads, Commit, Push, Rebase, PushAgain, JobStep, world
  <1>8. ASSUME NEW p \in Pods,
               Deploy(p) \/ Restart(p) \/ LoadSupergraph(p) \/ WriteFile(p) \/ WorkerStarts(p)
        PROVE  PodInv'
    BY <1>8, DeployInv, RestartInv, GsrInv, FromCacheInv, GetLastInv, SetCacheInv,
       SetDigestInv, SetLastInv, ExpireLastInv, RedisFailsInv, WriteFileInv, WorkerStartsInv
    DEF LoadSupergraph
  <1>9. CASE UNCHANGED vars BY <1>2, <1>3, <1>9 DEF vars, world
  <1>10. QED BY <1>4, <1>5, <1>6, <1>7, <1>8, <1>9 DEF Next

\* The inductive invariant of jobs, repository, pods and redis.
THEOREM Invariance == Spec => []IInv
  <1>1. Init => IInv BY RepoInit, PodInit DEF IInv
  <1>2. QED BY <1>1, NextInv, PTL DEF Spec

\* The type invariant.
THEOREM TypeCorrect == Spec => []TypeOK
  <1>1. IInv => TypeOK
    <2> SUFFICES ASSUME IInv PROVE TypeOK OBVIOUS
    <2>1. /\ gsr \in 1 .. MaxVersion /\ legacy \in 1 .. MaxLegacy
          /\ repo.commits \in 0 .. MaxCommits /\ repo.digest \in Digest
      BY DEF IInv, RepoInv, RepoTypeOK
    <2>2. /\ redis.cache \in {None} \cup Manifest /\ redis.last \in {None} \cup Digest
          /\ redis.expiring \subseteq {d \in Digest : redis.copies[d] # None}
      BY DEF IInv, PodInv, RedisOK, Redis
    <2>3. \A p \in Pods : PodOK(pod[p]) /\ file[p] \in {None} \cup Schema
      BY DEF IInv, PodInv, PodTypeOK
    <2>4. QED BY <2>1, <2>2, <2>3 DEF TypeOK, PodOK, PodState
  <1>2. QED BY Invariance, <1>1, PTL

\* The digest in the repository never goes back to an older schema, however many jobs
\* overlap and however long they take.
THEOREM RolloutGoesForward == Spec => DigestGoesForward
  <1> DEFINE Forward == repo'.digest.gsr >= repo.digest.gsr
                        /\ repo'.digest.legacy >= repo.digest.legacy
  <1>1. RepoInv /\ [Next]_vars => [Forward]_vars
    <2> SUFFICES ASSUME RepoInv, Next PROVE Forward OBVIOUS
    <2>1. repo.digest.gsr \in Nat /\ repo.digest.legacy \in Nat
      BY DEF RepoInv, RepoTypeOK, Digest
    <2>2. CASE repo'.digest = repo.digest BY <2>1, <2>2
    <2>3. ASSUME NEW j \in Jobs, UpdateSchema(j) PROVE Forward
      <3>1. CASE UNCHANGED repo BY <3>1, <2>2
      <3>2. CASE job[j].at \in {"committed", "rebased"} /\ Accepted(j)
        <4>1. /\ repo' = [commits |-> repo.commits + 1, digest |-> job[j].digest]
              /\ job[j].digest.gsr >= repo.digest.gsr
              /\ job[j].digest.legacy >= repo.digest.legacy
          BY <3>2, AcceptedGoesForward
        <4>2. QED BY <4>1
      <3>3. QED
        BY <2>3, <3>1, <3>2
        DEF UpdateSchema, Clone, JobLoads, Commit, Push, Rebase, PushAgain, JobStep
    <2>4. CASE CommitElsewhere BY <2>2, <2>4 DEF CommitElsewhere, RepoInv, RepoTypeOK
    <2>5. CASE UNCHANGED repo BY <2>2, <2>5
    <2>6. QED
      BY <2>3, <2>4, <2>5
      DEF Next, Publish, Expire, Deploy, Restart, LoadSupergraph, LoadSupergraphFromGsr,
          LoadSchemaFromCache, GetLastDigest, SetCache, SetDigest, SetLastDigest, ExpireLast,
          RedisFails, WriteFile, WithLegacy, WorkerStarts, Goes, Becomes
  <1>2. IInv => RepoInv BY DEF IInv
  <1>3. QED BY Invariance, <1>1, <1>2, PTL DEF Spec, DigestGoesForward

\* No copy in redis is older than the schema its digest names, however many pods set them.
THEOREM CopiesAreNeverOlder == Spec => []CopiesAreNotOlder
  <1>1. IInv => CopiesAreNotOlder BY DEF IInv, PodInv, RedisOK
  <1>2. QED BY Invariance, <1>1, PTL

\* All workers of a pod serve the same schema, with legacy graphql in it once.
THEOREM WorkersAlwaysAgree == Spec => []WorkersAgree
  <1>1. IInv => WorkersAgree
    <2> SUFFICES ASSUME IInv, NEW p \in Pods, NEW s \in served[p], NEW t \in served[p]
                 PROVE  s = t /\ s.legacies = 1
      BY DEF WorkersAgree
    <2>1. s = file[p] /\ t = file[p] /\ pod[p].at = "forking" BY DEF IInv, PodInv, FileOK
    <2>2. QED BY <2>1 DEF IInv, PodInv, FileOK
  <1>2. QED BY Invariance, <1>1, PTL
================================================================================
