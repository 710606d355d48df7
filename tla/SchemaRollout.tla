----------------------------- MODULE SchemaRollout -----------------------------
(***************************************************************************)
(* How a schema gets from its registry to the workers that serve it        *)
(* (packages/schema, packages/gitops, scripts/gitops.bash, server/index).  *)
(*                                                                         *)
(* Jobs write the digest of the current schema into the deployment         *)
(* repository.  Pods are started with the digest the repository held when  *)
(* they were deployed; the primary of each loads the subgraphs from the    *)
(* schema registry (GSR), or from redis if that fails, keeps copies in      *)
(* redis, adds the subgraph of legacy graphql, and writes everything to a   *)
(* file for its workers.  Each of these steps awaits an answer.            *)
(*                                                                         *)
(* The registry and legacy graphql publish versions 1, 2, ...              *)
(***************************************************************************)
EXTENDS Naturals, FiniteSets

CONSTANTS
    Pods,
    Jobs,            \* runs of the gitops job
    MaxVersion,      \* bound on the versions of the registry
    MaxLegacy,       \* bound on the versions of legacy graphql
    MaxCommits,      \* bound on the commits of the deployment repository
    TryCache,        \* SCHEMA.trySchemaFromCache
    Seeded,          \* whether an operator set LAST_SCHEMA_DIGEST by hand
    None

ASSUME RolloutAssumption ==
    /\ {MaxVersion, MaxLegacy, MaxCommits} \subseteq Nat \ {0}
    /\ {TryCache, Seeded} \subseteq BOOLEAN

VARIABLES
    gsr, legacy,     \* the versions published
    redis,           \* what the pods keep in redis
    repo,            \* the main branch: its number of commits, its digest
    job,             \* the clone of each job
    pod,
    file,            \* supergraph.json of each pod
    served           \* history: the schemas that workers of each pod have served

world == <<gsr, legacy>>
vars == <<world, redis, repo, job, pod, file, served>>

\* The digest names the schema id, which is made of both versions.
Digest == [gsr : 1 .. MaxVersion, legacy : 1 .. MaxLegacy]

\* A list of subgraphs, and how many of them are legacy graphql's.
Manifest == [gsr : 1 .. MaxVersion, legacies : Nat]

Redis == [cache : Manifest \cup {None},                \* SCHEMA_CACHE
          last : Digest \cup {None},                   \* LAST_SCHEMA_DIGEST
          copies : [Digest -> Manifest \cup {None}],   \* one key for each digest
          expiring : SUBSET Digest]

NewJob == [at |-> "new", base |-> 0, was |-> None, gsr |-> 0, digest |-> None]

Over == [NewJob EXCEPT !.at = "over"]

NewPod == [at |-> "down", digest |-> None, manifest |-> None, last |-> None]

First == [gsr |-> 1, legacy |-> 1]

\* The repository holds the digest of the first version.
Init ==
    /\ gsr = 1 /\ legacy = 1
    /\ redis = [cache |-> None, last |-> IF Seeded THEN First ELSE None,
                copies |-> [d \in Digest |-> None], expiring |-> {}]
    /\ repo = [commits |-> 0, digest |-> First]
    /\ job = [j \in Jobs |-> NewJob]
    /\ pod = [p \in Pods |-> NewPod]
    /\ file = [p \in Pods |-> None]
    /\ served = [p \in Pods |-> {}]

\* A subgraph, or legacy graphql, changes.
Publish ==
    /\ \/ gsr < MaxVersion /\ gsr' = gsr + 1 /\ UNCHANGED legacy
       \/ legacy < MaxLegacy /\ legacy' = legacy + 1 /\ UNCHANGED gsr
    /\ UNCHANGED <<redis, repo, job, pod, file, served>>

-----------------------------------------------------------------------------
(* gitops::updateSchema.  A job may fail anywhere, and is not run again.    *)

JobStep(j, at, new) ==
    /\ job[j].at = at
    /\ job' = [job EXCEPT ![j] = new]
    /\ UNCHANGED <<world, redis, pod, file, served>>

Clone(j) ==
    /\ JobStep(j, "new", [job[j] EXCEPT !.at = "cloned", !.base = repo.commits, !.was = repo.digest])
    /\ UNCHANGED repo

\* loadSupergraph, without the cache: the registry first, and then legacy graphql.
JobLoads(j) ==
    /\ \/ JobStep(j, "cloned", [job[j] EXCEPT !.at = "loading", !.gsr = gsr])
       \/ JobStep(j, "loading",
                  [job[j] EXCEPT !.at = "loaded",
                                 !.digest = [gsr |-> job[j].gsr, legacy |-> legacy]])
    /\ UNCHANGED repo

\* updateSchemaDigest writes the files only if the digest differs, and nothing is
\* committed if nothing was written.
Commit(j) ==
    /\ JobStep(j, "loaded", IF job[j].digest = job[j].was THEN Over
                             ELSE [job[j] EXCEPT !.at = "committed"])
    /\ UNCHANGED repo

AcceptedForced(j) ==
    /\ repo.commits < MaxCommits
    /\ repo' = [commits |-> repo.commits + 1, digest |-> job[j].digest]

\* git refuses a push of commits that do not follow the last of main.
Accepted(j) ==
    /\ job[j].base = repo.commits
    /\ repo.commits < MaxCommits
    /\ repo' = [commits |-> repo.commits + 1, digest |-> job[j].digest]

Push(j) ==
    \/ JobStep(j, "committed", Over) /\ Accepted(j)
    \/ /\ job[j].base # repo.commits
       /\ JobStep(j, "committed", [job[j] EXCEPT !.at = "refused"])
       /\ UNCHANGED repo

\* git pull --rebase: a commit that changed the same line to something else is a
\* conflict, which ends the job; one that made the same change leaves nothing to push.
Rebase(j) ==
    /\ IF repo.digest = job[j].was
       THEN JobStep(j, "refused", [job[j] EXCEPT !.at = "rebased", !.base = repo.commits])
       ELSE JobStep(j, "refused", Over)
    /\ UNCHANGED repo

PushAgain(j) ==
    \/ JobStep(j, "rebased", Over) /\ Accepted(j)
    \/ /\ job[j].base # repo.commits
       /\ JobStep(j, "rebased", Over)
       /\ UNCHANGED repo

\* Somebody else commits to another file.
CommitElsewhere ==
    /\ repo.commits < MaxCommits
    /\ repo' = [repo EXCEPT !.commits = @ + 1]
    /\ UNCHANGED <<world, redis, job, pod, file, served>>

-----------------------------------------------------------------------------
(* primaryStartup: loadSupergraph.                                         *)

Becomes(p, at, new) ==
    /\ pod[p].at = at
    /\ pod' = [pod EXCEPT ![p] = new]
    /\ UNCHANGED <<world, repo, job, served>>

\* What is no longer needed is forgotten.
Ahead(s, to) == [s EXCEPT !.at = to,
                          !.last = IF to = "legacy" THEN None ELSE @,
                          !.manifest = IF to = "forking" THEN None ELSE @]

Goes(p, at, to) == Becomes(p, at, Ahead(pod[p], to))

\* A pod is deployed with the digest of the repository, or with none in a new
\* environment.
Deploy(p) ==
    /\ \E d \in {repo.digest, None} :
           Becomes(p, "down", [NewPod EXCEPT !.at = "gsr", !.digest = d])
    /\ UNCHANGED <<redis, file>>

\* The container dies, be it for an error of its start-up, and is started again with
\* the environment it had; or the pod is deleted.
Restart(p) ==
    /\ pod[p].at # "down"
    /\ \E at \in {"gsr", "down"} :
          pod' = [pod EXCEPT ![p] = [NewPod EXCEPT !.at = at,
                                     !.digest = IF at = "gsr" THEN pod[p].digest ELSE None]]
    /\ served' = [served EXCEPT ![p] = {}]
    /\ file' = [file EXCEPT ![p] = None]
    /\ UNCHANGED <<world, redis, repo, job>>

FromGsr == [gsr |-> gsr, legacies |-> 0]

\* The registry answers; if it fails, the cache is tried.
LoadSupergraphFromGsr(p) ==
    /\ \/ Becomes(p, "gsr", [pod[p] EXCEPT !.at = "get", !.manifest = FromGsr])
       \/ TryCache /\ Goes(p, "gsr", "fallback")
    /\ UNCHANGED <<redis, file>>

AfterFallbackUpdate == "get"

\* What comes from the cache is not put back into it.
AfterFallback == "legacy"

LoadSchemaFromCache(p) ==
    /\ redis.cache # None
    /\ Becomes(p, "fallback", [pod[p] EXCEPT !.at = AfterFallback, !.manifest = redis.cache])
    /\ UNCHANGED <<redis, file>>

GetLastDigest(p) ==
    /\ Becomes(p, "get", [pod[p] EXCEPT !.at = "set", !.last = redis.last])
    /\ UNCHANGED <<redis, file>>

SetCacheAndDigest(p) ==
    /\ Goes(p, "set", "setDigest")
    /\ redis' = [redis EXCEPT !.cache = pod[p].manifest]
    /\ UNCHANGED file

SetCache(p) ==
    /\ Goes(p, "set", IF pod[p].digest = None THEN "legacy" ELSE "setDigest")
    /\ redis' = [redis EXCEPT !.cache = pod[p].manifest]
    /\ UNCHANGED file

\* Setting a key also ends its expiry.  The last digest is replaced only if there was
\* one.
SetDigest(p) ==
    /\ Goes(p, "setDigest", IF pod[p].last \in {None, pod[p].digest} THEN "legacy" ELSE "setLast")
    /\ redis' = [redis EXCEPT !.copies[pod[p].digest] = pod[p].manifest,
                              !.expiring = @ \ {pod[p].digest}]
    /\ UNCHANGED file

SetLastDigest(p) ==
    /\ Goes(p, "setLast", "expire")
    /\ redis' = [redis EXCEPT !.last = pod[p].digest]
    /\ UNCHANGED file

ExpireLast(p) ==
    /\ Goes(p, "expire", "legacy")
    /\ redis' = IF redis.copies[pod[p].last] = None THEN redis
                ELSE [redis EXCEPT !.expiring = @ \cup {pod[p].last}]
    /\ UNCHANGED file

\* Any of these commands fails: the rest are given up.
RedisFails(p) ==
    /\ \E at \in {"get", "set", "setDigest", "setLast", "expire"} : Goes(p, at, "legacy")
    /\ UNCHANGED <<redis, file>>

Expire ==
    /\ \E d \in redis.expiring :
           redis' = [redis EXCEPT !.copies[d] = None, !.expiring = @ \ {d}]
    /\ UNCHANGED <<world, repo, job, pod, file, served>>

\* getLegacySubgraph answers; its subgraph is added to the manifest, and they are stitched.
WithLegacy(manifest) ==
    [gsr |-> manifest.gsr, legacy |-> legacy, legacies |-> manifest.legacies + 1]

\* The supergraph is written to the file, and the workers are forked.
WriteFile(p) ==
    /\ Goes(p, "legacy", "forking")
    /\ file' = [file EXCEPT ![p] = WithLegacy(pod[p].manifest)]
    /\ UNCHANGED redis

WorkerLoadsAnew(p) == [gsr |-> gsr, legacy |-> legacy, legacies |-> 1]

\* A worker is forked with SCHEMA_SOURCE=file, and so is one that replaces another.
WorkerLoads(p) == file[p]

WorkerStarts(p) ==
    /\ pod[p].at = "forking"
    /\ served' = [served EXCEPT ![p] = @ \cup {WorkerLoads(p)}]
    /\ UNCHANGED <<world, redis, repo, job, pod, file>>

UpdateSchema(j) == Clone(j) \/ JobLoads(j) \/ Commit(j) \/ Push(j) \/ Rebase(j) \/ PushAgain(j)

LoadSupergraph(p) ==
    \/ LoadSupergraphFromGsr(p) \/ LoadSchemaFromCache(p) \/ GetLastDigest(p) \/ SetCache(p)
    \/ SetDigest(p) \/ SetLastDigest(p) \/ ExpireLast(p) \/ RedisFails(p)

Next ==
    \/ Publish \/ CommitElsewhere \/ Expire
    \/ \E j \in Jobs : UpdateSchema(j)
    \/ \E p \in Pods : \/ Deploy(p) \/ Restart(p) \/ LoadSupergraph(p) \/ WriteFile(p)
                       \/ WorkerStarts(p)

Spec == Init /\ [][Next]_vars

-----------------------------------------------------------------------------
Schema == [gsr : 1 .. MaxVersion, legacy : 1 .. MaxLegacy, legacies : Nat]

\* Types.
TypeOK ==
    /\ gsr \in 1 .. MaxVersion /\ legacy \in 1 .. MaxLegacy
    /\ redis.cache \in {None} \cup Manifest /\ redis.last \in {None} \cup Digest
    /\ redis.expiring \subseteq {d \in Digest : redis.copies[d] # None}
    /\ repo.commits \in 0 .. MaxCommits /\ repo.digest \in Digest
    /\ \A p \in Pods : /\ pod[p].digest \in {None} \cup Digest
                       /\ pod[p].at \in {"setDigest", "setLast"} => pod[p].digest # None
                       /\ pod[p].at = "expire" => pod[p].last # None
                       /\ file[p] \in {None} \cup Schema

\* The digest in the repository never goes back to that of an older schema, though
\* jobs overlap, take their time, and push what they loaded long before: whoever
\* pushes has loaded after the digest it replaces was pushed.
DigestGoesForward ==
    [][repo'.digest.gsr >= repo.digest.gsr /\ repo'.digest.legacy >= repo.digest.legacy]_vars

\* The copy kept under a digest is never older than the schema the digest names,
\* whichever pods set it in whatever order and whatever the cache they fell back on
\* held; it is often newer.
CopiesAreNotOlder ==
    \A d \in Digest : redis.copies[d] # None => redis.copies[d].gsr >= d.gsr

\* All workers of a pod serve the same schema, also those that replace others when
\* the registry and legacy graphql have moved on, with legacy graphql in it once,
\* also when it was loaded from what another pod cached.
WorkersAgree ==
    \A p \in Pods : \A s, t \in served[p] : s = t /\ s.legacies = 1
=============================================================================
