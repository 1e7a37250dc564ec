-------------------------------- MODULE Delivery --------------------------------
(***************************************************************************)
(* How one service's image gets from a commit to production: the workflows *)
(* deploy-dev, promote-staging, performance-staging and release-production *)
(* with the ECR repositories, scans, signatures and attestations they      *)
(* write and the gates they read.  Each workflow runs once at a time (its  *)
(* concurrency group); different workflows overlap.  A deployment itself   *)
(* is one step here; ServiceRollout takes it apart.                        *)
(***************************************************************************)
EXTENDS Naturals, FiniteSets

CONSTANTS Commits,         \* commits of master with a successful CI run
          MaxBuilds,       \* bound: deploy-dev runs
          MaxBootstraps,   \* bound: services (re)created by Terraform
          MaxExpirations,  \* bound: images the ECR lifecycle policy removes
          None             \* no image

ASSUME DeliveryAssumption ==
    /\ MaxBuilds \in Nat \ {0}
    /\ MaxBootstraps \in Nat
    /\ MaxExpirations \in Nat
    /\ None \notin Commits \X (1..MaxBuilds)
    /\ None \notin Commits

Environments == {"dev", "staging", "production"}
Workflows == Environments \cup {"performance"}
Steps == {"idle", "push", "scan", "sign", "attest", "verify_source", "copy",
          "verify_copy", "deploy", "check_revision", "load", "refused"}

\* Every docker build gives another digest, also of the same commit.
Digests == Commits \X (1..MaxBuilds)
CommitOf(digest) == digest[1]

VARIABLES step,         \* what each workflow does next
          commit,       \* its IMAGE_TAG
          local,        \* a run's own digest: what it built, or its source_digest
          builds,       \* docker builds so far
          image,        \* digest behind a commit's tag in each repository
          clean,        \* images whose scan found nothing HIGH or CRITICAL
          signatures,   \* images signed in a repository by its workflow
          sbom,         \* the build that a digest's attested SBOM describes
          service,      \* the image each environment's service runs
          passed,       \* successful runs, by workflow and commit
          served,       \* images a successful deployment put in service
          bootstraps,   \* services Terraform (re)created so far
          expired       \* images that expired, by repository

registryVars == <<image, clean, signatures, sbom>>
evidenceVars == <<passed, served>>
vars == <<step, commit, local, builds, registryVars, service, evidenceVars,
          bootstraps, expired>>

References == [by : {"tag", "digest"}, digest : Digests \cup {None}]

TypeOK ==
    /\ step \in [Workflows -> Steps]
    /\ commit \in [Workflows -> Commits \cup {None}]
    /\ local \in [Environments -> Digests \cup {None}]
    /\ builds \in 0..MaxBuilds
    /\ image \in [Environments -> [Commits -> Digests \cup {None}]]
    /\ clean \subseteq Environments \X Digests
    /\ signatures \subseteq Environments \X Digests
    /\ sbom \in [Digests -> Digests \cup {None}]
    /\ service \in [Environments -> References]
    /\ passed \subseteq Workflows \X Commits
    /\ served \subseteq Environments \X Digests
    /\ bootstraps \in 0..MaxBootstraps
    /\ expired \subseteq Environments \X Digests

\* The services run bootstrap images of commits from before.
Init ==
    /\ step = [w \in Workflows |-> "idle"]
    /\ commit = [w \in Workflows |-> None]
    /\ local = [e \in Environments |-> None]
    /\ builds = 0
    /\ image = [e \in Environments |-> [c \in Commits |-> None]]
    /\ clean = {}
    /\ signatures = {}
    /\ sbom = [d \in Digests |-> None]
    /\ service = [e \in Environments |-> [by |-> "tag", digest |-> None]]
    /\ passed = {}
    /\ served = {}
    /\ bootstraps = 0
    /\ expired = {}

Free(w) == step[w] \in {"idle", "refused"}

Start(w, c, first) ==
    /\ Free(w)
    /\ step' = [step EXCEPT ![w] = first]
    /\ commit' = [commit EXCEPT ![w] = c]

Goto(w, next) == step' = [step EXCEPT ![w] = next]

\* A failing command ends the job; so does a cancellation, at any command.
Abort(w) ==
    /\ ~Free(w)
    /\ Goto(w, "idle")
    /\ UNCHANGED <<commit, local, builds, registryVars, service, evidenceVars,
                   bootstraps, expired>>

\* put-image or docker push under an unused tag, and the scan on push.
Store(e, c, digest) ==
    /\ image' = [image EXCEPT ![e][c] = digest]
    /\ \/ clean' = clean \cup {<<e, digest>>}
       \/ clean' = clean \ {<<e, digest>>}

(***************************************************************************)
(* deploy-dev.yml                                                          *)
(***************************************************************************)

Build(c) ==
    /\ builds < MaxBuilds
    /\ Start("dev", c, "push")
    /\ builds' = builds + 1
    /\ local' = [local EXCEPT !["dev"] = <<c, builds + 1>>]
    /\ UNCHANGED <<registryVars, service, evidenceVars, bootstraps, expired>>

\* Mutant of Push: the repository's tags are mutable.
PushAgain ==
    /\ step["dev"] = "push"
    /\ Store("dev", commit["dev"], local["dev"])
    /\ Goto("dev", "scan")
    /\ UNCHANGED <<commit, local, builds, signatures, sbom, service,
                   evidenceVars, bootstraps, expired>>

\* An image that is already there is reused, although this run built another.
Push ==
    /\ step["dev"] = "push"
    /\ IF image["dev"][commit["dev"]] = None
       THEN Store("dev", commit["dev"], local["dev"])
       ELSE UNCHANGED <<image, clean>>
    /\ Goto("dev", "scan")
    /\ UNCHANGED <<commit, local, builds, signatures, sbom, service,
                   evidenceVars, bootstraps, expired>>

Tagged(w) == image[w][commit[w]]

ScanGate ==
    /\ step["dev"] = "scan"
    /\ Goto("dev", IF <<"dev", Tagged("dev")>> \in clean THEN "sign" ELSE "idle")
    /\ UNCHANGED <<commit, local, builds, registryVars, service, evidenceVars,
                   bootstraps, expired>>

Sign ==
    /\ step["dev"] = "sign"
    /\ Tagged("dev") # None
    /\ signatures' = signatures \cup {<<"dev", Tagged("dev")>>}
    /\ Goto("dev", "attest")
    /\ UNCHANGED <<commit, local, builds, image, clean, sbom, service,
                   evidenceVars, bootstraps, expired>>

\* syft reads the runner's image; the attestation goes to the repository's.
Attest ==
    /\ step["dev"] = "attest"
    /\ Tagged("dev") # None
    /\ sbom' = [sbom EXCEPT ![Tagged("dev")] = IF @ = None THEN local["dev"] ELSE @]
    /\ Goto("dev", "deploy")
    /\ UNCHANGED <<commit, local, builds, image, clean, signatures, service,
                   evidenceVars, bootstraps, expired>>

\* Mutant of Deploy: the revision is forgotten before the run is recorded.
DeployUnnamed(e) ==
    /\ step[e] = "deploy"
    /\ Tagged(e) # None
    /\ service' = [service EXCEPT ![e] = [by |-> "digest", digest |-> Tagged(e)]]
    /\ commit' = [commit EXCEPT ![e] = None]
    /\ passed' = passed \cup {<<e, commit'[e]>>}
    /\ served' = served \cup {<<e, Tagged(e)>>}
    /\ Goto(e, "idle")
    /\ UNCHANGED <<local, builds, registryVars, bootstraps, expired>>

\* The rollout succeeds and is verified; one that fails is an Abort.
Deploy(e) ==
    /\ step[e] = "deploy"
    /\ Tagged(e) # None
    /\ service' = [service EXCEPT ![e] = [by |-> "digest", digest |-> Tagged(e)]]
    /\ passed' = passed \cup {<<e, commit[e]>>}
    /\ served' = served \cup {<<e, Tagged(e)>>}
    /\ Goto(e, "idle")
    /\ UNCHANGED <<commit, local, builds, registryVars, bootstraps, expired>>

(***************************************************************************)
(* promote-staging.yml and release-production.yml with their scripts       *)
(***************************************************************************)

Source(e) == IF e = "staging" THEN "dev" ELSE "staging"

Required(e) == IF e = "staging" THEN {"dev"} ELSE {"staging", "performance"}

Promote(e, c) ==
    /\ e # "dev"
    /\ \A w \in Required(e) : <<w, c>> \in passed
    /\ Start(e, c, "verify_source")
    /\ UNCHANGED <<local, builds, registryVars, service, evidenceVars,
                   bootstraps, expired>>

\* Mutant of Trusted: only the scan counts.
Scanned(e, d) == d # None /\ <<Source(e), d>> \in clean

\* Scan, signature of the environment before and, in staging, the SBOM.
Trusted(e, d) ==
    /\ d # None
    /\ <<Source(e), d>> \in clean \cap signatures
    /\ e = "staging" => sbom[d] # None

\* promote_image up to the copy.
VerifySource(e) ==
    /\ step[e] = "verify_source"
    /\ local' = [local EXCEPT ![e] = image[Source(e)][commit[e]]]
    /\ Goto(e, IF Trusted(e, local'[e]) THEN "copy" ELSE "idle")
    /\ UNCHANGED <<commit, builds, registryVars, service, evidenceVars,
                   bootstraps, expired>>

\* put-image, unless the tag is there already.
Copy(e) ==
    /\ step[e] = "copy"
    /\ IF Tagged(e) = None THEN Store(e, commit[e], local[e])
       ELSE UNCHANGED <<image, clean>>
    /\ Goto(e, "verify_copy")
    /\ UNCHANGED <<commit, local, builds, signatures, sbom, service,
                   evidenceVars, bootstraps, expired>>

\* Same digest, clean in this repository, too; then it is signed.
VerifyCopy(e) ==
    LET accepted == Tagged(e) = local[e] /\ <<e, local[e]>> \in clean
    IN /\ step[e] = "verify_copy"
       /\ Goto(e, IF accepted THEN "deploy" ELSE "idle")
       /\ signatures' = signatures \cup (IF accepted THEN {<<e, local[e]>>} ELSE {})
       /\ UNCHANGED <<commit, local, builds, image, clean, sbom, service,
                      evidenceVars, bootstraps, expired>>

(***************************************************************************)
(* performance-staging.yml                                                 *)
(***************************************************************************)

Measure(c) ==
    /\ <<"staging", c>> \in passed
    /\ Start("performance", c, "check_revision")
    /\ UNCHANGED <<local, builds, registryVars, service, evidenceVars,
                   bootstraps, expired>>

\* The image of the running task definition must end in ":" and the commit.
CheckRevision ==
    LET running == service["staging"]
        current == /\ running.by = "tag"
                   /\ running.digest # None
                   /\ CommitOf(running.digest) = commit["performance"]
    IN /\ step["performance"] = "check_revision"
       /\ Goto("performance", IF current THEN "load" ELSE "refused")
       /\ UNCHANGED <<commit, local, builds, registryVars, service, evidenceVars,
                      bootstraps, expired>>

\* run_load meets its thresholds; a missed one is an Abort.
Load ==
    /\ step["performance"] = "load"
    /\ passed' = passed \cup {<<"performance", commit["performance"]>>}
    /\ Goto("performance", "idle")
    /\ UNCHANGED <<commit, local, builds, registryVars, service, served,
                   bootstraps, expired>>

(***************************************************************************)
(* Terraform, its operator and ECR                                         *)
(***************************************************************************)

\* The two-phase bootstrap: copy a scanned image, create the service from its
\* tag.  There is no service yet, so no promotion to it is under way.
BootstrapService(e, c) ==
    LET d == image[Source(e)][c]
    IN /\ e # "dev"
       /\ Free(e)
       /\ bootstraps < MaxBootstraps
       /\ d # None /\ <<Source(e), d>> \in clean
       /\ IF image[e][c] = None THEN Store(e, c, d) ELSE UNCHANGED <<image, clean>>
       /\ service' = [service EXCEPT ![e] = [by |-> "tag", digest |-> image'[e][c]]]
       /\ bootstraps' = bootstraps + 1
       /\ UNCHANGED <<step, commit, local, builds, signatures, sbom, evidenceVars,
                      expired>>

\* The lifecycle policy keeps a number of images, whoever still needs them.
Expire(e, c) ==
    /\ Cardinality(expired) < MaxExpirations
    /\ image[e][c] # None
    /\ image' = [image EXCEPT ![e][c] = None]
    /\ expired' = expired \cup {<<e, image[e][c]>>}
    /\ UNCHANGED <<step, commit, local, builds, clean, signatures, sbom, service,
                   evidenceVars, bootstraps>>

Next ==
    \/ \E w \in Workflows : Abort(w)
    \/ \E c \in Commits : Build(c) \/ Measure(c)
    \/ Push \/ ScanGate \/ Sign \/ Attest \/ CheckRevision \/ Load
    \/ \E e \in Environments : VerifySource(e) \/ Copy(e) \/ VerifyCopy(e) \/ Deploy(e)
    \/ \E e \in Environments, c \in Commits :
          Promote(e, c) \/ BootstrapService(e, c) \/ Expire(e, c)

Spec == Init /\ [][Next]_vars

(***************************************************************************)
(* Properties                                                              *)
(***************************************************************************)

\* README.md, "Staging artifact promotion": build once, deploy everywhere.
\* Whatever production served was served by staging and development first, bit
\* for bit, whatever runs were repeated, aborted or overlapped - as long as no
\* image of the commit expired, because the gates know commits, not digests.
ServedIsOneBuild ==
    \A e \in {"staging", "production"}, d \in Digests :
        /\ <<e, d>> \in served
        /\ \A x \in expired : CommitOf(x[2]) # CommitOf(d)
        => <<Source(e), d>> \in served /\ image[e][CommitOf(d)] = d

\* Expired or not, what an environment served is signed by it and by every
\* environment before it, and carries an SBOM.
ServedIsSigned ==
    \A e \in {"staging", "production"}, d \in Digests :
        <<e, d>> \in served =>
            /\ {<<e, d>>, <<Source(e), d>>, <<"dev", d>>} \subseteq signatures
            /\ sbom[d] # None

\* README.md, "Staging performance gate": it refuses only stale revisions.
OnlyStaleIsRefused ==
    [][step["performance"] = "check_revision" /\ step'["performance"] = "refused" =>
          \/ service["staging"].digest = None
          \/ CommitOf(service["staging"].digest) # commit["performance"]]_vars
=================================================================================

