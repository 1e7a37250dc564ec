----------------------------- MODULE DeliveryProofs -----------------------------
(***************************************************************************)
(* Proofs about Delivery for all sets of commits and all bounds: what an   *)
(* environment serves is signed (ServedIsSigned), and without expired      *)
(* images it is the build that development served (ServedIsOneBuild).      *)
(***************************************************************************)
EXTENDS Delivery, TLAPS

Promotions == {"staging", "production"}

(***************************************************************************)
(* Type correctness.  TypeOK needs to know that a running workflow has a   *)
(* commit and, where it stores an image, a digest.                         *)
(***************************************************************************)

StepShape ==
    /\ step["dev"] \in {"idle", "push", "scan", "sign", "attest", "deploy"}
    /\ \A w \in Workflows : ~Free(w) => commit[w] \in Commits
    /\ step["dev"] = "push" => local["dev"] \in Digests
    /\ \A e \in Promotions :
          step[e] \in {"copy", "verify_copy"} => local[e] \in Digests

\* Storing an image changes one tag of one repository.
LEMMA StoreEffect ==
    ASSUME TypeOK,
           NEW e \in Environments, NEW c \in Commits, NEW d \in Digests,
           Store(e, c, d)
    PROVE  /\ image' \in [Environments -> [Commits -> Digests \cup {None}]]
           /\ clean' \subseteq Environments \X Digests
           /\ \A f \in Environments, b \in Commits :
                 image'[f][b] = IF f = e /\ b = c THEN d ELSE image[f][b]
<1>1. image \in [Environments -> [Commits -> Digests \cup {None}]]
  BY DEF TypeOK
<1>2. clean \subseteq Environments \X Digests
  BY DEF TypeOK
<1>3. image' = [image EXCEPT ![e][c] = d]
  BY DEF Store
<1>4. clean' \subseteq Environments \X Digests
  BY <1>2 DEF Store
<1> QED
  BY <1>1, <1>3, <1>4

\* The tag of a running workflow's commit holds an image or nothing.
LEMMA TaggedType ==
    ASSUME TypeOK, NEW e \in Environments, commit[e] \in Commits
    PROVE  Tagged(e) \in Digests \cup {None}
  BY DEF TypeOK, Tagged

LEMMA NoneIsNoDigest == None \notin Digests
  BY DeliveryAssumption DEF Digests

LEMMA TypeInit == Init => TypeOK /\ StepShape
<1> SUFFICES ASSUME Init PROVE TypeOK /\ StepShape
  OBVIOUS
<1> USE DeliveryAssumption DEF Init, Environments, Workflows
<1>1. TypeOK
  BY DEF TypeOK, Steps, References
<1>2. StepShape
  BY DEF StepShape, Free, Promotions
<1> QED
  BY <1>1, <1>2

LEMMA TypeNext == TypeOK /\ StepShape /\ [Next]_vars => TypeOK' /\ StepShape'
<1> SUFFICES ASSUME TypeOK, StepShape, [Next]_vars PROVE TypeOK' /\ StepShape'
  OBVIOUS
<1> USE DeliveryAssumption DEF Environments, Workflows, Promotions
<1>1. CASE UNCHANGED vars
  BY <1>1 DEF vars, registryVars, evidenceVars, TypeOK, StepShape, Free
<1>2. ASSUME NEW w \in Workflows, Abort(w) PROVE TypeOK' /\ StepShape'
  BY <1>2 DEF Abort, Goto, registryVars, evidenceVars, TypeOK, StepShape, Free, Steps
<1>3. ASSUME NEW c \in Commits, Build(c) PROVE TypeOK' /\ StepShape'
  <2>1. <<c, builds + 1>> \in Digests
    BY <1>3 DEF Build, TypeOK, Digests
  <2>2. TypeOK'
    BY <1>3, <2>1 DEF Build, Start, registryVars, evidenceVars, TypeOK, Steps
  <2>3. StepShape'
    BY <1>3, <2>1 DEF Build, Start, StepShape, TypeOK, Free
  <2> QED
    BY <2>2, <2>3
<1>4. ASSUME NEW c \in Commits, Measure(c) PROVE TypeOK' /\ StepShape'
  BY <1>4 DEF Measure, Start, registryVars, evidenceVars, TypeOK, StepShape, Free, Steps
<1>5. CASE Push
  <2>1. commit["dev"] \in Commits /\ local["dev"] \in Digests
    BY <1>5 DEF Push, StepShape, Free
  <2>2. image' \in [Environments -> [Commits -> Digests \cup {None}]]
        /\ clean' \subseteq Environments \X Digests
    <3>1. CASE image["dev"][commit["dev"]] = None
      BY <1>5, <2>1, <3>1, StoreEffect DEF Push
    <3>2. CASE image["dev"][commit["dev"]] # None
      BY <1>5, <3>2 DEF Push, TypeOK
    <3> QED
      BY <3>1, <3>2
  <2>3. TypeOK'
    BY <1>5, <2>2 DEF Push, Goto, evidenceVars, TypeOK, Steps
  <2>4. StepShape'
    BY <1>5 DEF Push, Goto, StepShape, TypeOK, Free
  <2> QED
    BY <2>3, <2>4
<1>6. CASE ScanGate
  BY <1>6 DEF ScanGate, Goto, registryVars, evidenceVars, TypeOK, StepShape, Free, Steps
<1>7. CASE Sign
  <2>1. Tagged("dev") \in Digests
    BY <1>7, TaggedType DEF Sign, StepShape, Free
  <2>2. TypeOK'
    BY <1>7, <2>1 DEF Sign, Goto, evidenceVars, TypeOK, Steps
  <2>3. StepShape'
    BY <1>7 DEF Sign, Goto, StepShape, TypeOK, Free
  <2> QED
    BY <2>2, <2>3
<1>8. CASE Attest
  <2>1. TypeOK'
    BY <1>8 DEF Attest, Goto, evidenceVars, TypeOK, Steps
  <2>2. StepShape'
    BY <1>8 DEF Attest, Goto, StepShape, TypeOK, Free
  <2> QED
    BY <2>1, <2>2
<1>9. CASE CheckRevision
  BY <1>9 DEF CheckRevision, Goto, registryVars, evidenceVars, TypeOK, StepShape, Free, Steps
<1>10. CASE Load
  BY <1>10 DEF Load, Goto, registryVars, TypeOK, StepShape, Free, Steps
<1>11. ASSUME NEW e \in Environments, VerifySource(e) PROVE TypeOK' /\ StepShape'
  <2>1. e \in Promotions /\ commit[e] \in Commits /\ Source(e) \in Environments
    BY <1>11 DEF VerifySource, StepShape, Free, Source
  <2>2. image[Source(e)][commit[e]] \in Digests \cup {None}
    BY <2>1 DEF TypeOK
  <2>3. TypeOK'
    BY <1>11, <2>2 DEF VerifySource, Goto, registryVars, evidenceVars, TypeOK, Steps
  <2>4. step'[e] = "copy" => local'[e] \in Digests
    BY <1>11, <2>2 DEF VerifySource, Goto, Trusted, TypeOK
  <2>5. StepShape'
    BY <1>11, <2>1, <2>4 DEF VerifySource, Goto, StepShape, TypeOK, Free
  <2> QED
    BY <2>3, <2>5
<1>12. ASSUME NEW e \in Environments, Copy(e) PROVE TypeOK' /\ StepShape'
  <2>1. commit[e] \in Commits /\ local[e] \in Digests
    BY <1>12 DEF Copy, StepShape, Free
  <2>2. image' \in [Environments -> [Commits -> Digests \cup {None}]]
        /\ clean' \subseteq Environments \X Digests
    <3>1. CASE Tagged(e) = None
      BY <1>12, <2>1, <3>1, StoreEffect DEF Copy
    <3>2. CASE Tagged(e) # None
      BY <1>12, <3>2 DEF Copy, TypeOK
    <3> QED
      BY <3>1, <3>2
  <2>3. TypeOK'
    BY <1>12, <2>2 DEF Copy, Goto, evidenceVars, TypeOK, Steps
  <2>4. StepShape'
    BY <1>12, <2>1 DEF Copy, Goto, StepShape, TypeOK, Free
  <2> QED
    BY <2>3, <2>4
<1>13. ASSUME NEW e \in Environments, VerifyCopy(e) PROVE TypeOK' /\ StepShape'
  <2>1. local[e] \in Digests
    BY <1>13 DEF VerifyCopy, StepShape, Free
  <2>2. TypeOK'
    BY <1>13, <2>1 DEF VerifyCopy, Goto, evidenceVars, TypeOK, Steps
  <2>3. StepShape'
    BY <1>13 DEF VerifyCopy, Goto, StepShape, TypeOK, Free
  <2> QED
    BY <2>2, <2>3
<1>14. ASSUME NEW e \in Environments, Deploy(e) PROVE TypeOK' /\ StepShape'
  <2>1. Tagged(e) \in Digests /\ commit[e] \in Commits
    BY <1>14, TaggedType DEF Deploy, StepShape, Free
  <2>2. TypeOK'
    BY <1>14, <2>1 DEF Deploy, Goto, registryVars, TypeOK, Steps, References
  <2>3. StepShape'
    BY <1>14 DEF Deploy, Goto, StepShape, TypeOK, Free
  <2> QED
    BY <2>2, <2>3
<1>15. ASSUME NEW e \in Environments, NEW c \in Commits, Promote(e, c)
       PROVE  TypeOK' /\ StepShape'
  BY <1>15 DEF Promote, Start, registryVars, evidenceVars, TypeOK, StepShape, Free, Steps
<1>16. ASSUME NEW e \in Environments, NEW c \in Commits, BootstrapService(e, c)
       PROVE  TypeOK' /\ StepShape'
  <2>1. image[Source(e)][c] \in Digests
    BY <1>16 DEF BootstrapService, Source, TypeOK
  <2>2. image' \in [Environments -> [Commits -> Digests \cup {None}]]
        /\ clean' \subseteq Environments \X Digests
    <3>1. CASE image[e][c] = None
      BY <1>16, <2>1, <3>1, StoreEffect DEF BootstrapService
    <3>2. CASE image[e][c] # None
      BY <1>16, <3>2 DEF BootstrapService, TypeOK
    <3> QED
      BY <3>1, <3>2
  <2>3. TypeOK'
    BY <1>16, <2>2 DEF BootstrapService, evidenceVars, TypeOK, References
  <2>4. StepShape'
    BY <1>16 DEF BootstrapService, StepShape, Free
  <2> QED
    BY <2>3, <2>4
<1>17. ASSUME NEW e \in Environments, NEW c \in Commits, Expire(e, c)
       PROVE  TypeOK' /\ StepShape'
  <2>1. image[e][c] \in Digests
    BY <1>17 DEF Expire, TypeOK
  <2>2. image' \in [Environments -> [Commits -> Digests \cup {None}]]
    BY <1>17 DEF Expire, TypeOK
  <2>3. TypeOK'
    BY <1>17, <2>1, <2>2 DEF Expire, evidenceVars, TypeOK
  <2>4. StepShape'
    BY <1>17 DEF Expire, StepShape, Free
  <2> QED
    BY <2>3, <2>4
<1> QED
  BY <1>1, <1>2, <1>3, <1>4, <1>5, <1>6, <1>7, <1>8, <1>9, <1>10, <1>11, <1>12,
     <1>13, <1>14, <1>15, <1>16, <1>17 DEF Next

\* Every variable of the delivery workflows keeps its type.
THEOREM TypeCorrect == Spec => [](TypeOK /\ StepShape)
<1>1. Init => TypeOK /\ StepShape
  BY TypeInit
<1>2. TypeOK /\ StepShape /\ [Next]_vars => (TypeOK /\ StepShape)'
  BY TypeNext
<1> QED
  BY <1>1, <1>2, PTL DEF Spec

(***************************************************************************)
(* ServedIsSigned.  A signature is given only to what carries the one      *)
(* before it, so the invariant follows an image from its verification to   *)
(* the service: what is verified is trusted, what is deployed is signed.   *)
(***************************************************************************)

SignedInOrder ==
    \A e \in Promotions, d \in Digests :
        <<e, d>> \in signatures =>
            /\ <<Source(e), d>> \in signatures
            /\ sbom[d] # None

CopiesAreTrusted ==
    \A e \in Promotions : step[e] \in {"copy", "verify_copy"} =>
        /\ <<Source(e), local[e]>> \in signatures
        /\ sbom[local[e]] # None

DeploysAreSigned ==
    \A e \in Promotions : step[e] = "deploy" =>
        Tagged(e) = None \/ <<e, Tagged(e)>> \in signatures

ServiceIsSigned ==
    \A e \in Promotions, d \in Digests :
        <<e, d>> \in served => <<e, d>> \in signatures

SignedInv ==
    SignedInOrder /\ CopiesAreTrusted /\ DeploysAreSigned /\ ServiceIsSigned

LEMMA SignedInit == Init => SignedInv
  BY DEF Init, SignedInv, SignedInOrder, CopiesAreTrusted, DeploysAreSigned,
         ServiceIsSigned, Promotions, Environments, Workflows

\* What the actions of development, of the performance gate, and the start or
\* the end of a run leave alone.
LEMMA SignedKept ==
    ASSUME SignedInv, TypeOK,
           signatures' = signatures, sbom' = sbom, served' = served,
           \A e \in Promotions :
              /\ step'[e] \in {"copy", "verify_copy", "deploy"} =>
                    step'[e] = step[e] /\ commit'[e] = commit[e] /\ local'[e] = local[e]
              /\ step'[e] = "deploy" =>
                    Tagged(e)' = Tagged(e) \/ Tagged(e)' = None
    PROVE  SignedInv'
  BY DEF SignedInv, SignedInOrder, CopiesAreTrusted, DeploysAreSigned, ServiceIsSigned

LEMMA SignedNext == TypeOK /\ StepShape /\ SignedInv /\ [Next]_vars => SignedInv'
<1> SUFFICES ASSUME TypeOK, StepShape, SignedInv, [Next]_vars PROVE SignedInv'
  OBVIOUS
<1> USE DEF Environments, Workflows, Promotions
<1>1. CASE UNCHANGED vars
  BY <1>1, SignedKept DEF vars, registryVars, evidenceVars, Tagged
<1>2. ASSUME NEW w \in Workflows, Abort(w) PROVE SignedInv'
  BY <1>2, SignedKept DEF Abort, Goto, registryVars, evidenceVars, Tagged, TypeOK
<1>3. ASSUME NEW c \in Commits, Build(c) PROVE SignedInv'
  BY <1>3, SignedKept DEF Build, Start, registryVars, evidenceVars, Tagged, TypeOK
<1>4. ASSUME NEW c \in Commits, Measure(c) PROVE SignedInv'
  BY <1>4, SignedKept DEF Measure, Start, registryVars, evidenceVars, Tagged, TypeOK
<1>5. CASE Push
  <2>1. \A e \in Promotions : image'[e] = image[e]
    BY <1>5 DEF Push, Store, TypeOK
  <2> QED
    BY <1>5, <2>1, SignedKept DEF Push, Goto, evidenceVars, Tagged, TypeOK
<1>6. CASE ScanGate
  BY <1>6, SignedKept DEF ScanGate, Goto, registryVars, evidenceVars, Tagged, TypeOK
<1>7. CASE Sign
  <2>1. signatures \subseteq signatures'
    BY <1>7 DEF Sign
  <2>2. \A e \in Promotions, d \in Digests : <<e, d>> \in signatures' => <<e, d>> \in signatures
    BY <1>7 DEF Sign
  <2>3. \A e \in Promotions : step'[e] = step[e] /\ Tagged(e)' = Tagged(e)
    BY <1>7 DEF Sign, Goto, TypeOK, Tagged
  <2> QED
    BY <1>7, <2>1, <2>2, <2>3
    DEF Sign, evidenceVars, SignedInv, SignedInOrder, CopiesAreTrusted,
        DeploysAreSigned, ServiceIsSigned
<1>8. CASE Attest
  <2>1. \A d \in Digests : sbom[d] # None => sbom'[d] # None
    BY <1>8 DEF Attest, TypeOK
  <2>2. \A e \in Promotions : step'[e] = step[e] /\ Tagged(e)' = Tagged(e)
    BY <1>8 DEF Attest, Goto, TypeOK, Tagged
  <2>3. \A e \in Promotions : step[e] \in {"copy", "verify_copy"} => local[e] \in Digests
    BY DEF StepShape
  <2> QED
    BY <1>8, <2>1, <2>2, <2>3
    DEF Attest, evidenceVars, SignedInv, SignedInOrder, CopiesAreTrusted,
        DeploysAreSigned, ServiceIsSigned
<1>9. CASE CheckRevision
  BY <1>9, SignedKept DEF CheckRevision, Goto, registryVars, evidenceVars, Tagged, TypeOK
<1>10. CASE Load
  BY <1>10, SignedKept DEF Load, Goto, registryVars, Tagged, TypeOK
<1>11. ASSUME NEW e \in Environments, VerifySource(e) PROVE SignedInv'
  <2>1. e \in Promotions
    BY <1>11 DEF VerifySource, StepShape
  <2>2. image[Source(e)][commit[e]] \in Digests \cup {None}
    BY <1>11, <2>1 DEF VerifySource, StepShape, Free, Source, TypeOK
  <2>3. SignedInOrder' /\ ServiceIsSigned' /\ DeploysAreSigned'
    BY <1>11, <2>1 DEF VerifySource, Goto, registryVars, evidenceVars, TypeOK, Tagged,
       SignedInv, SignedInOrder, ServiceIsSigned, DeploysAreSigned
  <2>4. step'[e] = "copy" => Trusted(e, local'[e]) /\ local'[e] \in Digests
    BY <1>11, <2>2 DEF VerifySource, Goto, Trusted, TypeOK
  <2>5. step'[e] = "copy" => <<Source(e), local'[e]>> \in signatures /\ sbom[local'[e]] # None
    BY <2>1, <2>4 DEF Trusted, Source, SignedInv, SignedInOrder
  <2>6. step'[e] # "verify_copy"
    BY <1>11 DEF VerifySource, Goto, TypeOK
  <2>7. CopiesAreTrusted'
    BY <1>11, <2>5, <2>6 DEF VerifySource, Goto, registryVars, TypeOK,
       SignedInv, CopiesAreTrusted, Source
  <2> QED
    BY <2>3, <2>7 DEF SignedInv
<1>12. ASSUME NEW e \in Environments, Copy(e) PROVE SignedInv'
  <2>1. \A f \in Environments : f # e => image'[f] = image[f]
    BY <1>12 DEF Copy, Store, TypeOK
  <2>2. \A f \in Promotions : step'[f] = "deploy" => f # e /\ step[f] = "deploy"
    BY <1>12 DEF Copy, Goto, TypeOK
  <2>3. DeploysAreSigned'
    BY <1>12, <2>1, <2>2 DEF Copy, Tagged, SignedInv, DeploysAreSigned
  <2>4. CopiesAreTrusted'
    BY <1>12 DEF Copy, Goto, TypeOK, SignedInv, CopiesAreTrusted
  <2>5. SignedInOrder' /\ ServiceIsSigned'
    BY <1>12 DEF Copy, evidenceVars, SignedInv, SignedInOrder, ServiceIsSigned
  <2> QED
    BY <2>3, <2>4, <2>5 DEF SignedInv
<1>13. ASSUME NEW e \in Environments, VerifyCopy(e) PROVE SignedInv'
  <2>1. e \in Promotions /\ local[e] \in Digests
    BY <1>13 DEF VerifyCopy, StepShape
  <2>2. /\ <<Source(e), local[e]>> \in signatures
        /\ sbom[local[e]] # None
    BY <1>13, <2>1 DEF VerifyCopy, SignedInv, CopiesAreTrusted
  <2>3. signatures' \in {signatures, signatures \cup {<<e, local[e]>>}}
    BY <1>13 DEF VerifyCopy
  <2>4. SignedInOrder' /\ ServiceIsSigned'
    BY <1>13, <2>2, <2>3 DEF VerifyCopy, evidenceVars, SignedInv, SignedInOrder, ServiceIsSigned
  <2>5. CopiesAreTrusted'
    BY <1>13, <2>3 DEF VerifyCopy, Goto, TypeOK, SignedInv, CopiesAreTrusted
  <2>6. step'[e] = "deploy" => <<e, Tagged(e)>> \in signatures'
    BY <1>13 DEF VerifyCopy, Goto, TypeOK
  <2>7. DeploysAreSigned'
    BY <1>13, <2>3, <2>6 DEF VerifyCopy, Goto, TypeOK, Tagged, SignedInv, DeploysAreSigned
  <2> QED
    BY <2>4, <2>5, <2>7 DEF SignedInv
<1>14. ASSUME NEW e \in Environments, Deploy(e) PROVE SignedInv'
  <2>1. e \in Promotions => <<e, Tagged(e)>> \in signatures
    BY <1>14 DEF Deploy, SignedInv, DeploysAreSigned
  <2>2. ServiceIsSigned'
    BY <1>14, <2>1 DEF Deploy, registryVars, SignedInv, ServiceIsSigned
  <2>3. SignedInOrder' /\ CopiesAreTrusted' /\ DeploysAreSigned'
    BY <1>14 DEF Deploy, Goto, registryVars, TypeOK, Tagged, SignedInv, SignedInOrder,
       CopiesAreTrusted, DeploysAreSigned
  <2> QED
    BY <2>2, <2>3 DEF SignedInv
<1>15. ASSUME NEW e \in Environments, NEW c \in Commits, Promote(e, c) PROVE SignedInv'
  BY <1>15, SignedKept DEF Promote, Start, registryVars, evidenceVars, Tagged, TypeOK
<1>16. ASSUME NEW e \in Environments, NEW c \in Commits, BootstrapService(e, c)
       PROVE  SignedInv'
  <2>1. \A f \in Environments : f # e => image'[f] = image[f]
    BY <1>16 DEF BootstrapService, Store, TypeOK
  <2>2. step[e] # "deploy"
    BY <1>16 DEF BootstrapService, Free
  <2> QED
    BY <1>16, <2>1, <2>2, SignedKept DEF BootstrapService, evidenceVars, Tagged
<1>17. ASSUME NEW e \in Environments, NEW c \in Commits, Expire(e, c) PROVE SignedInv'
  <2>1. \A f \in Promotions : step[f] = "deploy" =>
            Tagged(f)' = Tagged(f) \/ Tagged(f)' = None
    BY <1>17 DEF Expire, Tagged, TypeOK, StepShape, Free
  <2> QED
    BY <1>17, <2>1, SignedKept DEF Expire, evidenceVars
<1> QED
  BY <1>1, <1>2, <1>3, <1>4, <1>5, <1>6, <1>7, <1>8, <1>9, <1>10, <1>11, <1>12,
     <1>13, <1>14, <1>15, <1>16, <1>17 DEF Next

\* What staging or production ever served is signed by it and by every
\* environment before it, and carries an SBOM - whatever was repeated,
\* aborted, rebuilt or expired in between.
THEOREM ServiceIsTrusted == Spec => []ServedIsSigned
<1>1. Init => TypeOK /\ StepShape /\ SignedInv
  BY TypeInit, SignedInit
<1>2. TypeOK /\ StepShape /\ SignedInv /\ [Next]_vars => (TypeOK /\ StepShape /\ SignedInv)'
  BY TypeNext, SignedNext
<1>3. SignedInv => ServedIsSigned
  BY DEF SignedInv, SignedInOrder, ServiceIsSigned, ServedIsSigned, Promotions, Source
<1> QED
  BY <1>1, <1>2, <1>3, PTL DEF Spec

(***************************************************************************)
(* ServedIsOneBuild.  Without expired images a tag never changes again, so *)
(* what a run of a workflow said of a commit stays true of its image.      *)
(***************************************************************************)

ExpiredCommits == {CommitOf(x[2]) : x \in expired}

TagsNameCommits ==
    /\ \A e \in Environments, c \in Commits :
          image[e][c] # None => CommitOf(image[e][c]) = c
    /\ step["dev"] = "push" => CommitOf(local["dev"]) = commit["dev"]
    /\ \A e \in Promotions : step[e] \in {"copy", "verify_copy"} =>
          CommitOf(local[e]) = commit[e]

ImagesAreCopies ==
    /\ \A e \in Promotions, c \in Commits :
          image[e][c] # None /\ c \notin ExpiredCommits => image[Source(e)][c] = image[e][c]
    /\ \A e \in Promotions :
          step[e] = "copy" /\ commit[e] \notin ExpiredCommits =>
              image[Source(e)][commit[e]] = local[e]

PassedIsServed ==
    \A e \in Environments, c \in Commits :
        <<e, c>> \in passed /\ c \notin ExpiredCommits =>
            image[e][c] # None /\ <<e, image[e][c]>> \in served

GatesHold ==
    \A e \in Promotions : ~Free(e) =>
        \A w \in Required(e) : <<w, commit[e]>> \in passed

OneBuildInv ==
    TagsNameCommits /\ ImagesAreCopies /\ PassedIsServed /\ GatesHold /\ ServedIsOneBuild

LEMMA SourceType ==
    ASSUME NEW e \in Promotions
    PROVE  Source(e) \in Environments /\ Source(e) \in Required(e)
  BY DEF Promotions, Environments, Source, Required

LEMMA DigestNamesCommit ==
    ASSUME NEW d \in Digests
    PROVE  CommitOf(d) \in Commits /\ d # None
  BY NoneIsNoDigest DEF Digests, CommitOf

(***************************************************************************)
(* What one step may do to a tag, to a run and to the evidence.            *)
(***************************************************************************)

TagKept(e, c) == image'[e][c] = image[e][c]

TagExpired(e, c) == image'[e][c] = None /\ <<e, image[e][c]>> \in expired'

StoringStep(e) == IF e = "dev" THEN "push" ELSE "copy"

TagStored(e, c) ==
    /\ image[e][c] = None
    /\ \/ /\ step[e] = StoringStep(e) /\ c = commit[e] /\ image'[e][c] = local[e]
       \/ /\ e # "dev" /\ image[Source(e)][c] # None
          /\ image'[e][c] = image[Source(e)][c]

LEMMA StoredTag ==
    ASSUME TypeOK,
           NEW e \in Environments, NEW c \in Commits, NEW d \in Digests,
           Store(e, c, d), image[e][c] = None,
           \/ step[e] = StoringStep(e) /\ c = commit[e] /\ d = local[e]
           \/ e # "dev" /\ image[Source(e)][c] # None /\ d = image[Source(e)][c]
    PROVE  \A f \in Environments, b \in Commits : TagKept(f, b) \/ TagStored(f, b)
<1> TAKE f \in Environments, b \in Commits
<1>1. image'[f][b] = IF f = e /\ b = c THEN d ELSE image[f][b]
  BY StoreEffect
<1>2. CASE f = e /\ b = c
  BY <1>1, <1>2 DEF TagStored
<1>3. CASE ~(f = e /\ b = c)
  BY <1>1, <1>3 DEF TagKept
<1> QED
  BY <1>2, <1>3

LEMMA TagStep ==
    ASSUME TypeOK, StepShape, [Next]_vars,
           NEW e \in Environments, NEW c \in Commits
    PROVE  TagKept(e, c) \/ TagExpired(e, c) \/ TagStored(e, c)
<1>1. CASE image' = image
  BY <1>1 DEF TagKept
<1>2. CASE Push
  <2>1. CASE image["dev"][commit["dev"]] = None
    <3>1. /\ "dev" \in Environments /\ commit["dev"] \in Commits /\ local["dev"] \in Digests
          /\ step["dev"] = StoringStep("dev")
      BY <1>2 DEF Push, StepShape, Free, StoringStep, Environments, Workflows
    <3>2. Store("dev", commit["dev"], local["dev"])
      BY <1>2, <2>1 DEF Push
    <3> QED
      BY <2>1, <3>1, <3>2, StoredTag
  <2>2. CASE image["dev"][commit["dev"]] # None
    BY <1>1, <1>2, <2>2 DEF Push
  <2> QED
    BY <2>1, <2>2
<1>3. ASSUME NEW f \in Environments, Copy(f)
      PROVE  TagKept(e, c) \/ TagExpired(e, c) \/ TagStored(e, c)
  <2>1. CASE Tagged(f) = None
    <3>1. commit[f] \in Commits /\ local[f] \in Digests /\ step[f] = StoringStep(f)
      BY <1>3 DEF Copy, StepShape, Free, StoringStep, Promotions, Environments, Workflows
    <3>2. Store(f, commit[f], local[f]) /\ image[f][commit[f]] = None
      BY <1>3, <2>1 DEF Copy, Tagged
    <3> QED
      BY <3>1, <3>2, StoredTag
  <2>2. CASE Tagged(f) # None
    BY <1>1, <1>3, <2>2 DEF Copy
  <2> QED
    BY <2>1, <2>2
<1>4. ASSUME NEW f \in Environments, NEW b \in Commits, BootstrapService(f, b)
      PROVE  TagKept(e, c) \/ TagExpired(e, c) \/ TagStored(e, c)
  <2>1. CASE image[f][b] = None
    <3>1. f # "dev" /\ image[Source(f)][b] # None
      BY <1>4 DEF BootstrapService
    <3>2. image[Source(f)][b] \in Digests
      BY <3>1 DEF Source, TypeOK, Environments
    <3>3. Store(f, b, image[Source(f)][b])
      BY <1>4, <2>1 DEF BootstrapService
    <3> QED
      BY <2>1, <3>1, <3>2, <3>3, StoredTag
  <2>2. CASE image[f][b] # None
    BY <1>1, <1>4, <2>2 DEF BootstrapService
  <2> QED
    BY <2>1, <2>2
<1>5. ASSUME NEW f \in Environments, NEW b \in Commits, Expire(f, b)
      PROVE  TagKept(e, c) \/ TagExpired(e, c) \/ TagStored(e, c)
  <2>1. image' = [image EXCEPT ![f][b] = None] /\ <<f, image[f][b]>> \in expired'
    BY <1>5 DEF Expire
  <2>2. CASE e = f /\ c = b
    BY <2>1, <2>2 DEF TagExpired, TypeOK
  <2>3. CASE ~(e = f /\ c = b)
    BY <2>1, <2>3 DEF TagKept, TypeOK
  <2> QED
    BY <2>2, <2>3
<1>6. image' = image \/ Push \/ (\E f \in Environments : Copy(f))
      \/ \E f \in Environments, b \in Commits : BootstrapService(f, b) \/ Expire(f, b)
  BY DEF Next, vars, registryVars, Abort, Build, Measure, ScanGate, Sign, Attest,
     CheckRevision, Load, VerifySource, VerifyCopy, Deploy, Promote
<1> QED
  BY <1>1, <1>2, <1>3, <1>4, <1>5, <1>6

\* A run goes on with its commit and digest, reads them, or passes its gates.
RunStep ==
    /\ step'["dev"] = "push" =>
          \/ step["dev"] = "push" /\ UNCHANGED <<commit["dev"], local["dev"]>>
          \/ CommitOf(local'["dev"]) = commit'["dev"]
    /\ \A e \in Promotions :
          /\ step'[e] \in {"copy", "verify_copy"} =>
                \/ /\ step[e] \in {"copy", step'[e]}
                   /\ UNCHANGED <<commit[e], local[e]>>
                \/ /\ UNCHANGED <<commit[e], image>>
                   /\ local'[e] = image[Source(e)][commit[e]] /\ local'[e] # None
          /\ ~Free(e)' =>
                \/ ~Free(e) /\ UNCHANGED commit[e]
                \/ \A w \in Required(e) : <<w, commit'[e]>> \in passed

LEMMA RunStepNext == TypeOK /\ StepShape /\ [Next]_vars => RunStep
<1> SUFFICES ASSUME TypeOK, StepShape, [Next]_vars PROVE RunStep
  OBVIOUS
<1> USE DEF Environments, Workflows, Promotions
<1>1. CASE UNCHANGED vars
  BY <1>1 DEF vars, registryVars, RunStep, Free
<1>2. ASSUME NEW w \in Workflows, Abort(w) PROVE RunStep
  BY <1>2 DEF Abort, Goto, registryVars, RunStep, Free, TypeOK
<1>3. ASSUME NEW c \in Commits, Build(c) PROVE RunStep
  BY <1>3 DEF Build, Start, registryVars, RunStep, Free, TypeOK, CommitOf
<1>4. ASSUME NEW c \in Commits, Measure(c) PROVE RunStep
  BY <1>4 DEF Measure, Start, registryVars, RunStep, Free, TypeOK
<1>5. CASE Push
  BY <1>5 DEF Push, Goto, RunStep, Free, TypeOK
<1>6. CASE ScanGate
  BY <1>6 DEF ScanGate, Goto, registryVars, RunStep, Free, TypeOK
<1>7. CASE Sign
  BY <1>7 DEF Sign, Goto, RunStep, Free, TypeOK
<1>8. CASE Attest
  BY <1>8 DEF Attest, Goto, RunStep, Free, TypeOK
<1>9. CASE CheckRevision
  BY <1>9 DEF CheckRevision, Goto, registryVars, RunStep, Free, TypeOK
<1>10. CASE Load
  BY <1>10 DEF Load, Goto, registryVars, RunStep, Free, TypeOK
<1>11. ASSUME NEW e \in Environments, VerifySource(e) PROVE RunStep
  BY <1>11 DEF VerifySource, Goto, Trusted, registryVars, RunStep, StepShape, Free, TypeOK
<1>12. ASSUME NEW e \in Environments, Copy(e) PROVE RunStep
  BY <1>12 DEF Copy, Goto, RunStep, Free, TypeOK
<1>13. ASSUME NEW e \in Environments, VerifyCopy(e) PROVE RunStep
  BY <1>13 DEF VerifyCopy, Goto, RunStep, Free, TypeOK
<1>14. ASSUME NEW e \in Environments, Deploy(e) PROVE RunStep
  BY <1>14 DEF Deploy, Goto, registryVars, RunStep, Free, TypeOK
<1>15. ASSUME NEW e \in Environments, NEW c \in Commits, Promote(e, c) PROVE RunStep
  BY <1>15 DEF Promote, Start, registryVars, RunStep, Free, TypeOK
<1>16. ASSUME NEW e \in Environments, NEW c \in Commits, BootstrapService(e, c) PROVE RunStep
  BY <1>16 DEF BootstrapService, RunStep, Free
<1>17. ASSUME NEW e \in Environments, NEW c \in Commits, Expire(e, c) PROVE RunStep
  BY <1>17 DEF Expire, RunStep, Free
<1> QED
  BY <1>1, <1>2, <1>3, <1>4, <1>5, <1>6, <1>7, <1>8, <1>9, <1>10, <1>11, <1>12,
     <1>13, <1>14, <1>15, <1>16, <1>17 DEF Next

\* Evidence only grows, and a deployment is what adds to it.
EvidenceStep ==
    /\ passed \subseteq passed' /\ served \subseteq served' /\ expired \subseteq expired'
    /\ \A e \in Environments, c \in Commits :
          <<e, c>> \in passed' => <<e, c>> \in passed \/ (Deploy(e) /\ c = commit[e])
    /\ \A e \in Environments, d \in Digests :
          <<e, d>> \in served' => <<e, d>> \in served \/ (Deploy(e) /\ d = Tagged(e))

LEMMA EvidenceStepNext == [Next]_vars => EvidenceStep
<1> SUFFICES ASSUME [Next]_vars PROVE EvidenceStep
  OBVIOUS
<1>1. CASE UNCHANGED <<passed, served, expired>>
  BY <1>1 DEF EvidenceStep
<1>2. CASE Load
  BY <1>2 DEF Load, EvidenceStep, Environments
<1>3. ASSUME NEW e \in Environments, Deploy(e) PROVE EvidenceStep
  <2>1. /\ passed' = passed \cup {<<e, commit[e]>>}
        /\ served' = served \cup {<<e, Tagged(e)>>}
        /\ expired' = expired
    BY <1>3 DEF Deploy
  <2> QED
    BY <1>3, <2>1 DEF EvidenceStep
<1>4. ASSUME NEW e \in Environments, NEW c \in Commits, Expire(e, c) PROVE EvidenceStep
  BY <1>4 DEF Expire, evidenceVars, EvidenceStep
<1>5. UNCHANGED <<passed, served, expired>> \/ Load \/ (\E e \in Environments : Deploy(e))
      \/ \E e \in Environments, c \in Commits : Expire(e, c)
  BY DEF Next, vars, evidenceVars, Abort, Build, Measure, Push, ScanGate, Sign, Attest,
     CheckRevision, VerifySource, Copy, VerifyCopy, Promote, BootstrapService
<1> QED
  BY <1>1, <1>2, <1>3, <1>4, <1>5

\* Without expired images a tag stays what it is.
LEMMA TagsStay ==
    ASSUME TypeOK, StepShape, TagsNameCommits, [Next]_vars,
           NEW e \in Environments, NEW c \in Commits, c \notin ExpiredCommits'
    PROVE  c \notin ExpiredCommits /\ (image[e][c] # None => image'[e][c] = image[e][c])
<1>1. c \notin ExpiredCommits
  BY EvidenceStepNext DEF EvidenceStep, ExpiredCommits
<1>2. ASSUME image[e][c] # None PROVE image'[e][c] = image[e][c]
  <2>1. CASE TagExpired(e, c)
    BY <1>2, <2>1 DEF TagExpired, TagsNameCommits, ExpiredCommits
  <2>2. ~TagStored(e, c)
    BY <1>2 DEF TagStored
  <2> QED
    BY <2>1, <2>2, TagStep DEF TagKept
<1> QED
  BY <1>1, <1>2

LEMMA OneBuildInit == Init => OneBuildInv
  BY DEF Init, OneBuildInv, TagsNameCommits, ImagesAreCopies, PassedIsServed, GatesHold,
         ServedIsOneBuild, Free, Promotions, Environments, Workflows

LEMMA OneBuildNext == TypeOK /\ StepShape /\ OneBuildInv /\ [Next]_vars => OneBuildInv'
<1> SUFFICES ASSUME TypeOK, StepShape, OneBuildInv, [Next]_vars PROVE OneBuildInv'
  OBVIOUS
<1> USE DEF OneBuildInv
<1>1. RunStep /\ EvidenceStep
  BY RunStepNext, EvidenceStepNext
<1>2. \A e \in Promotions : /\ e \in Environments
                            /\ e # "dev"
                            /\ Source(e) \in Environments
                            /\ Source(e) \in Required(e)
  BY SourceType DEF Promotions, Environments
<1>3. \A e \in Promotions : ~Free(e) => commit[e] \in Commits
  BY DEF StepShape, Promotions, Workflows, Environments
<1>4. \A e \in Promotions : step[e] \in {"copy", "verify_copy"} =>
          commit[e] \in Commits /\ local[e] \in Digests /\ local[e] # None
  BY <1>3, DigestNamesCommit DEF StepShape, Free
<1>5. TagsNameCommits'
  <2>1. ASSUME NEW e \in Environments, NEW c \in Commits, image'[e][c] # None
        PROVE  CommitOf(image'[e][c]) = c
    <3>1. CASE TagKept(e, c)
      BY <2>1, <3>1 DEF TagKept, TagsNameCommits
    <3>2. CASE TagStored(e, c)
      <4>1. CASE step[e] = StoringStep(e) /\ c = commit[e] /\ image'[e][c] = local[e]
        BY <4>1 DEF StoringStep, TagsNameCommits, Promotions, Environments
      <4>2. CASE e # "dev" /\ image[Source(e)][c] # None /\ image'[e][c] = image[Source(e)][c]
        BY <1>2, <4>2 DEF TagsNameCommits, Promotions, Environments
      <4> QED
        BY <3>2, <4>1, <4>2 DEF TagStored
    <3> QED
      BY <2>1, <3>1, <3>2, TagStep DEF TagExpired
  <2>2. step'["dev"] = "push" => CommitOf(local'["dev"]) = commit'["dev"]
    BY <1>1 DEF RunStep, TagsNameCommits
  <2>3. ASSUME NEW e \in Promotions, step'[e] \in {"copy", "verify_copy"}
        PROVE  CommitOf(local'[e]) = commit'[e]
    <3>1. CASE step[e] \in {"copy", step'[e]} /\ UNCHANGED <<commit[e], local[e]>>
      BY <2>3, <3>1 DEF TagsNameCommits
    <3>2. CASE /\ UNCHANGED <<commit[e], image>>
               /\ local'[e] = image[Source(e)][commit[e]] /\ local'[e] # None
      <4>1. commit[e] \in Commits
        BY <2>3, <3>2, TypeNext DEF StepShape, Free, Promotions, Workflows, Environments
      <4> QED
        BY <1>2, <3>2, <4>1 DEF TagsNameCommits
    <3> QED
      BY <1>1, <2>3, <3>1, <3>2 DEF RunStep
  <2> QED
    BY <2>1, <2>2, <2>3 DEF TagsNameCommits
<1>6. ImagesAreCopies'
  <2>1. ASSUME NEW e \in Promotions, NEW c \in Commits, image'[e][c] # None, c \notin ExpiredCommits'
        PROVE  image'[Source(e)][c] = image'[e][c]
    <3>1. c \notin ExpiredCommits /\ (image[Source(e)][c] # None =>
                               image'[Source(e)][c] = image[Source(e)][c])
      BY <1>2, <2>1, TagsStay
    <3>2. CASE TagKept(e, c)
      BY <2>1, <3>1, <3>2 DEF TagKept, ImagesAreCopies
    <3>3. CASE TagStored(e, c)
      <4>1. CASE step[e] = StoringStep(e) /\ c = commit[e] /\ image'[e][c] = local[e]
        BY <1>2, <2>1, <3>1, <4>1 DEF StoringStep, ImagesAreCopies
      <4>2. CASE e # "dev" /\ image[Source(e)][c] # None /\ image'[e][c] = image[Source(e)][c]
        BY <3>1, <4>2
      <4> QED
        BY <3>3, <4>1, <4>2 DEF TagStored
    <3> QED
      BY <1>2, <2>1, <3>2, <3>3, TagStep DEF TagExpired
  <2>2. ASSUME NEW e \in Promotions, step'[e] = "copy", commit'[e] \notin ExpiredCommits'
        PROVE  image'[Source(e)][commit'[e]] = local'[e]
    <3>1. CASE step[e] \in {"copy", step'[e]} /\ UNCHANGED <<commit[e], local[e]>>
      <4>1. commit[e] \in Commits /\ local[e] # None /\ commit[e] \notin ExpiredCommits'
        BY <1>4, <2>2, <3>1 DEF ExpiredCommits
      <4>2. commit[e] \notin ExpiredCommits
        BY <1>2, <4>1, TagsStay
      <4>3. image[Source(e)][commit[e]] = local[e]
        BY <2>2, <3>1, <4>2 DEF ImagesAreCopies
      <4> QED
        BY <1>2, <3>1, <4>1, <4>3, TagsStay
    <3>2. CASE /\ UNCHANGED <<commit[e], image>>
               /\ local'[e] = image[Source(e)][commit[e]] /\ local'[e] # None
      BY <3>2
    <3> QED
      BY <1>1, <2>2, <3>1, <3>2 DEF RunStep
  <2> QED
    BY <2>1, <2>2 DEF ImagesAreCopies
<1>7. PassedIsServed'
  <2>1. ASSUME NEW e \in Environments, NEW c \in Commits, <<e, c>> \in passed', c \notin ExpiredCommits'
        PROVE  image'[e][c] # None /\ <<e, image'[e][c]>> \in served'
    <3>1. CASE <<e, c>> \in passed
      BY <1>1, <2>1, <3>1, TagsStay DEF EvidenceStep, PassedIsServed
    <3>2. CASE Deploy(e) /\ c = commit[e]
      BY <3>2 DEF Deploy, Tagged, registryVars
    <3> QED
      BY <1>1, <2>1, <3>1, <3>2 DEF EvidenceStep
  <2> QED
    BY <2>1 DEF PassedIsServed
<1>8. GatesHold'
  <2>1. ASSUME NEW e \in Promotions, ~Free(e)', NEW w \in Required(e)
        PROVE  <<w, commit'[e]>> \in passed'
    <3>1. <<w, commit'[e]>> \in passed
      BY <1>1, <2>1 DEF RunStep, GatesHold
    <3> QED
      BY <1>1, <3>1 DEF EvidenceStep
  <2>2. \A e \in Promotions : Required(e)' = Required(e)
    BY DEF Required
  <2> QED
    BY <2>1, <2>2 DEF GatesHold
<1>9. ServedIsOneBuild'
  <2>1. ASSUME NEW e \in Promotions, NEW d \in Digests,
               <<e, d>> \in served', CommitOf(d) \notin ExpiredCommits'
        PROVE  <<Source(e), d>> \in served' /\ image'[e][CommitOf(d)] = d
    <3>1. CommitOf(d) \in Commits /\ d # None
      BY DigestNamesCommit
    <3>2. CommitOf(d) \notin ExpiredCommits
      BY <1>2, <2>1, <3>1, TagsStay
    <3>3. CASE <<e, d>> \in served
      <4>1. <<Source(e), d>> \in served /\ image[e][CommitOf(d)] = d
        BY <3>2, <3>3 DEF ServedIsOneBuild, ExpiredCommits, Promotions
      <4> QED
        BY <1>1, <1>2, <2>1, <3>1, <4>1, TagsStay DEF EvidenceStep
    <3>4. CASE Deploy(e) /\ d = Tagged(e)
      <4>1. ~Free(e) /\ image' = image
        BY <3>4 DEF Deploy, Free, registryVars
      <4>2. commit[e] \in Commits /\ <<Source(e), commit[e]>> \in passed
        BY <1>2, <1>3, <4>1 DEF GatesHold
      <4>3. image[e][commit[e]] = d /\ CommitOf(d) = commit[e]
        BY <1>2, <3>1, <3>4, <4>2 DEF Tagged, TagsNameCommits
      <4>4. image[Source(e)][commit[e]] = d
        BY <3>1, <3>2, <4>2, <4>3 DEF ImagesAreCopies
      <4>5. <<Source(e), d>> \in served
        BY <1>2, <3>2, <4>2, <4>3, <4>4 DEF PassedIsServed
      <4> QED
        BY <1>1, <4>1, <4>3, <4>5 DEF EvidenceStep
    <3> QED
      BY <1>1, <1>2, <2>1, <3>3, <3>4 DEF EvidenceStep
  <2> QED
    BY <2>1 DEF ServedIsOneBuild, ExpiredCommits, Promotions
<1> QED
  BY <1>5, <1>6, <1>7, <1>8, <1>9

\* README.md, "Staging artifact promotion": build once, deploy everywhere.
\* What staging or production served was served by the environment before it,
\* bit for bit, unless an image of its commit expired.
THEOREM OneBuildEverywhere == Spec => []ServedIsOneBuild
<1>1. Init => TypeOK /\ StepShape /\ OneBuildInv
  BY TypeInit, OneBuildInit
<1>2. TypeOK /\ StepShape /\ OneBuildInv /\ [Next]_vars
         => (TypeOK /\ StepShape /\ OneBuildInv)'
  BY TypeNext, OneBuildNext
<1>3. OneBuildInv => ServedIsOneBuild
  BY DEF OneBuildInv
<1> QED
  BY <1>1, <1>2, <1>3, PTL DEF Spec
=================================================================================
