--------------------------- MODULE Release_proofs ---------------------------
(***************************************************************************)
(* What a release is worth, for every set of images, jobs, runs, candidate *)
(* promotions and calls of the gate, every registry and every bound.       *)
(*                                                                         *)
(* First the publication alone: what a tag and a manifest mean.  The       *)
(* invariant has a part for each push and its job, one for each run, one   *)
(* for each candidate promotion and one for the registry; a step of one    *)
(* job leaves the parts of the others alone, because the registry only     *)
(* grows.  Then the publication of a gated commit, which is still a        *)
(* publication, so that its tags and its manifest mean the same; and the   *)
(* gate, which only authorizes a commit when both its halves have passed,  *)
(* whatever jobs failed and were run again on the way.                     *)
(***************************************************************************)
EXTENDS Release, SequenceTheorems, TLAPS

TagsOfReleases == {ReleaseTag[h] : h \in Commit} \cup {ShaTag[h] : h \in Commit}
Uploading == {"HEAD_blob", "POST_upload", "PUT_upload"}
Decided == {"validated", "released", "unreleased"}
Settled == {"built", "promoted", "unpromoted"} \cup Promoting

\* A push knows what it has left behind in its repository.
PushInv(j) ==
    /\ request[j] # "none" =>
          stage[j] = "push" /\ image[j] \in Digest /\ tag[j] \in Tag \ TagsOfReleases
    /\ request[j] \in Uploading =>
          /\ at[j] \in 1..Len(Blobs[image[j]])
          /\ \A i \in 1..(at[j] - 1) : Blobs[image[j]][i] \in blobs[ServiceOf[j]]
    /\ request[j] = "PUT_child" =>
          /\ at[j] \in 1..Len(Children[image[j]])
          /\ Members(Blobs[image[j]]) \subseteq blobs[ServiceOf[j]]
          /\ \A i \in 1..(at[j] - 1) : Children[image[j]][i] \in manifests[ServiceOf[j]]
    /\ request[j] \in {"PUT_tag", "HEAD_tag", "pushed"} =>
          /\ Members(Blobs[image[j]]) \subseteq blobs[ServiceOf[j]]
          /\ Members(Children[image[j]]) \subseteq manifests[ServiceOf[j]]
    /\ request[j] \in {"HEAD_tag", "pushed"} => image[j] \in manifests[ServiceOf[j]]

\* What a job has pushed is in the registry, and what passed was vetted.
ImageInv(j) ==
    /\ stage[j] = "vet" => image[j] \in Digest /\ image[j] \in manifests[ServiceOf[j]]
    /\ fragment[j] # NoFile =>
          /\ fragment[j].digest \in manifests[ServiceOf[j]]
          /\ fragment[j].passed =>
                <<ServiceOf[j], CommitFor(j), fragment[j].digest>> \in vetted

\* A run has a receipt, and promotions, once its set was accepted; from then on
\* the fragments of its jobs stay as they were.
RunInv(r) ==
    /\ verdict[r] \in Decided =>
          /\ receipt[r] = ImagesOf(r)
          /\ \A j \in JobsOf(r) :
                stage[j] \in Settled /\ fragment[j] # NoFile /\ fragment[j].passed
          /\ \A i \in Unchanged[r], j \in JobsOf(r) : i[1] # ServiceOf[j]
    /\ verdict[r] \notin Decided =>
          /\ receipt[r] = NoFile
          /\ \A j \in JobsOf(r) : stage[j] \notin Settled \ {"built"}
    /\ \A j \in JobsOf(r) :
          stage[j] = "promoted" => released[j] = <<ServiceOf[j], fragment[j].digest>>
    /\ manifest[r] # NoFile =>
          /\ verdict[r] = "released"
          /\ manifest[r] = {<<ServiceOf[j], fragment[j].digest>> : j \in JobsOf(r)}

\* A candidate promotion has one candidate, which it has checked.
CandidateInv(c) ==
    /\ stage[c] = "queued" => candidate[c] = NoDigest
    /\ stage[c] \in Promoting => candidate[c] # NoDigest
    /\ candidate[c] # NoDigest => <<PromotedService[c], CommitOf[c], candidate[c]>> \in vetted

\* An image is in a repository with all it refers to, and before its tags.
RegistryInv ==
    /\ \A s \in Service, d \in Digest : d \in manifests[s] => Whole(s, d)
    /\ \A s \in Service, t \in Tag : tags[s][t] # NoDigest => tags[s][t] \in manifests[s]

\* What stands behind a release tag of commit h that names image d.
Backed(s, h, d) ==
    /\ <<s, h, d>> \in vetted
    /\ \/ \E c \in Promotion : CommitOf[c] = h /\ candidate[c] = d
       \/ \E r \in Run :
             /\ CommitOf[r] = h
             /\ receipt[r] # NoFile
             /\ <<s, d>> \in receipt[r]
             /\ \A i \in receipt[r] \ Unchanged[r] : <<i[1], h, i[2]>> \in vetted

ReleaseInv ==
    \A s \in Service, h \in Commit : \A t \in {ReleaseTag[h], ShaTag[h]} :
        tags[s][t] # NoDigest => Backed(s, h, tags[s][t])

IInv ==
    /\ TypeOK
    /\ \A j \in Job : PushInv(j) /\ ImageInv(j)
    /\ \A r \in Run : RunInv(r)
    /\ \A c \in Promotion : CandidateInv(c)
    /\ RegistryInv
    /\ ReleaseInv

-----------------------------------------------------------------------------
(* What a step may do without touching a part of the invariant.            *)

Grows ==
    /\ \A s \in Service : blobs[s] \subseteq blobs'[s] /\ manifests[s] \subseteq manifests'[s]
    /\ vetted \subseteq vetted'

JobFrame(j) ==
    /\ request'[j] = request[j]
    /\ request[j] # "none" =>
          at'[j] = at[j] /\ image'[j] = image[j] /\ tag'[j] = tag[j] /\ stage'[j] = stage[j]
    /\ stage'[j] = "vet" => stage[j] = "vet" /\ image'[j] = image[j]
    /\ fragment'[j] = fragment[j]

RunFrame(r) ==
    /\ verdict'[r] = verdict[r] /\ receipt'[r] = receipt[r] /\ manifest'[r] = manifest[r]
    /\ verdict[r] \in Decided =>
          \A j \in JobsOf(r) :
             /\ fragment'[j] = fragment[j]
             /\ stage'[j] \in Settled
             /\ stage'[j] = "promoted" => released'[j] = <<ServiceOf[j], fragment[j].digest>>
    /\ verdict[r] \notin Decided => \A j \in JobsOf(r) : stage'[j] \notin Settled \ {"built"}

CandidateFrame(c) ==
    /\ candidate'[c] = candidate[c]
    /\ stage'[c] = "queued" => stage[c] = "queued"
    /\ stage'[c] \in Promoting => stage[c] \in Promoting

ReleaseFrame ==
    /\ \A s \in Service, t \in TagsOfReleases : tags'[s][t] = tags[s][t]
    /\ vetted \subseteq vetted'
    /\ \A r \in Run : receipt[r] # NoFile => receipt'[r] = receipt[r]
    /\ \A c \in Promotion : candidate[c] # NoDigest => candidate'[c] = candidate[c]

\* What holds of a push holds on, whatever other jobs store: a registry only
\* grows (push_oci_layout.py deletes nothing).
LEMMA PushKeeps ==
    ASSUME NEW j \in Job, PushInv(j), JobFrame(j), Grows
    PROVE  PushInv(j)'
<1>1. ServiceOf[j] \in Service
  BY ImagesAssumption
<1> QED
  BY <1>1 DEF PushInv, JobFrame, Grows, Uploading

\* What holds of a job's image and fragment holds on through the steps of others.
LEMMA ImageKeeps ==
    ASSUME NEW j \in Job, ImageInv(j), JobFrame(j), Grows
    PROVE  ImageInv(j)'
<1>1. ServiceOf[j] \in Service
  BY ImagesAssumption
<1> QED
  BY <1>1 DEF ImageInv, JobFrame, Grows

\* What holds of a run holds on as long as its frame does.
LEMMA RunMoves ==
    ASSUME NEW r \in Run, RunInv(r), RunFrame(r)
    PROVE  RunInv(r)'
<1>1. CASE verdict[r] \in Decided
  <2>1. \A j \in JobsOf(r) : fragment'[j] = fragment[j]
    BY <1>1 DEF RunFrame
  <2>2. {<<ServiceOf[j], fragment'[j].digest>> : j \in JobsOf(r)}
          = {<<ServiceOf[j], fragment[j].digest>> : j \in JobsOf(r)}
    BY <2>1
  <2>3. ImagesOf(r)' = ImagesOf(r)
    BY <2>2 DEF ImagesOf, JobsOf
  <2>4. JobsOf(r)' = JobsOf(r)
    BY DEF JobsOf
  <2> QED
    BY <1>1, <2>1, <2>2, <2>3, <2>4 DEF RunInv, RunFrame
<1>2. CASE verdict[r] \notin Decided
  <2>1. verdict[r] # "released"
    BY <1>2 DEF Decided
  <2>2. \A j \in JobsOf(r) : stage'[j] # "promoted"
    BY <1>2 DEF RunFrame, Settled
  <2>3. JobsOf(r)' = JobsOf(r)
    BY DEF JobsOf
  <2> QED
    BY <1>2, <2>1, <2>2, <2>3 DEF RunInv, RunFrame
<1> QED
  BY <1>1, <1>2

\* A run whose jobs, verdict, receipt and manifest stay is not concerned.
LEMMA RunKeeps ==
    ASSUME NEW r \in Run, RunInv(r),
           verdict'[r] = verdict[r], receipt'[r] = receipt[r], manifest'[r] = manifest[r],
           \A j \in JobsOf(r) : /\ fragment'[j] = fragment[j] /\ stage'[j] = stage[j]
                                /\ released'[j] = released[j]
    PROVE  RunInv(r)'
<1>1. RunFrame(r)
  BY DEF RunFrame, RunInv
<1> QED
  BY <1>1, RunMoves

\* A candidate promotion whose own state stays is not concerned.
LEMMA CandidateKeeps ==
    ASSUME NEW c \in Promotion, CandidateInv(c), CandidateFrame(c), vetted \subseteq vetted'
    PROVE  CandidateInv(c)'
BY DEF CandidateInv, CandidateFrame

\* Release tags that stay are still vetted: nothing is taken out of vetted.
LEMMA ReleaseKeeps ==
    ASSUME ReleaseInv, ReleaseFrame
    PROVE  ReleaseInv'
<1>1. ASSUME NEW s \in Service, NEW h \in Commit, NEW t \in {ReleaseTag[h], ShaTag[h]},
             tags'[s][t] # NoDigest
      PROVE  Backed(s, h, tags[s][t])'
  <2> DEFINE d == tags[s][t]
  <2>1. t \in TagsOfReleases
    BY DEF TagsOfReleases
  <2>2. tags'[s][t] = d
    BY <2>1 DEF ReleaseFrame
  <2>3. Backed(s, h, d) /\ d # NoDigest
    BY <1>1, <2>2 DEF ReleaseInv
  <2> HIDE DEF d
  <2>4. CASE \E c \in Promotion : CommitOf[c] = h /\ candidate[c] = d
    <3>1. \E c \in Promotion : CommitOf[c] = h /\ candidate'[c] = d
      BY <2>3, <2>4 DEF ReleaseFrame
    <3> QED
      BY <2>2, <2>3, <3>1 DEF Backed, ReleaseFrame
  <2>5. ASSUME NEW r \in Run, CommitOf[r] = h, receipt[r] # NoFile, <<s, d>> \in receipt[r],
               \A i \in receipt[r] \ Unchanged[r] : <<i[1], h, i[2]>> \in vetted
        PROVE  Backed(s, h, tags[s][t])'
    <3>1. receipt'[r] = receipt[r] /\ vetted \subseteq vetted'
      BY <2>5 DEF ReleaseFrame
    <3> QED
      BY <2>2, <2>3, <2>5, <3>1 DEF Backed
  <2> QED
    BY <2>3, <2>4, <2>5 DEF Backed
<1> QED
  BY <1>1 DEF ReleaseInv

\* A repository in which an image only arrives with, or after, all it refers
\* to, and a tag only after its image.
LEMMA RegistryKeeps ==
    ASSUME RegistryInv, Grows,
           \A s \in Service, d \in Digest :
              d \in manifests'[s] \ manifests[s] =>
                 /\ Members(Children[d]) \subseteq manifests'[s]
                 /\ Members(Blobs[d]) \subseteq blobs'[s],
           \A s \in Service, t \in Tag :
              tags'[s][t] = tags[s][t] \/ tags'[s][t] \in manifests'[s]
    PROVE  RegistryInv'
<1>1. ASSUME NEW s \in Service, NEW d \in Digest, d \in manifests'[s]
      PROVE  Whole(s, d)'
  <2>1. CASE d \in manifests[s]
    <3>1. Whole(s, d)
      BY <2>1 DEF RegistryInv
    <3> QED
      BY <3>1 DEF Whole, Grows
  <2>2. CASE d \notin manifests[s]
    BY <1>1, <2>2 DEF Whole
  <2> QED
    BY <2>1, <2>2
<1>2. ASSUME NEW s \in Service, NEW t \in Tag, tags'[s][t] # NoDigest
      PROVE  tags'[s][t] \in manifests'[s]
  BY <1>2 DEF RegistryInv, Grows
<1> QED
  BY <1>1, <1>2 DEF RegistryInv

\* One tag of one repository is written.
LEMMA OneTag ==
    ASSUME TypeOK, NEW s \in Service, NEW t \in Tag, NEW d \in Digest,
           tags' = [tags EXCEPT ![s][t] = d]
    PROVE  /\ tags' \in [Service -> [Tag -> Digest \cup {NoDigest}]]
           /\ tags'[s][t] = d
           /\ \A u \in Service, v \in Tag : u # s \/ v # t => tags'[u][v] = tags[u][v]
<1>1. tags \in [Service -> [Tag -> Digest \cup {NoDigest}]]
  BY DEF TypeOK, PushTypeOK
<1>2. tags[s] \in [Tag -> Digest \cup {NoDigest}]
  BY <1>1
<1>3. tags' = [tags EXCEPT ![s] = [tags[s] EXCEPT ![t] = d]]
  OBVIOUS
<1>4. [tags[s] EXCEPT ![t] = d] \in [Tag -> Digest \cup {NoDigest}]
  BY <1>2
<1>5. tags'[s] = [tags[s] EXCEPT ![t] = d] /\ \A u \in Service : u # s => tags'[u] = tags[u]
  BY <1>1, <1>3
<1>6. tags' \in [Service -> [Tag -> Digest \cup {NoDigest}]]
  BY <1>1, <1>3, <1>4
<1>7. tags'[s][t] = d /\ \A v \in Tag : v # t => tags'[s][v] = tags[s][v]
  BY <1>2, <1>5
<1> QED
  BY <1>5, <1>6, <1>7

\* One repository gets some more of what it stores.
LEMMA OneRepository ==
    ASSUME NEW Stored, NEW f \in [Service -> SUBSET Stored], NEW s \in Service,
           NEW X \in SUBSET Stored
    PROVE  LET g == [f EXCEPT ![s] = @ \cup X] IN
           /\ g \in [Service -> SUBSET Stored]
           /\ g[s] = f[s] \cup X
           /\ \A u \in Service : f[u] \subseteq g[u] /\ (u # s => g[u] = f[u])
OBVIOUS

-----------------------------------------------------------------------------
(* The requests of a push.                                                 *)

\* After the last request about a blob, the push has left that blob behind.
LEMMA BlobDone ==
    ASSUME TypeOK, NEW j \in Job, PushInv(j), request[j] \in Uploading,
           AfterBlob(j), Grows, ThisBlob(j) \in blobs'[ServiceOf[j]],
           UNCHANGED <<image, tag, stage>>
    PROVE  /\ request' \in [Job -> Request] /\ at' \in [Job -> Nat]
           /\ PushInv(j)'
           /\ \A k \in Job : k # j => request'[k] = request[k] /\ at'[k] = at[k]
<1> DEFINE d == image[j]
           s == ServiceOf[j]
<1>1. d \in Digest /\ s \in Service /\ stage[j] = "push" /\ tag[j] \in Tag \ TagsOfReleases
  BY ImagesAssumption DEF PushInv, Uploading
<1>2. at[j] \in 1..Len(Blobs[d]) /\ \A i \in 1..(at[j] - 1) : Blobs[d][i] \in blobs[s]
  BY DEF PushInv
<1>3. Len(Blobs[d]) \in Nat /\ Len(Children[d]) \in Nat
  BY <1>1, LayoutAssumption
<1>4. \A i \in 1..at[j] : Blobs[d][i] \in blobs'[s]
  BY <1>1, <1>2, <1>3 DEF ThisBlob, Grows
<1>5. request \in [Job -> Request] /\ at \in [Job -> Nat]
  BY DEF TypeOK, PushTypeOK
<1>6. CASE at[j] < Len(Blobs[d])
  <2>1. request' = [request EXCEPT ![j] = "HEAD_blob"] /\ at' = [at EXCEPT ![j] = at[j] + 1]
    BY <1>6 DEF AfterBlob, Goes
  <2>2. request'[j] = "HEAD_blob" /\ at'[j] = at[j] + 1
    BY <1>5, <2>1
  <2>3. at'[j] \in 1..Len(Blobs[d]) /\ at'[j] - 1 = at[j]
    <3>1. at[j] \in 1..Len(Blobs[d]) /\ at'[j] = at[j] + 1
      BY <1>2, <2>2
    <3> HIDE DEF d
    <3> QED
      BY <1>3, <1>6, <3>1
  <2>4. \A i \in 1..(at'[j] - 1) : Blobs[d][i] \in blobs'[s]
    BY <1>4, <2>3
  <2>5. PushInv(j)'
    <3>1. image'[j] = d /\ stage'[j] = "push" /\ tag'[j] \in Tag \ TagsOfReleases /\ d \in Digest
      BY <1>1
    <3>2. request'[j] = "HEAD_blob"
      BY <2>2
    <3>3. at'[j] \in 1..Len(Blobs[image'[j]])
      BY <2>3, <3>1
    <3>4. \A i \in 1..(at'[j] - 1) : Blobs[image'[j]][i] \in blobs'[ServiceOf[j]]
      BY <2>4, <3>1
    <3> HIDE DEF d, s
    <3>5. request'[j] # "none" =>
             stage'[j] = "push" /\ image'[j] \in Digest /\ tag'[j] \in Tag \ TagsOfReleases
      BY <3>1
    <3>6. request'[j] \notin {"PUT_child", "PUT_tag", "HEAD_tag", "pushed"}
      BY <3>2
    <3> QED
      BY <3>3, <3>4, <3>5, <3>6 DEF PushInv
  <2>6. "HEAD_blob" \in Request
    BY DEF Request, Sending
  <2>7. request' \in [Job -> Request] /\ \A k \in Job : k # j => request'[k] = request[k]
    BY <1>5, <2>1, <2>6
  <2>8. at[j] + 1 \in Nat
    BY <1>5
  <2>9. at' \in [Job -> Nat] /\ \A k \in Job : k # j => at'[k] = at[k]
    BY <1>5, <2>1, <2>8
  <2> QED
    BY <2>5, <2>7, <2>9
<1>7. CASE ~(at[j] < Len(Blobs[d]))
  <2>1. Members(Blobs[d]) \subseteq blobs'[s]
    BY <1>2, <1>3, <1>4, <1>7 DEF Members
  <2> DEFINE q == IF Children[d] = << >> THEN "PUT_tag" ELSE "PUT_child"
  <2>2. request' = [request EXCEPT ![j] = q] /\ at' = [at EXCEPT ![j] = 1]
    BY <1>7 DEF AfterBlob, Goes
  <2>3. request'[j] = q /\ at'[j] = 1
    BY <1>5, <2>2
  <2>4. q \in Request
    BY DEF Request, Sending
  <2>5. request' \in [Job -> Request] /\ at' \in [Job -> Nat]
    BY <1>5, <2>2, <2>4
  <2>6. CASE Children[d] = << >>
    <3>1. Members(Children[d]) = {}
      BY <2>6 DEF Members
    <3>2. request'[j] = "PUT_tag"
      BY <2>3, <2>6
    <3>3. PushInv(j)'
      BY <1>1, <2>1, <3>1, <3>2 DEF PushInv, Uploading
    <3> QED
      BY <1>5, <2>2, <2>5, <3>3
  <2>7. CASE Children[d] # << >>
    <3>1. request'[j] = "PUT_child"
      BY <2>3, <2>7
    <3>2. Len(Children[d]) # 0
      BY <1>1, <2>7, LayoutAssumption, EmptySeq
    <3>3. at'[j] = 1
      BY <2>3
    <3>6. \A i \in 1..(at'[j] - 1) : FALSE
      BY <3>3
    <3>5. 1 \in 1..Len(Children[d])
      BY <1>3, <3>2
    <3>4. PushInv(j)'
      BY <1>1, <2>1, <3>1, <3>3, <3>5, <3>6 DEF PushInv, Uploading
    <3> QED
      BY <1>5, <2>2, <2>5, <3>4
  <2> QED
    BY <2>6, <2>7
<1> QED
  BY <1>6, <1>7

\* An upload that takes effect (push_oci_layout.py, PUT of an upload) adds the
\* blob and leaves every tag whole.
LEMMA StoresBlob ==
    ASSUME TypeOK, RegistryInv, NEW j \in Job, PushInv(j), request[j] \in Uploading,
           StoreBlob(j), UNCHANGED <<manifests, tags, vetted>>
    PROVE  /\ blobs' \in [Service -> SUBSET Blob]
           /\ ThisBlob(j) \in blobs'[ServiceOf[j]]
           /\ Grows /\ RegistryInv'
<1>1. ServiceOf[j] \in Service /\ image[j] \in Digest
  BY ImagesAssumption DEF PushInv, Uploading
<1>2. at[j] \in 1..Len(Blobs[image[j]])
  BY DEF PushInv
<1>3. ThisBlob(j) \in Blob
  BY <1>1, <1>2 DEF ThisBlob, Blob, Members
<1>4. blobs \in [Service -> SUBSET Blob]
  BY DEF TypeOK, PushTypeOK
<1>5. blobs' = [blobs EXCEPT ![ServiceOf[j]] = @ \cup {ThisBlob(j)}]
  BY DEF StoreBlob, Repository
<1> DEFINE X == {ThisBlob(j)}
<1>6. X \in SUBSET Blob
  BY <1>3
<1>7. /\ blobs' \in [Service -> SUBSET Blob]
      /\ blobs'[ServiceOf[j]] = blobs[ServiceOf[j]] \cup X
      /\ \A u \in Service : blobs[u] \subseteq blobs'[u]
  BY <1>1, <1>4, <1>5, <1>6, OneRepository
<1>8. Grows
  BY <1>7 DEF Grows
<1>9. RegistryInv'
  BY <1>8, RegistryKeeps
<1> QED
  BY <1>7, <1>8, <1>9

\* A child manifest that takes effect is stored after all of its blobs, so the
\* registry stays whole.
LEMMA StoresChild ==
    ASSUME TypeOK, RegistryInv, NEW j \in Job, PushInv(j), request[j] = "PUT_child",
           StoreChild(j), UNCHANGED <<blobs, tags, vetted>>
    PROVE  /\ manifests' \in [Service -> SUBSET Manifest]
           /\ Children[image[j]][at[j]] \in manifests'[ServiceOf[j]]
           /\ Grows /\ RegistryInv'
<1> DEFINE d == image[j]
           s == ServiceOf[j]
           child == Children[d][at[j]]
           X == {child}
<1>1. s \in Service /\ d \in Digest
  BY ImagesAssumption DEF PushInv
<1>2. /\ at[j] \in 1..Len(Children[d])
      /\ Members(Blobs[d]) \subseteq blobs[s]
      /\ \A i \in 1..(at[j] - 1) : Children[d][i] \in manifests[s]
  BY DEF PushInv
<1>3. X \in SUBSET Manifest
  <2>1. child \in Members(Children[d])
    BY <1>2 DEF Members
  <2>2. child \in Manifest
    BY <1>1, <2>1 DEF Manifest
  <2> QED
    BY <2>2
<1>4. manifests \in [Service -> SUBSET Manifest]
  BY DEF TypeOK, PushTypeOK
<1>5. manifests' = [manifests EXCEPT ![s] = @ \cup X]
  BY DEF StoreChild, Repository
<1> HIDE DEF X
<1>6. /\ manifests' \in [Service -> SUBSET Manifest]
      /\ manifests'[s] = manifests[s] \cup X
      /\ \A u \in Service : /\ manifests[u] \subseteq manifests'[u]
                            /\ u # s => manifests'[u] = manifests[u]
  BY <1>1, <1>3, <1>4, <1>5, OneRepository
<1>7. Grows
  BY <1>6 DEF Grows
<1>8. ASSUME child \in Digest
      PROVE  Members(Children[child]) \subseteq manifests[s] /\ Members(Blobs[child]) \subseteq blobs[s]
  <2>1. /\ Members(Blobs[child]) \subseteq Members(Blobs[d])
        /\ Members(Children[child]) \subseteq {Children[d][k] : k \in 1..(at[j] - 1)}
    BY <1>1, <1>2, <1>8, LayoutAssumption
  <2> QED
    BY <1>2, <2>1
<1>9. ASSUME NEW u \in Service, NEW e \in Digest, e \in manifests'[u] \ manifests[u]
      PROVE  Members(Children[e]) \subseteq manifests'[u] /\ Members(Blobs[e]) \subseteq blobs'[u]
  <2>1. u = s /\ e = child
    BY <1>6, <1>9 DEF X
  <2> QED
    BY <1>6, <1>8, <1>9, <2>1
<1>10. RegistryInv'
  BY <1>7, <1>9, RegistryKeeps
<1> QED
  BY <1>6, <1>7, <1>10 DEF X

\* The tag takes effect when all of the image is there, and release tags are
\* none of a push's.
LEMMA StoresTag ==
    ASSUME TypeOK, RegistryInv, NEW j \in Job, PushInv(j), request[j] = "PUT_tag",
           StoreTag(j), UNCHANGED <<blobs, vetted>>
    PROVE  /\ manifests' \in [Service -> SUBSET Manifest]
           /\ tags' \in [Service -> [Tag -> Digest \cup {NoDigest}]]
           /\ image[j] \in manifests'[ServiceOf[j]]
           /\ \A s \in Service, t \in TagsOfReleases : tags'[s][t] = tags[s][t]
           /\ Grows /\ RegistryInv'
<1> DEFINE d == image[j]
           s == ServiceOf[j]
           X == {d}
<1>1. s \in Service /\ d \in Digest /\ tag[j] \in Tag \ TagsOfReleases
  BY ImagesAssumption DEF PushInv
<1>2. Members(Blobs[d]) \subseteq blobs[s] /\ Members(Children[d]) \subseteq manifests[s]
  BY DEF PushInv
<1>3. manifests \in [Service -> SUBSET Manifest] /\ X \in SUBSET Manifest
  BY <1>1 DEF TypeOK, PushTypeOK, Manifest
<1>4. manifests' = [manifests EXCEPT ![s] = @ \cup X]
  BY DEF StoreTag, Repository
<1> HIDE DEF X
<1>5. /\ manifests' \in [Service -> SUBSET Manifest]
      /\ manifests'[s] = manifests[s] \cup X
      /\ \A u \in Service : /\ manifests[u] \subseteq manifests'[u]
                            /\ u # s => manifests'[u] = manifests[u]
  BY <1>1, <1>3, <1>4, OneRepository
<1>6. Grows
  BY <1>5 DEF Grows
<1>7. tags' = [tags EXCEPT ![s][tag[j]] = d]
  BY DEF StoreTag, Repository
<1>8. /\ tags' \in [Service -> [Tag -> Digest \cup {NoDigest}]]
      /\ tags'[s][tag[j]] = d
      /\ \A u \in Service, v \in Tag : u # s \/ v # tag[j] => tags'[u][v] = tags[u][v]
  BY <1>1, <1>7, OneTag, ZenonT(40)
<1>9. TagsOfReleases \subseteq Tag
  BY TagsAssumption DEF TagsOfReleases
<1>10. \A u \in Service, e \in Digest :
          e \in manifests'[u] \ manifests[u] =>
             Members(Children[e]) \subseteq manifests'[u] /\ Members(Blobs[e]) \subseteq blobs'[u]
  <2>1. ASSUME NEW u \in Service, NEW e \in Digest, e \in manifests'[u] \ manifests[u]
        PROVE  u = s /\ e = d
    BY <1>5, <2>1 DEF X
  <2>2. Members(Children[d]) \subseteq manifests'[s] /\ Members(Blobs[d]) \subseteq blobs'[s]
    BY <1>1, <1>2, <1>5
  <2> QED
    BY <2>1, <2>2
<1>11. \A u \in Service, v \in Tag : tags'[u][v] = tags[u][v] \/ tags'[u][v] \in manifests'[u]
  <2>1. d \in manifests'[s]
    BY <1>5 DEF X
  <2> QED
    BY <1>8, <2>1
<1>12. RegistryInv'
  BY <1>6, <1>10, <1>11, RegistryKeeps
<1> QED
  BY <1>1, <1>5, <1>6, <1>8, <1>9, <1>12 DEF X

\* One request of a push, served or not.
LEMMA PushCorrect ==
    ASSUME TypeOK, RegistryInv, NEW j \in Job, PushInv(j), PushStep(j),
           UNCHANGED <<stage, vetted>>
    PROVE  /\ PushTypeOK' /\ PushInv(j)' /\ RegistryInv' /\ Grows
           /\ image' = image /\ tag' = tag
           /\ \A k \in Job : k # j => request'[k] = request[k] /\ at'[k] = at[k]
           /\ \A s \in Service, t \in TagsOfReleases : tags'[s][t] = tags[s][t]
<1> USE DEF pushVars, registry, client
<1>1. PushTypeOK
  BY DEF TypeOK
<1>2. ServiceOf[j] \in Service
  BY ImagesAssumption
<1>3. ASSUME UNCHANGED registry
      PROVE  Grows /\ RegistryInv'
  BY <1>3 DEF Grows, RegistryInv, Whole
\* A step that only changes the request, to one after which nothing is known.
<1>4. ASSUME NEW q \in Request \ {"none"}, q \notin {"PUT_child", "PUT_tag", "HEAD_tag", "pushed"},
             request[j] # "none", Goes(j, q), UNCHANGED <<at, image, tag>>,
             q \in Uploading => request[j] \in Uploading, Grows
      PROVE  request' \in [Job -> Request] /\ PushInv(j)'
             /\ \A k \in Job : k # j => request'[k] = request[k]
  <2>1. request' \in [Job -> Request] /\ request'[j] = q
        /\ \A k \in Job : k # j => request'[k] = request[k]
    BY <1>1, <1>4 DEF PushTypeOK, Goes
  <2>2. PushInv(j)'
    BY <1>2, <1>4, <2>1 DEF PushInv, Grows, Uploading
  <2> QED
    BY <2>1, <2>2
<1>5. CASE LoadLayout(j)
  <2>1. CASE Goes(j, "failed") /\ UNCHANGED at
    <3>1. UNCHANGED <<registry, refreshes, image, tag>> /\ request[j] # "none"
      BY <1>5 DEF LoadLayout
    <3>2. "failed" \in Request \ {"none"} /\ "failed" \notin Uploading
      BY DEF Request, Uploading
    <3>3. request' \in [Job -> Request] /\ PushInv(j)'
          /\ \A k \in Job : k # j => request'[k] = request[k]
      BY <1>3, <1>4, <2>1, <3>1, <3>2
    <3> QED
      BY <1>1, <1>3, <2>1, <3>1, <3>3 DEF PushTypeOK
  <2>2. CASE Goes(j, "HEAD_blob") /\ at' = [at EXCEPT ![j] = 1]
    <3>1. UNCHANGED <<registry, refreshes, image, tag>> /\ request[j] = "load"
      BY <1>5 DEF LoadLayout
    <3>2. request'[j] = "HEAD_blob" /\ at'[j] = 1 /\ request' \in [Job -> Request]
          /\ at' \in [Job -> Nat]
          /\ \A k \in Job : k # j => request'[k] = request[k] /\ at'[k] = at[k]
      BY <1>1, <2>2 DEF PushTypeOK, Goes, Request, Sending
    <3>3. image[j] \in Digest /\ stage[j] = "push" /\ tag[j] \in Tag \ TagsOfReleases
      BY <3>1 DEF PushInv
    <3>4. Len(Blobs[image[j]]) \in Nat \ {0}
      BY <3>3, LayoutAssumption, EmptySeq
    <3>5. at'[j] = 1
      BY <3>2
    <3>8. \A i \in 1..(at'[j] - 1) : FALSE
      BY <3>5
    <3>7. 1 \in 1..Len(Blobs[image[j]])
      BY <3>4
    <3>6. PushInv(j)'
      BY <3>1, <3>2, <3>3, <3>5, <3>7, <3>8 DEF PushInv, Uploading
    <3> QED
      BY <1>1, <1>3, <3>1, <3>2, <3>6 DEF PushTypeOK
  <2> QED
    BY <1>5, <2>1, <2>2 DEF LoadLayout
<1>6. CASE HeadBlob(j)
  <2>1. UNCHANGED <<registry, refreshes, image, tag>> /\ request[j] = "HEAD_blob"
        /\ request[j] \in Uploading
    BY <1>6 DEF HeadBlob, Uploading
  <2>2. CASE AfterBlob(j) /\ ThisBlob(j) \in blobs[ServiceOf[j]]
    <3>1. /\ request' \in [Job -> Request] /\ at' \in [Job -> Nat]
          /\ PushInv(j)'
          /\ \A k \in Job : k # j => request'[k] = request[k] /\ at'[k] = at[k]
      BY <1>3, <2>1, <2>2, BlobDone
    <3> QED
      BY <1>1, <1>3, <2>1, <3>1 DEF PushTypeOK
  <2>3. CASE Goes(j, "POST_upload") /\ UNCHANGED at
    <3>1. "POST_upload" \in Request \ {"none"}
      BY DEF Request, Sending
    <3>2. request' \in [Job -> Request] /\ PushInv(j)'
          /\ \A k \in Job : k # j => request'[k] = request[k]
      BY <1>3, <1>4, <2>1, <2>3, <3>1
    <3> QED
      BY <1>1, <1>3, <2>1, <2>3, <3>2 DEF PushTypeOK
  <2> QED
    BY <1>6, <2>2, <2>3 DEF HeadBlob, Repository
<1>7. CASE PostUpload(j)
  <2>1. UNCHANGED <<registry, at, refreshes, image, tag>> /\ request[j] \in Uploading
        /\ request[j] # "none" /\ Goes(j, "PUT_upload")
    BY <1>7 DEF PostUpload, Uploading
  <2>2. "PUT_upload" \in Request \ {"none"}
    BY DEF Request, Sending
  <2>3. request' \in [Job -> Request] /\ PushInv(j)'
        /\ \A k \in Job : k # j => request'[k] = request[k]
    BY <1>3, <1>4, <2>1, <2>2
  <2> QED
    BY <1>1, <1>3, <2>1, <2>3 DEF PushTypeOK
<1>8. CASE PutUpload(j)
  <2>1. StoreBlob(j) /\ AfterBlob(j) /\ UNCHANGED <<manifests, tags, refreshes, image, tag>>
        /\ request[j] \in Uploading
    BY <1>8 DEF PutUpload, Uploading
  <2>2. /\ blobs' \in [Service -> SUBSET Blob]
        /\ ThisBlob(j) \in blobs'[ServiceOf[j]]
        /\ Grows /\ RegistryInv'
    BY <2>1, StoresBlob
  <2>3. /\ request' \in [Job -> Request] /\ at' \in [Job -> Nat]
        /\ PushInv(j)'
        /\ \A k \in Job : k # j => request'[k] = request[k] /\ at'[k] = at[k]
    BY <2>1, <2>2, BlobDone
  <2> QED
    BY <1>1, <2>1, <2>2, <2>3 DEF PushTypeOK
<1>9. CASE PutChild(j)
  <2> DEFINE d == image[j]
  <2>1. StoreChild(j) /\ AfterChild(j) /\ UNCHANGED <<blobs, tags, refreshes, image, tag>>
        /\ request[j] = "PUT_child"
    BY <1>9 DEF PutChild
  <2>2. /\ manifests' \in [Service -> SUBSET Manifest]
        /\ Children[d][at[j]] \in manifests'[ServiceOf[j]]
        /\ Grows /\ RegistryInv'
    BY <2>1, StoresChild
  <2>3. /\ d \in Digest /\ stage[j] = "push" /\ tag[j] \in Tag \ TagsOfReleases
        /\ at[j] \in 1..Len(Children[d])
        /\ Members(Blobs[d]) \subseteq blobs[ServiceOf[j]]
        /\ \A i \in 1..(at[j] - 1) : Children[d][i] \in manifests[ServiceOf[j]]
    BY <2>1 DEF PushInv
  <2>4. Len(Children[d]) \in Nat
    BY <2>3, LayoutAssumption
  <2>5. \A i \in 1..at[j] : Children[d][i] \in manifests'[ServiceOf[j]]
    BY <1>2, <2>2, <2>3, <2>4 DEF Grows
  <2>6. CASE at[j] < Len(Children[d])
    <3>1. at' = [at EXCEPT ![j] = at[j] + 1] /\ UNCHANGED request
      BY <2>1, <2>6 DEF AfterChild
    <3>2. at' \in [Job -> Nat] /\ at'[j] = at[j] + 1 /\ \A k \in Job : k # j => at'[k] = at[k]
      BY <1>1, <3>1 DEF PushTypeOK
    <3>3. at'[j] \in 1..Len(Children[d]) /\ at'[j] - 1 = at[j]
      BY <2>3, <2>4, <2>6, <3>2
    <3>4. PushInv(j)'
      BY <2>1, <2>3, <2>5, <3>1, <3>3 DEF PushInv, Uploading
    <3> QED
      BY <1>1, <2>1, <2>2, <3>1, <3>2, <3>4 DEF PushTypeOK
  <2>7. CASE ~(at[j] < Len(Children[d]))
    <3>1. Goes(j, "PUT_tag") /\ UNCHANGED at
      BY <2>1, <2>7 DEF AfterChild
    <3>2. request' \in [Job -> Request] /\ request'[j] = "PUT_tag"
          /\ \A k \in Job : k # j => request'[k] = request[k]
      BY <1>1, <3>1 DEF PushTypeOK, Goes, Request, Sending
    <3>3. Members(Children[d]) \subseteq manifests'[ServiceOf[j]]
      BY <2>3, <2>4, <2>5, <2>7 DEF Members
    <3>4. PushInv(j)'
      BY <2>1, <2>3, <3>2, <3>3 DEF PushInv, Uploading
    <3> QED
      BY <1>1, <2>1, <2>2, <3>1, <3>2, <3>4 DEF PushTypeOK
  <2> QED
    BY <2>6, <2>7
<1>10. CASE PutTag(j)
  <2>1. StoreTag(j) /\ Goes(j, "HEAD_tag") /\ UNCHANGED <<blobs, at, refreshes, image, tag>>
        /\ request[j] = "PUT_tag"
    BY <1>10 DEF PutTag
  <2>2. /\ manifests' \in [Service -> SUBSET Manifest]
        /\ tags' \in [Service -> [Tag -> Digest \cup {NoDigest}]]
        /\ image[j] \in manifests'[ServiceOf[j]]
        /\ \A s \in Service, t \in TagsOfReleases : tags'[s][t] = tags[s][t]
        /\ Grows /\ RegistryInv'
    BY <2>1, StoresTag
  <2>3. request' \in [Job -> Request] /\ request'[j] = "HEAD_tag"
        /\ \A k \in Job : k # j => request'[k] = request[k]
    BY <1>1, <2>1 DEF PushTypeOK, Goes, Request, Sending
  <2>4. PushInv(j)'
    BY <1>2, <2>1, <2>2, <2>3 DEF PushInv, Uploading, Grows
  <2> QED
    BY <1>1, <2>1, <2>2, <2>3, <2>4 DEF PushTypeOK
<1>11. CASE VerifyTag(j)
  <2> DEFINE q == IF tags[Repository(j)][tag[j]] = image[j] THEN "pushed" ELSE "failed"
  <2>1. UNCHANGED <<registry, at, refreshes, image, tag>> /\ request[j] = "HEAD_tag" /\ Goes(j, q)
    BY <1>11 DEF VerifyTag
  <2>2. q \in {"pushed", "failed"}
    OBVIOUS
  <2> HIDE DEF q
  <2>3. request' \in [Job -> Request] /\ request'[j] \in {"pushed", "failed"}
        /\ \A k \in Job : k # j => request'[k] = request[k]
    BY <1>1, <2>1, <2>2 DEF PushTypeOK, Goes, Request
  <2>4. PushInv(j)'
    BY <2>1, <2>3 DEF PushInv, Uploading
  <2> QED
    BY <1>1, <1>3, <2>1, <2>3, <2>4 DEF PushTypeOK
<1>12. CASE Unauthorized(j)
  <2> DEFINE q == IF request[j] = "PUT_upload" THEN "POST_upload" ELSE request[j]
  <2>1. /\ UNCHANGED <<registry, at, image, tag>> /\ request[j] \in Sending
        /\ Goes(j, q) /\ refreshes[j] < MaxAuthRetries
        /\ refreshes' = [refreshes EXCEPT ![j] = @ + 1]
    BY <1>12 DEF Unauthorized
  <2>2. refreshes' \in [Job -> 0..MaxAuthRetries]
    <3>1. refreshes \in [Job -> 0..MaxAuthRetries]
      BY <1>1 DEF PushTypeOK
    <3>2. refreshes[j] \in 0..MaxAuthRetries /\ refreshes[j] < MaxAuthRetries
          /\ refreshes' = [refreshes EXCEPT ![j] = refreshes[j] + 1]
      BY <2>1, <3>1
    <3>3. MaxAuthRetries \in Nat
      BY ImagesAssumption
    <3>4. refreshes[j] + 1 \in 0..MaxAuthRetries
      BY <3>2, <3>3
    <3> QED
      BY <3>1, <3>2, <3>4
  <2>3. q \in Sending /\ (q \in Uploading <=> request[j] \in Uploading)
        /\ (q \notin Uploading => q = request[j])
    BY <2>1 DEF Sending, Uploading
  <2> HIDE DEF q
  <2>4. request' \in [Job -> Request] /\ request'[j] = q
        /\ \A k \in Job : k # j => request'[k] = request[k]
    BY <1>1, <2>1, <2>3 DEF PushTypeOK, Goes, Request
  <2>5. ASSUME q \in Uploading
        PROVE  PushInv(j)'
    BY <2>1, <2>3, <2>4, <2>5 DEF PushInv, Uploading
  <2>6. ASSUME q \notin Uploading
        PROVE  PushInv(j)'
    BY <2>1, <2>3, <2>4, <2>6 DEF PushInv
  <2> QED
    BY <1>1, <1>3, <2>1, <2>2, <2>4, <2>5, <2>6 DEF PushTypeOK
<1>13. CASE RequestFails(j)
  <2>1. Goes(j, "failed") /\ UNCHANGED <<at, refreshes, image, tag>> /\ request[j] # "none"
    BY <1>13 DEF RequestFails, Sending
  <2>2. "failed" \in Request \ {"none"} /\ "failed" \notin Uploading
    BY DEF Request, Uploading
  <2>3. Grows => /\ request' \in [Job -> Request] /\ PushInv(j)'
                 /\ \A k \in Job : k # j => request'[k] = request[k]
    BY <1>4, <2>1, <2>2
  <2>4. CASE UNCHANGED registry
    BY <1>1, <1>3, <2>1, <2>3, <2>4 DEF PushTypeOK
  <2>5. CASE request[j] = "PUT_upload" /\ StoreBlob(j) /\ UNCHANGED <<manifests, tags>>
    <3>1. blobs' \in [Service -> SUBSET Blob] /\ Grows /\ RegistryInv'
      BY <2>5, StoresBlob DEF Uploading
    <3> QED
      BY <1>1, <2>1, <2>3, <2>5, <3>1 DEF PushTypeOK
  <2>6. CASE request[j] = "PUT_child" /\ StoreChild(j) /\ UNCHANGED <<blobs, tags>>
    <3>1. manifests' \in [Service -> SUBSET Manifest] /\ Grows /\ RegistryInv'
      BY <2>6, StoresChild
    <3> QED
      BY <1>1, <2>1, <2>3, <2>6, <3>1 DEF PushTypeOK
  <2>7. CASE request[j] = "PUT_tag" /\ StoreTag(j) /\ UNCHANGED blobs
    <3>1. /\ manifests' \in [Service -> SUBSET Manifest]
          /\ tags' \in [Service -> [Tag -> Digest \cup {NoDigest}]]
          /\ \A s \in Service, t \in TagsOfReleases : tags'[s][t] = tags[s][t]
          /\ Grows /\ RegistryInv'
      BY <2>7, StoresTag
    <3> QED
      BY <1>1, <2>1, <2>3, <2>7, <3>1 DEF PushTypeOK
  <2> QED
    BY <1>13, <2>4, <2>5, <2>6, <2>7 DEF RequestFails
<1> QED
  BY <1>5, <1>6, <1>7, <1>8, <1>9, <1>10, <1>11, <1>12, <1>13 DEF PushStep

-----------------------------------------------------------------------------
(* The steps of one job, and of one candidate promotion.                   *)

\* A step of one job or promotion moves that one only.
LEMMA Moved ==
    ASSUME TypeOK, NEW a \in Actor, NEW q \in Stage, Moves(a, q)
    PROVE  /\ stage' \in [Actor -> Stage] /\ stage'[a] = q
           /\ \A b \in Actor : b # a => stage'[b] = stage[b]
BY DEF TypeOK, Moves

\* It is enough to look at the parts of the job that takes the step.
LEMMA JobStepKeeps ==
    ASSUME IInv, NEW j \in Job,
           \A a \in Actor : a # j => stage'[a] = stage[a],
           \A k \in Job : k # j =>
              /\ request'[k] = request[k] /\ at'[k] = at[k] /\ image'[k] = image[k]
              /\ tag'[k] = tag[k] /\ fragment'[k] = fragment[k] /\ released'[k] = released[k],
           UNCHANGED <<verdict, receipt, manifest, candidate>>,
           Grows, TypeOK', PushInv(j)', ImageInv(j)', RunInv(RunOf[j])', RegistryInv',
           ReleaseInv'
    PROVE  IInv'
<1>1. ASSUME NEW k \in Job
      PROVE  PushInv(k)' /\ ImageInv(k)'
  <2>1. CASE k # j
    <3>1. k \in Actor
      BY DEF Actor
    <3>2. JobFrame(k)
      BY <2>1, <3>1 DEF JobFrame
    <3>3. PushInv(k) /\ ImageInv(k)
      BY DEF IInv
    <3> QED
      BY <3>2, <3>3, PushKeeps, ImageKeeps
  <2> QED
    BY <2>1
<1>2. ASSUME NEW r \in Run
      PROVE  RunInv(r)'
  <2>1. CASE r # RunOf[j]
    <3>1. \A k \in JobsOf(r) : k \in Job /\ k \in Actor /\ k # j
      BY <2>1 DEF JobsOf, Actor
    <3>2. RunInv(r)
      BY DEF IInv
    <3> QED
      BY <3>1, <3>2, RunKeeps
  <2> QED
    BY <2>1
<1>3. ASSUME NEW c \in Promotion
      PROVE  CandidateInv(c)'
  <2>1. c \in Actor /\ c # j
    BY PublicationAssumption DEF Actor
  <2>2. CandidateFrame(c)
    BY <2>1 DEF CandidateFrame
  <2>3. CandidateInv(c) /\ vetted \subseteq vetted'
    BY DEF IInv, Grows
  <2> QED
    BY <2>2, <2>3, CandidateKeeps
<1> QED
  BY <1>1, <1>2, <1>3 DEF IInv

\* A step of a candidate promotion concerns that promotion and the registry only.
LEMMA CandidateStepKeeps ==
    ASSUME IInv, NEW c \in Promotion,
           \A a \in Actor : a # c => stage'[a] = stage[a],
           UNCHANGED <<client, image, tag, fragment, verdict, receipt>>,
           \A j \in Job : released'[j] = released[j],
           \A r \in Run : manifest'[r] = manifest[r],
           \A b \in Promotion : b # c => candidate'[b] = candidate[b],
           Grows, TypeOK', CandidateInv(c)', RegistryInv', ReleaseInv'
    PROVE  IInv'
<1>1. ASSUME NEW k \in Job
      PROVE  PushInv(k)' /\ ImageInv(k)'
  <2>1. k \in Actor /\ k # c
    BY PublicationAssumption DEF Actor
  <2>2. JobFrame(k)
    BY <2>1 DEF JobFrame, client
  <2>3. PushInv(k) /\ ImageInv(k)
    BY DEF IInv
  <2> QED
    BY <2>2, <2>3, PushKeeps, ImageKeeps
<1>2. ASSUME NEW r \in Run
      PROVE  RunInv(r)'
  <2>1. \A k \in JobsOf(r) : k \in Job /\ k \in Actor /\ k # c
    BY PublicationAssumption DEF JobsOf, Actor
  <2>2. RunInv(r)
    BY DEF IInv
  <2> QED
    BY <2>1, <2>2, RunKeeps
<1>3. ASSUME NEW b \in Promotion
      PROVE  CandidateInv(b)'
  <2>1. CASE b # c
    <3>1. b \in Actor
      BY DEF Actor
    <3>2. CandidateFrame(b)
      BY <2>1, <3>1 DEF CandidateFrame
    <3>3. CandidateInv(b) /\ vetted \subseteq vetted'
      BY DEF IInv, Grows
    <3> QED
      BY <3>2, <3>3, CandidateKeeps
  <2> QED
    BY <2>1
<1> QED
  BY <1>1, <1>2, <1>3 DEF IInv

\* While its set is not accepted a job is not yet promoted, and as long as a job
\* is not built its set is not accepted.
LEMMA NotYetDecided ==
    ASSUME IInv, NEW j \in Job, stage[j] \notin Settled
    PROVE  verdict[RunOf[j]] \notin Decided
<1>1. RunOf[j] \in Run /\ j \in JobsOf(RunOf[j])
  BY PublicationAssumption DEF JobsOf
<1> QED
  BY <1>1 DEF IInv, RunInv

\* A step of a job whose set is not accepted, and that does not promote it.
LEMMA BuildingKeeps ==
    ASSUME IInv, NEW j \in Job, stage[j] \notin Settled, stage'[j] \notin Settled \ {"built"},
           \A a \in Actor : a # j => stage'[a] = stage[a],
           UNCHANGED <<verdict, receipt, manifest>>
    PROVE  RunInv(RunOf[j])'
<1> DEFINE r == RunOf[j]
<1>1. r \in Run
  BY PublicationAssumption
<1>2. verdict[r] \notin Decided /\ RunInv(r)
  BY <1>1, NotYetDecided DEF IInv
<1>3. \A k \in JobsOf(r) : k \in Actor
  BY DEF JobsOf, Actor
<1>4. RunFrame(r)
  BY <1>2, <1>3 DEF RunFrame, RunInv
<1> QED
  BY <1>1, <1>2, <1>4, RunMoves

\* No step of a build writes a release tag.
LEMMA OwnTagIsNoRelease ==
    ASSUME IInv, NEW j \in Job, attempt[RunOf[j]] > 0
    PROVE  OwnTag(j) \in Tag \ TagsOfReleases
<1> DEFINE r == RunOf[j]
           n == attempt[r]
<1>1. r \in Run /\ CandidateTag[r] \in Seq(Tag)
  BY PublicationAssumption, TagsAssumption
<1>2. n \in 1..Len(CandidateTag[r])
  BY <1>1 DEF IInv, TypeOK
<1>3. CandidateTag[r][n] \in Tag
  BY <1>1, <1>2, ElementOfSeq
<1>4. \A h \in Commit : CandidateTag[r][n] \notin {ReleaseTag[h], ShaTag[h]}
  BY <1>1, <1>2, TagsAssumption
<1> QED
  BY <1>3, <1>4 DEF OwnTag, TagsOfReleases

\* buildx, in both of its modes, keeps the invariant.
LEMMA BuildCorrect ==
    ASSUME IInv, NEW j \in Job, Build(j)
    PROVE  IInv'
<1> USE DEF pushVars, registry, client, promotionVars, runVars
<1> DEFINE s == ServiceOf[j]
<1>1. /\ stage[j] = "queued" /\ attempt[RunOf[j]] > 0
      /\ UNCHANGED <<at, refreshes, fragment, promotionVars, runVars, candidate, vetted>>
  BY DEF Build
<1>2. PICK d \in BuildsOf[j] :
         /\ image' = [image EXCEPT ![j] = d]
         /\ IF RunOf[j] \in Inline
               THEN PushInline(j, d) /\ UNCHANGED <<request, tag>>
               ELSE /\ Moves(j, "push")
                    /\ Goes(j, "load")
                    /\ tag' = [tag EXCEPT ![j] = OwnTag(j)]
                    /\ UNCHANGED registry
  BY DEF Build
<1>3. TypeOK /\ PushInv(j) /\ ImageInv(j) /\ RegistryInv /\ ReleaseInv
  BY DEF IInv
<1>4. s \in Service /\ d \in Digest /\ j \in Actor
  BY ImagesAssumption, PublicationAssumption DEF Actor
<1>5. OwnTag(j) \in Tag \ TagsOfReleases
  BY <1>1, OwnTagIsNoRelease
<1>6. request[j] = "none"
  BY <1>1, <1>3 DEF PushInv
<1>7. image \in [Job -> Digest \cup {NoDigest}]
  BY <1>3 DEF TypeOK, PushTypeOK
<1>8. /\ image' \in [Job -> Digest \cup {NoDigest}] /\ image'[j] = d
      /\ \A k \in Job : k # j => image'[k] = image[k]
  BY <1>2, <1>4, <1>7
<1>9. ASSUME NEW q \in {"push", "vet", "failed"}, Moves(j, q)
      PROVE  /\ stage' \in [Actor -> Stage] /\ stage'[j] = q
             /\ \A a \in Actor : a # j => stage'[a] = stage[a]
             /\ RunInv(RunOf[j])'
  <2>1. q \in Stage
    BY DEF Stage, Building
  <2>2. /\ stage' \in [Actor -> Stage] /\ stage'[j] = q
        /\ \A a \in Actor : a # j => stage'[a] = stage[a]
    BY <1>3, <1>4, <1>9, <2>1, Moved
  <2>3. stage[j] \notin Settled /\ stage'[j] \notin Settled \ {"built"}
    BY <1>1, <2>2 DEF Settled, Promoting
  <2> QED
    BY <1>1, <2>2, <2>3, BuildingKeeps
<1>10. ASSUME UNCHANGED registry
       PROVE  Grows /\ RegistryInv' /\ ReleaseInv'
  <2>1. Grows /\ ReleaseFrame
    BY <1>1, <1>10 DEF Grows, ReleaseFrame
  <2>2. RegistryInv'
    BY <1>3, <1>10 DEF RegistryInv, Whole
  <2> QED
    BY <1>3, <2>1, <2>2, ReleaseKeeps
<1>11. CASE RunOf[j] \notin Inline
  <2>1. Moves(j, "push") /\ Goes(j, "load") /\ UNCHANGED registry
        /\ tag' = [tag EXCEPT ![j] = OwnTag(j)]
    BY <1>2, <1>11
  <2>2. /\ request' \in [Job -> Request] /\ request'[j] = "load"
        /\ tag' \in [Job -> Tag \cup {NoTag}] /\ tag'[j] = OwnTag(j)
        /\ \A k \in Job : k # j => request'[k] = request[k] /\ tag'[k] = tag[k]
    BY <1>3, <1>5, <2>1 DEF TypeOK, PushTypeOK, Goes, Request
  <2>3. /\ stage' \in [Actor -> Stage] /\ stage'[j] = "push"
        /\ \A a \in Actor : a # j => stage'[a] = stage[a]
        /\ RunInv(RunOf[j])'
    BY <1>9, <2>1
  <2>4. TypeOK'
    BY <1>1, <1>3, <1>8, <2>1, <2>2, <2>3 DEF TypeOK, PushTypeOK
  <2>5. PushInv(j)'
    BY <1>4, <1>5, <1>8, <2>2, <2>3 DEF PushInv, Uploading
  <2>6. ImageInv(j)'
    BY <1>1, <1>3, <2>1, <2>3 DEF ImageInv
  <2> QED
    BY <1>1, <1>8, <1>10, <2>1, <2>2, <2>3, <2>4, <2>5, <2>6, JobStepKeeps
<1>12. CASE RunOf[j] \in Inline /\ UNCHANGED registry /\ Moves(j, "failed")
  <2>1. UNCHANGED <<request, tag>>
    BY <1>2, <1>12
  <2>2. /\ stage' \in [Actor -> Stage] /\ stage'[j] = "failed"
        /\ \A a \in Actor : a # j => stage'[a] = stage[a]
        /\ RunInv(RunOf[j])'
    BY <1>9, <1>12
  <2>3. TypeOK'
    BY <1>1, <1>3, <1>8, <1>12, <2>1, <2>2 DEF TypeOK, PushTypeOK
  <2>4. PushInv(j)' /\ ImageInv(j)'
    BY <1>1, <1>3, <1>6, <1>12, <2>1, <2>2 DEF PushInv, ImageInv, Uploading
  <2> QED
    BY <1>1, <1>8, <1>10, <1>12, <2>1, <2>2, <2>3, <2>4, JobStepKeeps
<1>13. CASE RunOf[j] \in Inline /\ ~(UNCHANGED registry /\ Moves(j, "failed"))
  <2> DEFINE B == Members(Blobs[d])
             M == Members(Children[d]) \cup {d}
  <2>1. /\ blobs' = [blobs EXCEPT ![s] = @ \cup B]
        /\ manifests' = [manifests EXCEPT ![s] = @ \cup Members(Children[d]) \cup {d}]
        /\ tags' = [tags EXCEPT ![s][OwnTag(j)] = d]
        /\ Moves(j, "vet")
        /\ UNCHANGED <<request, tag>>
    BY <1>2, <1>13 DEF PushInline
  <2>2. blobs \in [Service -> SUBSET Blob] /\ manifests \in [Service -> SUBSET Manifest]
    BY <1>3 DEF TypeOK, PushTypeOK
  <2>3. B \in SUBSET Blob /\ M \in SUBSET Manifest
    BY <1>4 DEF Blob, Manifest
  <2>4. manifests' = [manifests EXCEPT ![s] = @ \cup M]
    BY <1>4, <2>1, <2>2
  <2> HIDE DEF B, M
  <2>5. /\ blobs' \in [Service -> SUBSET Blob] /\ blobs'[s] = blobs[s] \cup B
        /\ \A u \in Service : blobs[u] \subseteq blobs'[u]
    BY <1>4, <2>1, <2>2, <2>3, OneRepository
  <2>6. /\ manifests' \in [Service -> SUBSET Manifest] /\ manifests'[s] = manifests[s] \cup M
        /\ \A u \in Service : /\ manifests[u] \subseteq manifests'[u]
                              /\ u # s => manifests'[u] = manifests[u]
    BY <1>4, <2>2, <2>3, <2>4, OneRepository
  <2>7. Grows
    BY <1>1, <2>5, <2>6 DEF Grows
  <2>8. /\ tags' \in [Service -> [Tag -> Digest \cup {NoDigest}]]
        /\ tags'[s][OwnTag(j)] = d
        /\ \A u \in Service, v \in Tag : u # s \/ v # OwnTag(j) => tags'[u][v] = tags[u][v]
    <3> HIDE DEF s
    <3>1. OwnTag(j) \in Tag
      BY <1>5
    <3> QED
      BY <1>3, <1>4, <2>1, <3>1, OneTag, ZenonT(40)
  <2>9. d \in manifests'[s]
    BY <2>6 DEF M
  <2>10. ASSUME NEW u \in Service, NEW e \in Digest, e \in manifests'[u] \ manifests[u]
         PROVE  Members(Children[e]) \subseteq manifests'[u] /\ Members(Blobs[e]) \subseteq blobs'[u]
    <3>1. u = s /\ (e = d \/ e \in Members(Children[d]))
      BY <2>6, <2>10 DEF M
    <3>2. Members(Children[e]) \subseteq Members(Children[d])
          /\ Members(Blobs[e]) \subseteq Members(Blobs[d])
      <4>1. CASE e = d
        BY <4>1
      <4>2. CASE e \in Members(Children[d])
        <5>1. PICK i \in 1..Len(Children[d]) : Children[d][i] = e
          BY <4>2 DEF Members
        <5>2. Members(Blobs[e]) \subseteq Members(Blobs[d])
              /\ Members(Children[e]) \subseteq {Children[d][k] : k \in 1..(i - 1)}
          BY <1>4, <5>1, LayoutAssumption
        <5>3. Len(Children[d]) \in Nat
          BY <1>4, LayoutAssumption
        <5>4. 1..(i - 1) \subseteq 1..Len(Children[d])
          BY <5>3
        <5> QED
          BY <5>2, <5>4 DEF Members
      <4> QED
        BY <3>1, <4>1, <4>2
    <3> QED
      BY <2>5, <2>6, <3>1, <3>2 DEF B, M
  <2>11. RegistryInv'
    BY <1>3, <2>7, <2>8, <2>9, <2>10, RegistryKeeps
  <2>12. ReleaseFrame
    <3>1. TagsOfReleases \subseteq Tag
      BY TagsAssumption DEF TagsOfReleases
    <3> QED
      BY <1>1, <1>5, <2>8, <3>1 DEF ReleaseFrame
  <2>13. ReleaseInv'
    BY <1>3, <2>12, ReleaseKeeps
  <2>14. /\ stage' \in [Actor -> Stage] /\ stage'[j] = "vet"
         /\ \A a \in Actor : a # j => stage'[a] = stage[a]
         /\ RunInv(RunOf[j])'
    BY <1>9, <2>1
  <2>15. TypeOK'
    BY <1>1, <1>3, <1>8, <2>1, <2>5, <2>6, <2>8, <2>14 DEF TypeOK, PushTypeOK
  <2>16. PushInv(j)'
    BY <1>6, <2>1, <2>14 DEF PushInv, Uploading
  <2>17. ImageInv(j)'
    BY <1>1, <1>3, <1>4, <1>8, <2>7, <2>9, <2>14 DEF ImageInv, Grows
  <2> QED
    BY <1>1, <1>8, <2>1, <2>7, <2>11, <2>13, <2>14, <2>15, <2>16, <2>17, JobStepKeeps
<1> QED
  BY <1>11, <1>12, <1>13

\* Every request of a push keeps the invariant (push_oci_layout.py).
LEMMA PushActionCorrect ==
    ASSUME IInv, NEW j \in Job, Push(j)
    PROVE  IInv'
<1> USE DEF promotionVars, runVars
<1>1. PushStep(j) /\ UNCHANGED <<stage, fragment, promotionVars, runVars, candidate, vetted>>
  BY DEF Push
<1>2. TypeOK /\ PushInv(j) /\ ImageInv(j) /\ RegistryInv /\ ReleaseInv
  BY DEF IInv
<1>3. /\ PushTypeOK' /\ PushInv(j)' /\ RegistryInv' /\ Grows
      /\ image' = image /\ tag' = tag
      /\ \A k \in Job : k # j => request'[k] = request[k] /\ at'[k] = at[k]
      /\ \A s \in Service, t \in TagsOfReleases : tags'[s][t] = tags[s][t]
  BY <1>1, <1>2, PushCorrect
<1>4. TypeOK'
  BY <1>1, <1>2, <1>3 DEF TypeOK
<1>5. ServiceOf[j] \in Service /\ RunOf[j] \in Run
  BY ImagesAssumption, PublicationAssumption
<1>6. ImageInv(j)'
  BY <1>1, <1>2, <1>3, <1>5 DEF ImageInv, Grows
<1>7. RunInv(RunOf[j])'
  BY <1>1, <1>5, RunKeeps DEF IInv
<1>8. ReleaseInv'
  BY <1>1, <1>2, <1>3, ReleaseKeeps DEF ReleaseFrame
<1> QED
  BY <1>1, <1>3, <1>4, <1>6, <1>7, <1>8, JobStepKeeps

\* The end of a push, tagged or failed, keeps the invariant.
LEMMA PushEndsCorrect ==
    ASSUME IInv, NEW j \in Job, PushEnds(j)
    PROVE  IInv'
<1> USE DEF pushVars, registry, client, promotionVars, runVars
<1> DEFINE q == IF request[j] = "pushed" THEN "vet" ELSE "failed"
           d == IF request[j] = "pushed" THEN image[j] ELSE NoDigest
<1>1. /\ stage[j] = "push" /\ Moves(j, q) /\ Goes(j, "none")
      /\ image' = [image EXCEPT ![j] = d]
      /\ at' = [at EXCEPT ![j] = 0]
      /\ refreshes' = [refreshes EXCEPT ![j] = 0]
      /\ tag' = [tag EXCEPT ![j] = NoTag]
      /\ UNCHANGED <<registry, fragment, promotionVars, runVars, candidate, vetted>>
  BY DEF PushEnds
<1>2. TypeOK /\ PushInv(j) /\ ImageInv(j) /\ RegistryInv /\ ReleaseInv
  BY DEF IInv
<1>3. q = "vet" => d \in Digest /\ d \in manifests[ServiceOf[j]]
  BY <1>2 DEF PushInv
<1>4. q \in {"vet", "failed"} /\ d \in Digest \cup {NoDigest}
  BY <1>2 DEF TypeOK, PushTypeOK
<1> HIDE DEF q, d
<1>5. q \in Stage /\ j \in Actor
  BY <1>4 DEF Stage, Building, Actor
<1>6. /\ stage' \in [Actor -> Stage] /\ stage'[j] = q
      /\ \A a \in Actor : a # j => stage'[a] = stage[a]
  BY <1>1, <1>2, <1>5, Moved
<1>7. /\ request' \in [Job -> Request] /\ request'[j] = "none"
      /\ image' \in [Job -> Digest \cup {NoDigest}] /\ image'[j] = d
      /\ at' \in [Job -> Nat] /\ refreshes' \in [Job -> 0..MaxAuthRetries]
      /\ tag' \in [Job -> Tag \cup {NoTag}]
  BY <1>1, <1>2, <1>4, ImagesAssumption DEF TypeOK, PushTypeOK, Goes, Request
<1>8. \A k \in Job : k # j => /\ request'[k] = request[k] /\ image'[k] = image[k]
                             /\ at'[k] = at[k] /\ tag'[k] = tag[k]
  BY <1>1, <1>2 DEF TypeOK, PushTypeOK, Goes
<1>9. TypeOK'
  BY <1>1, <1>2, <1>6, <1>7 DEF TypeOK, PushTypeOK
<1>10. PushInv(j)'
  BY <1>7 DEF PushInv, Uploading
<1>11. ImageInv(j)'
  BY <1>1, <1>2, <1>3, <1>6, <1>7 DEF ImageInv
<1>12. RunInv(RunOf[j])'
  <2>1. stage[j] \notin Settled /\ stage'[j] \notin Settled \ {"built"}
    BY <1>1, <1>4, <1>6 DEF Settled, Promoting
  <2> QED
    BY <1>1, <1>6, <2>1, BuildingKeeps
<1>13. Grows /\ ReleaseFrame
  BY <1>1 DEF Grows, ReleaseFrame
<1>14. RegistryInv' /\ ReleaseInv'
  BY <1>1, <1>2, <1>13, ReleaseKeeps DEF RegistryInv, Whole
<1> QED
  BY <1>1, <1>6, <1>8, <1>9, <1>10, <1>11, <1>12, <1>13, <1>14, JobStepKeeps

\* Inspection, scan and gates of a pushed digest keep the invariant: a fragment
\* is written of a whole image that has passed.
LEMMA VetCorrect ==
    ASSUME IInv, NEW j \in Job, Vet(j)
    PROVE  IInv'
<1> USE DEF pushVars, registry, client, promotionVars, runVars
<1> DEFINE s == ServiceOf[j]
           d == image[j]
<1>1. PICK passes \in BOOLEAN, up \in BOOLEAN, q \in {"built", "failed"} :
         /\ fragment' = IF up THEN [fragment EXCEPT ![j] = [digest |-> d, passed |-> passes]]
                        ELSE fragment
         /\ vetted' = IF passes THEN vetted \cup {<<s, CommitFor(j), d>>} ELSE vetted
         /\ Moves(j, q)
  <2>1. PICK inspected \in BOOLEAN, scanned \in BOOLEAN, evidenceUp \in BOOLEAN,
             fragmentUp \in BOOLEAN, o \in GateOutcomes[image[j]] :
          LET passes == /\ inspected /\ AttestationsVerified(Evidence[image[j]])
                        /\ scanned
                        /\ SecurityGateAcceptable(WindowsEnabled[RunOf[j]], o)
          IN
          /\ fragment' = IF fragmentUp
                THEN [fragment EXCEPT ![j] = [digest |-> image[j], passed |-> passes]]
                ELSE fragment
          /\ vetted' = IF passes
                THEN vetted \cup {<<ServiceOf[j], CommitFor(j), image[j]>>}
                ELSE vetted
          /\ Moves(j, IF passes /\ evidenceUp /\ fragmentUp THEN "built" ELSE "failed")
    BY DEF Vet
  <2> DEFINE p == /\ inspected /\ AttestationsVerified(Evidence[image[j]])
                  /\ scanned
                  /\ SecurityGateAcceptable(WindowsEnabled[RunOf[j]], o)
  <2>2. p \in BOOLEAN
    OBVIOUS
  <2> HIDE DEF p
  <2>3. (IF p /\ evidenceUp /\ fragmentUp THEN "built" ELSE "failed") \in {"built", "failed"}
    OBVIOUS
  <2> QED
    BY <2>1, <2>2, <2>3 DEF p
<1>2. /\ stage[j] = "vet" /\ image' = [image EXCEPT ![j] = NoDigest]
      /\ UNCHANGED <<registry, client, tag, promotionVars, runVars, candidate>>
  BY DEF Vet
<1>3. TypeOK /\ PushInv(j) /\ ImageInv(j) /\ RegistryInv /\ ReleaseInv
  BY DEF IInv
<1>4. s \in Service /\ j \in Actor /\ RunOf[j] \in Run /\ CommitFor(j) \in Commit
  BY ImagesAssumption, PublicationAssumption DEF Actor, CommitFor, ActorRun
<1>5. d \in Digest /\ d \in manifests[s] /\ request[j] = "none"
  BY <1>2, <1>3 DEF ImageInv, PushInv
<1>6. q \in Stage
  BY DEF Stage
<1>7. /\ stage' \in [Actor -> Stage] /\ stage'[j] = q
      /\ \A a \in Actor : a # j => stage'[a] = stage[a]
  BY <1>1, <1>3, <1>4, <1>6, Moved
<1>8. /\ fragment' \in [Job -> [digest : Digest, passed : BOOLEAN] \cup {NoFile}]
      /\ fragment'[j] = IF up THEN [digest |-> d, passed |-> passes] ELSE fragment[j]
      /\ \A k \in Job : k # j => fragment'[k] = fragment[k]
  BY <1>1, <1>3, <1>5 DEF TypeOK
<1>9. /\ image' \in [Job -> Digest \cup {NoDigest}]
      /\ \A k \in Job : k # j => image'[k] = image[k]
  BY <1>2, <1>3 DEF TypeOK, PushTypeOK
<1>10. vetted' \subseteq Service \X Commit \X Digest /\ vetted \subseteq vetted'
       /\ (passes => <<s, CommitFor(j), d>> \in vetted')
  BY <1>1, <1>3, <1>4, <1>5 DEF TypeOK
<1>11. TypeOK'
  BY <1>2, <1>3, <1>7, <1>8, <1>9, <1>10 DEF TypeOK, PushTypeOK
<1>12. Grows /\ ReleaseFrame
  BY <1>2, <1>10 DEF Grows, ReleaseFrame
<1>13. RegistryInv' /\ ReleaseInv'
  BY <1>2, <1>3, <1>12, ReleaseKeeps DEF RegistryInv, Whole
<1>14. PushInv(j)'
  BY <1>2, <1>5 DEF PushInv, Uploading
<1>15. ImageInv(j)'
  <2>1. CASE up
    <3>1. fragment'[j] = [digest |-> d, passed |-> passes]
      BY <1>8, <2>1
    <3> QED
      BY <1>2, <1>5, <1>7, <1>10, <3>1 DEF ImageInv, CommitFor
  <2>2. CASE ~up
    <3>1. fragment'[j] = fragment[j]
      BY <1>8, <2>2
    <3> QED
      BY <1>2, <1>3, <1>7, <1>10, <3>1 DEF ImageInv, CommitFor
  <2> QED
    BY <2>1, <2>2
<1>16. RunInv(RunOf[j])'
  <2>1. stage[j] \notin Settled /\ stage'[j] \notin Settled \ {"built"}
    BY <1>2, <1>7 DEF Settled, Promoting
  <2> QED
    BY <1>2, <1>7, <2>1, BuildingKeeps
<1> QED
  BY <1>2, <1>7, <1>8, <1>9, <1>11, <1>12, <1>13, <1>14, <1>15, <1>16, JobStepKeeps

\* A build job that is lost leaves the invariant as it is.
LEMMA BuildLostCorrect ==
    ASSUME IInv, NEW j \in Job, BuildLost(j)
    PROVE  IInv'
<1> USE DEF pushVars, registry, client, promotionVars, runVars
<1>1. /\ stage[j] = "vet" /\ Moves(j, "failed") /\ image' = [image EXCEPT ![j] = NoDigest]
      /\ UNCHANGED <<registry, client, tag, fragment, promotionVars, runVars, candidate, vetted>>
  BY DEF BuildLost
<1>2. TypeOK /\ PushInv(j) /\ ImageInv(j) /\ RegistryInv /\ ReleaseInv
  BY DEF IInv
<1>3. "failed" \in Stage /\ j \in Actor
  BY DEF Stage, Actor
<1>4. /\ stage' \in [Actor -> Stage] /\ stage'[j] = "failed"
      /\ \A a \in Actor : a # j => stage'[a] = stage[a]
  BY <1>1, <1>2, <1>3, Moved
<1>5. /\ image' \in [Job -> Digest \cup {NoDigest}]
      /\ \A k \in Job : k # j => image'[k] = image[k]
  BY <1>1, <1>2 DEF TypeOK, PushTypeOK
<1>6. TypeOK'
  BY <1>1, <1>2, <1>4, <1>5 DEF TypeOK, PushTypeOK
<1>7. Grows /\ ReleaseFrame
  BY <1>1 DEF Grows, ReleaseFrame
<1>8. RegistryInv' /\ ReleaseInv'
  BY <1>1, <1>2, <1>7, ReleaseKeeps DEF RegistryInv, Whole
<1>9. PushInv(j)' /\ ImageInv(j)'
  BY <1>1, <1>2, <1>4 DEF PushInv, ImageInv, Uploading
<1>10. RunInv(RunOf[j])'
  <2>1. stage[j] \notin Settled /\ stage'[j] \notin Settled \ {"built"}
    BY <1>1, <1>4 DEF Settled, Promoting
  <2> QED
    BY <1>1, <1>4, <2>1, BuildingKeeps
<1> QED
  BY <1>1, <1>4, <1>5, <1>6, <1>7, <1>8, <1>9, <1>10, JobStepKeeps

-----------------------------------------------------------------------------
(* The promotion of an image.                                              *)

\* A job that promotes has had its set accepted.
LEMMA PromotingIsDecided ==
    ASSUME IInv, NEW j \in Job, stage[j] \in Settled \ {"built"}
    PROVE  /\ verdict[RunOf[j]] \in Decided /\ RunInv(RunOf[j])
           /\ fragment[j] # NoFile /\ fragment[j].passed
<1>1. RunOf[j] \in Run /\ j \in JobsOf(RunOf[j])
  BY PublicationAssumption DEF JobsOf
<1> QED
  BY <1>1 DEF IInv, RunInv

\* A step of a job whose set was accepted, and that leaves the artifacts alone.
LEMMA PromotingKeeps ==
    ASSUME IInv, NEW j \in Job, verdict[RunOf[j]] \in Decided, stage'[j] \in Settled,
           stage'[j] = "promoted" => released'[j] = <<ServiceOf[j], fragment[j].digest>>,
           \A a \in Actor : a # j => stage'[a] = stage[a] /\ released'[a] = released[a],
           UNCHANGED <<verdict, receipt, manifest, fragment>>
    PROVE  RunInv(RunOf[j])'
<1> DEFINE r == RunOf[j]
<1>1. r \in Run
  BY PublicationAssumption
<1>2. RunInv(r) /\ \A k \in JobsOf(r) : k \in Actor
  BY <1>1 DEF IInv, JobsOf, Actor
<1>3. RunFrame(r)
  BY <1>2 DEF RunFrame, RunInv
<1> QED
  BY <1>1, <1>2, <1>3, RunMoves

\* A promotion that starts from a receipt keeps the invariant.
LEMMA StartPromotionCorrect ==
    ASSUME IInv, NEW j \in Job, StartPromotion(j)
    PROVE  IInv'
<1> USE DEF pushVars, registry, client, promotionVars, runVars
<1> DEFINE q == IF /\ fragment[j].passed
                   /\ <<ServiceOf[j], fragment[j].digest>> \in receipt[RunOf[j]]
                   THEN "release tag" ELSE "unpromoted"
<1>1. /\ stage[j] = "built" /\ verdict[RunOf[j]] = "validated" /\ Moves(j, q)
      /\ UNCHANGED <<pushVars, fragment, promotionVars, runVars, candidate, vetted>>
  BY DEF StartPromotion
<1>2. q \in {"release tag", "unpromoted"}
  OBVIOUS
<1> HIDE DEF q
<1>3. TypeOK /\ PushInv(j) /\ ImageInv(j) /\ RegistryInv /\ ReleaseInv
  BY DEF IInv
<1>4. q \in Stage /\ q \in Settled /\ j \in Actor
  BY <1>2 DEF Stage, Settled, Promoting, Actor
<1>5. /\ stage' \in [Actor -> Stage] /\ stage'[j] = q
      /\ \A a \in Actor : a # j => stage'[a] = stage[a]
  BY <1>1, <1>3, <1>4, Moved
<1>6. TypeOK'
  BY <1>1, <1>3, <1>5 DEF TypeOK, PushTypeOK
<1>7. Grows /\ ReleaseFrame
  BY <1>1 DEF Grows, ReleaseFrame
<1>8. RegistryInv' /\ ReleaseInv'
  BY <1>1, <1>3, <1>7, ReleaseKeeps DEF RegistryInv, Whole
<1>9. PushInv(j)' /\ ImageInv(j)'
  BY <1>1, <1>2, <1>3, <1>5 DEF PushInv, ImageInv, Uploading
<1>10. RunInv(RunOf[j])'
  BY <1>1, <1>2, <1>4, <1>5, PromotingKeeps DEF Decided
<1> QED
  BY <1>1, <1>5, <1>6, <1>7, <1>8, <1>9, <1>10, JobStepKeeps

\* A promotion that reads its tags back keeps the invariant.
LEMMA ReadBackCorrect ==
    ASSUME IInv, NEW j \in Job, ReadBack(j)
    PROVE  IInv'
<1> USE DEF pushVars, registry, client, promotionVars, runVars
<1>1. /\ stage[j] = "read back"
      /\ UNCHANGED <<pushVars, fragment, tries, runVars, candidate, vetted>>
  BY DEF ReadBack
<1>2. TypeOK /\ PushInv(j) /\ ImageInv(j) /\ RegistryInv /\ ReleaseInv
  BY DEF IInv
<1>3. j \in Actor /\ stage[j] \in Settled \ {"built"} /\ ServiceOf[j] \in Service
  BY <1>1, ImagesAssumption DEF Actor, Settled, Promoting
<1>4. verdict[RunOf[j]] \in Decided /\ fragment[j] # NoFile
  BY <1>3, PromotingIsDecided
<1>5. fragment[j].digest \in Digest
  BY <1>2, <1>4 DEF TypeOK
<1>6. PICK q \in {"promoted", "unpromoted"} :
         /\ Moves(j, q)
         /\ released' = IF q = "promoted"
               THEN [released EXCEPT ![j] = <<ServiceOf[j], fragment[j].digest>>] ELSE released
  BY DEF ReadBack, Promoted
<1>7. /\ released' \in [Actor -> (Service \X Digest) \cup {NoFile}]
      /\ q = "promoted" => released'[j] = <<ServiceOf[j], fragment[j].digest>>
      /\ \A a \in Actor : a # j => released'[a] = released[a]
  BY <1>2, <1>3, <1>5, <1>6 DEF TypeOK
<1>8. q \in Stage /\ q \in Settled
  BY DEF Stage, Settled
<1>9. /\ stage' \in [Actor -> Stage] /\ stage'[j] = q
      /\ \A a \in Actor : a # j => stage'[a] = stage[a]
  BY <1>2, <1>3, <1>6, <1>8, Moved
<1>10. TypeOK'
  BY <1>1, <1>2, <1>7, <1>9 DEF TypeOK, PushTypeOK
<1>11. Grows /\ ReleaseFrame
  BY <1>1 DEF Grows, ReleaseFrame
<1>12. RegistryInv' /\ ReleaseInv'
  BY <1>1, <1>2, <1>11, ReleaseKeeps DEF RegistryInv, Whole
<1>13. PushInv(j)' /\ ImageInv(j)'
  BY <1>1, <1>2, <1>6, <1>9 DEF PushInv, ImageInv, Uploading
<1>14. RunInv(RunOf[j])'
  BY <1>1, <1>4, <1>7, <1>8, <1>9, PromotingKeeps
<1>15. \A k \in Job : k \in Actor
  BY DEF Actor
<1> QED
  BY <1>1, <1>7, <1>9, <1>10, <1>11, <1>12, <1>13, <1>14, <1>15, JobStepKeeps

\* An accepted set is a set of images, and those of the run itself were vetted.
LEMMA AcceptedSet ==
    ASSUME IInv, NEW r \in Run, verdict[r] \in Decided
    PROVE  /\ receipt[r] = ImagesOf(r) /\ receipt[r] # NoFile
           /\ \A j \in JobsOf(r) :
                 /\ <<ServiceOf[j], fragment[j].digest>> \in receipt[r]
                 /\ <<ServiceOf[j], CommitOf[r], fragment[j].digest>> \in vetted
                 /\ fragment[j].digest \in Digest
           /\ \A i \in receipt[r] \ Unchanged[r] : <<i[1], CommitOf[r], i[2]>> \in vetted
<1>1. RunInv(r) /\ TypeOK
  BY DEF IInv
<1>2. receipt[r] = ImagesOf(r)
      /\ \A j \in JobsOf(r) : fragment[j] # NoFile /\ fragment[j].passed
  BY <1>1 DEF RunInv
<1>3. ASSUME NEW j \in JobsOf(r)
      PROVE  /\ <<ServiceOf[j], fragment[j].digest>> \in ImagesOf(r)
             /\ <<ServiceOf[j], CommitOf[r], fragment[j].digest>> \in vetted
             /\ fragment[j].digest \in Digest /\ ServiceOf[j] \in Service
  <2>1. j \in Job /\ RunOf[j] = r
    BY DEF JobsOf
  <2>2. ImageInv(j) /\ CommitFor(j) = CommitOf[r]
    BY <2>1 DEF IInv, CommitFor, ActorRun
  <2>3. <<ServiceOf[j], CommitOf[r], fragment[j].digest>> \in vetted
    BY <1>2, <2>2 DEF ImageInv
  <2>4. fragment[j].digest \in Digest /\ ServiceOf[j] \in Service
    BY <1>1, <1>2, <2>1, ImagesAssumption DEF TypeOK
  <2> QED
    BY <2>3, <2>4 DEF ImagesOf
<1>4. Unchanged[r] \in SUBSET (Service \X Digest)
  BY PublicationAssumption
<1>5. ImagesOf(r) \in SUBSET (Service \X Digest)
  <2>1. \A j \in JobsOf(r) : fragment[j].digest \in Digest /\ ServiceOf[j] \in Service
    BY <1>3
  <2> QED
    BY <1>4, <2>1 DEF ImagesOf
<1>6. \A i \in ImagesOf(r) \ Unchanged[r] : <<i[1], CommitOf[r], i[2]>> \in vetted
  BY <1>3 DEF ImagesOf
<1> QED
  BY <1>2, <1>3, <1>5, <1>6, PublicationAssumption

\* A release tag that a promotion writes names a whole image that has been vetted
\* for it (retry_network.py around the tagging).
LEMMA ReleaseTagWritten ==
    ASSUME IInv, NEW a \in Actor, stage[a] \in Promoting,
           NEW t \in {ReleaseTag[CommitFor(a)], ShaTag[CommitFor(a)]}, TagWritten(a, t),
           UNCHANGED <<blobs, manifests, vetted, receipt, candidate>>
    PROVE  /\ tags' \in [Service -> [Tag -> Digest \cup {NoDigest}]]
           /\ Grows /\ RegistryInv' /\ ReleaseInv'
<1> DEFINE h == CommitFor(a)
           s == ServiceFor(a)
           d == Promoted(a)
<1>1. TypeOK /\ RegistryInv /\ ReleaseInv
  BY DEF IInv
<1>2. h \in Commit /\ s \in Service
  BY ImagesAssumption, PublicationAssumption DEF CommitFor, ActorRun, ServiceFor, Actor
<1>3. t \in Tag
  BY <1>2, TagsAssumption
<1>4. d \in Digest /\ Backed(s, h, d)
  <2>1. CASE a \in Job
    <3> DEFINE r == RunOf[a]
    <3>1. r \in Run /\ a \in JobsOf(r) /\ h = CommitOf[r] /\ s = ServiceOf[a]
          /\ d = fragment[a].digest
      BY <2>1, PublicationAssumption DEF JobsOf, CommitFor, ActorRun, ServiceFor, Promoted
    <3>2. stage[a] \in Settled \ {"built"}
      BY DEF Settled, Promoting
    <3>3. verdict[r] \in Decided
      BY <2>1, <3>2, PromotingIsDecided
    <3> HIDE DEF r
    <3> QED
      BY <3>1, <3>3, AcceptedSet DEF Backed
  <2>2. CASE a \in Promotion
    <3>1. a \notin Job
      BY <2>2, PublicationAssumption
    <3>2. h = CommitOf[a] /\ s = PromotedService[a] /\ d = candidate[a]
      BY <3>1 DEF CommitFor, ActorRun, ServiceFor, Promoted
    <3>3. CandidateInv(a)
      BY <2>2 DEF IInv
    <3>4. d # NoDigest /\ <<s, h, d>> \in vetted
      BY <3>2, <3>3 DEF CandidateInv
    <3>5. d \in Digest
      BY <1>1, <2>2, <3>2, <3>4 DEF TypeOK
    <3> QED
      BY <2>2, <3>2, <3>4, <3>5 DEF Backed
  <2> QED
    BY <2>1, <2>2 DEF Actor
<1>5. d \in manifests[s] /\ tags' = [tags EXCEPT ![s][t] = d]
  BY DEF TagWritten
<1> HIDE DEF d, s, h
<1>6. /\ tags' \in [Service -> [Tag -> Digest \cup {NoDigest}]]
      /\ tags'[s][t] = d
      /\ \A u \in Service, v \in Tag : u # s \/ v # t => tags'[u][v] = tags[u][v]
  BY <1>1, <1>2, <1>3, <1>4, <1>5, OneTag, ZenonT(40)
<1>7. Grows
  BY DEF Grows
<1>8. RegistryInv'
  BY <1>1, <1>5, <1>6, <1>7, RegistryKeeps
<1>9. ASSUME NEW u \in Service, NEW g \in Commit, NEW v \in {ReleaseTag[g], ShaTag[g]},
             tags'[u][v] # NoDigest
      PROVE  Backed(u, g, tags'[u][v])
  <2>1. v \in Tag
    BY TagsAssumption
  <2>2. CASE u = s /\ v = t
    <3>1. g = h
      BY <1>2, <2>2, TagsAssumption DEF h
    <3> QED
      BY <1>4, <1>6, <2>2, <3>1
  <2>3. CASE ~(u = s /\ v = t)
    <3>1. tags'[u][v] = tags[u][v]
      BY <1>6, <2>1, <2>3
    <3> QED
      BY <1>1, <1>9, <3>1 DEF ReleaseInv
  <2> QED
    BY <2>2, <2>3
<1>10. \A u \in Service, g \in Commit : \A e : Backed(u, g, e) => Backed(u, g, e)'
  BY DEF Backed
<1>11. ReleaseInv'
  BY <1>9, <1>10 DEF ReleaseInv
<1> QED
  BY <1>6, <1>7, <1>8, <1>11

\* A step of a promotion, of whichever workflow, before the tags are read back.
LEMMA TaggingKeeps ==
    ASSUME IInv, NEW a \in Actor, stage[a] \in Promoting,
           NEW q \in Promoting \cup {"unpromoted"}, Moves(a, q),
           UNCHANGED <<blobs, manifests, client, image, tag, fragment, released, runVars,
                       candidate, vetted>>,
           tries' \in [Actor -> Nat],
           \A b \in Actor : tries'[b] \in 0..(NetworkAttempts[ActorRun(b)] - 1),
           tags' \in [Service -> [Tag -> Digest \cup {NoDigest}]],
           RegistryInv', ReleaseInv'
    PROVE  IInv'
<1> USE DEF client, runVars
<1>1. TypeOK
  BY DEF IInv
<1>2. q \in Stage /\ q \in Settled
  BY DEF Stage, Settled, Promoting
<1>3. /\ stage' \in [Actor -> Stage] /\ stage'[a] = q
      /\ \A b \in Actor : b # a => stage'[b] = stage[b]
  BY <1>1, <1>2, Moved
<1>4. TypeOK'
  BY <1>1, <1>3 DEF TypeOK, PushTypeOK
<1>5. Grows
  BY DEF Grows
<1>6. CASE a \in Job
  <2>1. PushInv(a) /\ ImageInv(a)
    BY <1>6 DEF IInv
  <2>2. JobFrame(a)
    BY <1>3, <2>1 DEF JobFrame, PushInv, Promoting
  <2>3. PushInv(a)' /\ ImageInv(a)'
    BY <1>5, <1>6, <2>1, <2>2, PushKeeps, ImageKeeps
  <2>4. verdict[RunOf[a]] \in Decided
    BY <1>6, PromotingIsDecided DEF Settled, Promoting
  <2>5. RunInv(RunOf[a])'
    BY <1>2, <1>3, <1>6, <2>4, PromotingKeeps DEF Promoting
  <2> QED
    BY <1>3, <1>4, <1>5, <1>6, <2>3, <2>5, JobStepKeeps
<1>7. CASE a \in Promotion
  <2>1. CandidateInv(a)
    BY <1>7 DEF IInv
  <2>2. CandidateInv(a)'
    BY <1>3, <2>1 DEF CandidateInv, Promoting
  <2> QED
    BY <1>3, <1>4, <1>5, <1>7, <2>2, CandidateStepKeeps
<1> QED
  BY <1>6, <1>7 DEF Actor

\* Every attempt to tag, also one that fails after its effect, keeps the invariant.
LEMMA TaggingCorrect ==
    ASSUME IInv, NEW a \in Actor, Tagging(a)
    PROVE  IInv'
<1> USE DEF pushVars, registry, client, promotionVars, runVars
<1>1. TypeOK /\ RegistryInv /\ ReleaseInv
  BY DEF IInv
<1>2. /\ tries \in [Actor -> Nat]
      /\ \A b \in Actor : tries[b] \in 0..(NetworkAttempts[ActorRun(b)] - 1)
      /\ tags \in [Service -> [Tag -> Digest \cup {NoDigest}]]
  BY <1>1 DEF TypeOK, PushTypeOK
<1>3. NetworkAttempts[ActorRun(a)] \in Nat \ {0}
  BY PublicationAssumption DEF ActorRun, Actor
<1>4. ASSUME UNCHANGED <<registry, vetted, receipt, candidate>>
      PROVE  RegistryInv' /\ ReleaseInv'
             /\ tags' \in [Service -> [Tag -> Digest \cup {NoDigest}]]
  <2>1. ReleaseFrame
    BY <1>4 DEF ReleaseFrame
  <2> QED
    BY <1>1, <1>2, <1>4, <2>1, ReleaseKeeps DEF RegistryInv, Whole
<1>5. CASE WriteReleaseTag(a)
  <2>1. /\ stage[a] \in Promoting /\ Moves(a, "sha tag") /\ "sha tag" \in Promoting
        /\ TagWritten(a, ReleaseTag[CommitFor(a)])
        /\ UNCHANGED <<blobs, manifests, client, image, tag, fragment, promotionVars, runVars,
                       candidate, vetted>>
    BY <1>5 DEF WriteReleaseTag, Promoting
  <2>2. /\ tags' \in [Service -> [Tag -> Digest \cup {NoDigest}]]
        /\ RegistryInv' /\ ReleaseInv'
    BY <2>1, ReleaseTagWritten
  <2> QED
    BY <1>2, <2>1, <2>2, TaggingKeeps
<1>6. CASE WriteShaTag(a)
  <2>1. /\ stage[a] \in Promoting /\ Moves(a, "read back") /\ "read back" \in Promoting
        /\ TagWritten(a, ShaTag[CommitFor(a)])
        /\ tries' = [tries EXCEPT ![a] = 0]
        /\ UNCHANGED <<blobs, manifests, client, image, tag, fragment, released, runVars,
                       candidate, vetted>>
    BY <1>6 DEF WriteShaTag, Promoting
  <2>2. /\ tags' \in [Service -> [Tag -> Digest \cup {NoDigest}]]
        /\ RegistryInv' /\ ReleaseInv'
    BY <2>1, ReleaseTagWritten
  <2>3. /\ tries' \in [Actor -> Nat]
        /\ tries'[a] \in 0..(NetworkAttempts[ActorRun(a)] - 1)
        /\ \A b \in Actor : b # a => tries'[b] = tries[b]
    <3>1. tries' = [tries EXCEPT ![a] = 0]
      BY <2>1
    <3>2. 0 \in 0..(NetworkAttempts[ActorRun(a)] - 1)
      BY <1>2, <1>3, <3>1
    <3> QED
      BY <1>2, <3>1, <3>2
  <2>4. \A b \in Actor : tries'[b] \in 0..(NetworkAttempts[ActorRun(b)] - 1)
    BY <1>2, <2>3
  <2> QED
    BY <2>1, <2>2, <2>3, <2>4, TaggingKeeps
<1>7. CASE TaggingRetried(a)
  <2>1. /\ stage[a] \in Promoting /\ Moves(a, "release tag") /\ "release tag" \in Promoting
        /\ tries[a] + 1 < NetworkAttempts[ActorRun(a)]
        /\ tries' = [tries EXCEPT ![a] = @ + 1]
        /\ UNCHANGED tags \/ TagWritten(a, ShaTag[CommitFor(a)])
        /\ UNCHANGED <<blobs, manifests, client, image, tag, fragment, released, runVars,
                       candidate, vetted>>
    BY <1>7 DEF TaggingRetried, Promoting
  <2>2. /\ tags' \in [Service -> [Tag -> Digest \cup {NoDigest}]]
        /\ RegistryInv' /\ ReleaseInv'
    BY <1>4, <2>1, ReleaseTagWritten
  <2>3. /\ tries' \in [Actor -> Nat]
        /\ tries'[a] \in 0..(NetworkAttempts[ActorRun(a)] - 1)
        /\ \A b \in Actor : b # a => tries'[b] = tries[b]
    <3>1. /\ tries' = [tries EXCEPT ![a] = tries[a] + 1]
          /\ tries[a] + 1 < NetworkAttempts[ActorRun(a)]
      BY <1>2, <1>3, <2>1
    <3>2. tries[a] + 1 \in 0..(NetworkAttempts[ActorRun(a)] - 1)
      BY <1>2, <1>3, <3>1
    <3> QED
      BY <1>2, <3>1, <3>2
  <2>4. \A b \in Actor : tries'[b] \in 0..(NetworkAttempts[ActorRun(b)] - 1)
    BY <1>2, <2>3
  <2> QED
    BY <2>1, <2>2, <2>3, <2>4, TaggingKeeps
<1>8. CASE PromotionLost(a)
  <2>1. /\ stage[a] \in Promoting /\ Moves(a, "unpromoted")
        /\ tries' = [tries EXCEPT ![a] = 0]
        /\ UNCHANGED <<pushVars, fragment, released, runVars, candidate, vetted>>
    BY <1>8 DEF PromotionLost
  <2>2. /\ tries' \in [Actor -> Nat]
        /\ tries'[a] \in 0..(NetworkAttempts[ActorRun(a)] - 1)
        /\ \A b \in Actor : b # a => tries'[b] = tries[b]
    BY <1>2, <1>3, <2>1
  <2>3. \A b \in Actor : tries'[b] \in 0..(NetworkAttempts[ActorRun(b)] - 1)
    BY <1>2, <2>2
  <2> QED
    BY <1>4, <2>1, <2>2, <2>3, TaggingKeeps
<1> QED
  BY <1>5, <1>6, <1>7, <1>8 DEF Tagging

-----------------------------------------------------------------------------
(* The steps of a run as a whole.                                          *)

\* A step that changes neither the registry nor what a job holds.
LEMMA RunStepKeeps ==
    ASSUME IInv, TypeOK', UNCHANGED <<pushVars, fragment, candidate, vetted>>,
           \A j \in Job : /\ stage'[j] = "vet" => stage[j] = "vet"
                          /\ stage[j] = "push" => stage'[j] = "push",
           \A c \in Promotion : stage'[c] = stage[c],
           \A r \in Run : receipt[r] # NoFile => receipt'[r] = receipt[r],
           \A r \in Run : RunInv(r)'
    PROVE  IInv'
<1> USE DEF pushVars, registry, client
<1>1. Grows /\ ReleaseFrame
  BY DEF Grows, ReleaseFrame
<1>2. ASSUME NEW j \in Job
      PROVE  PushInv(j)' /\ ImageInv(j)'
  <2>1. PushInv(j) /\ ImageInv(j)
    BY DEF IInv
  <2>2. JobFrame(j)
    BY <2>1 DEF JobFrame, PushInv
  <2> QED
    BY <1>1, <2>1, <2>2, PushKeeps, ImageKeeps
<1>3. ASSUME NEW c \in Promotion
      PROVE  CandidateInv(c)'
  <2>1. CandidateInv(c) /\ CandidateFrame(c)
    BY DEF IInv, CandidateFrame
  <2> QED
    BY <1>1, <2>1, CandidateKeeps DEF Grows
<1>4. RegistryInv'
  BY DEF IInv, RegistryInv, Whole
<1>5. ReleaseInv'
  BY <1>1, ReleaseKeeps DEF IInv
<1> QED
  BY <1>2, <1>3, <1>4, <1>5 DEF IInv

\* The start of a run keeps the invariant.
LEMMA StartRunCorrect ==
    ASSUME IInv, NEW r \in Run, StartRun(r)
    PROVE  IInv'
<1>1. UNCHANGED <<pushVars, stage, fragment, promotionVars, verdict, receipt, manifest,
                  candidate, vetted>>
  BY DEF StartRun
<1>2. TypeOK
  BY DEF IInv
<1>3. PICK n \in 1..Len(CandidateTag[r]) : attempt' = [attempt EXCEPT ![r] = n]
  BY DEF StartRun
<1>4. Len(CandidateTag[r]) \in Nat
  BY TagsAssumption
<1>5. attempt' \in [Run -> Nat] /\ \A u \in Run : attempt'[u] <= Len(CandidateTag[u])
  BY <1>2, <1>3, <1>4 DEF TypeOK
<1>6. TypeOK'
  BY <1>1, <1>2, <1>5 DEF TypeOK, PushTypeOK, pushVars, registry, client, promotionVars
<1>7. \A u \in Run : RunInv(u)'
  BY <1>1, RunKeeps DEF IInv, promotionVars
<1>8. \A c \in Promotion : stage'[c] = stage[c]
  BY <1>1
<1> QED
  BY <1>1, <1>6, <1>7, <1>8, RunStepKeeps

\* The validation of a set (aggregate_policy) writes a receipt of whole, vetted
\* images only.
LEMMA ValidateSetCorrect ==
    ASSUME IInv, NEW r \in Run, ValidateSet(r)
    PROVE  IInv'
<1> USE DEF pushVars, registry, client, promotionVars
<1>1. /\ verdict[r] = "none" /\ \A j \in JobsOf(r) : stage[j] = "built"
      /\ UNCHANGED <<pushVars, stage, fragment, promotionVars, attempt, manifest, candidate,
                     vetted>>
  BY DEF ValidateSet
<1>2. TypeOK /\ RunInv(r)
  BY DEF IInv
<1>3. receipt[r] = NoFile /\ manifest[r] = NoFile
  BY <1>1, <1>2 DEF RunInv, Decided
<1>4. CASE verdict' = [verdict EXCEPT ![r] = "refused"] /\ UNCHANGED receipt
  <2>1. /\ verdict' \in [Run -> {"none", "validated", "refused", "released", "unreleased"}]
        /\ verdict'[r] = "refused" /\ \A u \in Run : u # r => verdict'[u] = verdict[u]
    BY <1>2, <1>4 DEF TypeOK
  <2>2. TypeOK'
    BY <1>1, <1>2, <1>4, <2>1 DEF TypeOK, PushTypeOK
  <2>3. RunInv(r)'
    BY <1>1, <1>3, <1>4, <2>1 DEF RunInv, Decided, Settled, Promoting, JobsOf
  <2>4. \A u \in Run : RunInv(u)'
    BY <1>1, <1>4, <2>1, <2>3, RunKeeps DEF IInv
  <2> QED
    BY <1>1, <1>4, <2>2, <2>4, RunStepKeeps
<1>5. CASE ~(verdict' = [verdict EXCEPT ![r] = "refused"] /\ UNCHANGED receipt)
  <2>1. /\ FragmentsAccepted(r)
        /\ receipt' = [receipt EXCEPT ![r] = ImagesOf(r)]
        /\ verdict' = [verdict EXCEPT ![r] = "validated"]
    BY <1>5 DEF ValidateSet
  <2>2. /\ \A j \in JobsOf(r) : fragment[j] # NoFile /\ fragment[j].passed
        /\ \A i \in Unchanged[r], j \in JobsOf(r) : i[1] # ServiceOf[j]
    BY <2>1 DEF FragmentsAccepted
  <2>3. ImagesOf(r) \in SUBSET (Service \X Digest)
    <3>1. \A j \in JobsOf(r) : fragment[j].digest \in Digest /\ ServiceOf[j] \in Service
      BY <1>2, <2>2, ImagesAssumption DEF TypeOK, JobsOf
    <3>2. Unchanged[r] \in SUBSET (Service \X Digest)
      BY PublicationAssumption
    <3> QED
      BY <3>1, <3>2 DEF ImagesOf
  <2>4. /\ verdict' \in [Run -> {"none", "validated", "refused", "released", "unreleased"}]
        /\ verdict'[r] = "validated" /\ \A u \in Run : u # r => verdict'[u] = verdict[u]
    BY <1>2, <2>1 DEF TypeOK
  <2>5. /\ receipt' \in [Run -> (SUBSET (Service \X Digest)) \cup {NoFile}]
        /\ receipt'[r] = ImagesOf(r) /\ \A u \in Run : u # r => receipt'[u] = receipt[u]
    BY <1>2, <2>1, <2>3 DEF TypeOK
  <2>6. TypeOK'
    BY <1>1, <1>2, <2>4, <2>5 DEF TypeOK, PushTypeOK
  <2>7. ImagesOf(r)' = ImagesOf(r) /\ JobsOf(r)' = JobsOf(r)
    BY <1>1 DEF ImagesOf, JobsOf
  <2>8. RunInv(r)'
    BY <1>1, <1>3, <2>2, <2>4, <2>5, <2>7 DEF RunInv, Decided, Settled
  <2>9. \A u \in Run : RunInv(u)'
    BY <1>1, <2>4, <2>5, <2>8, RunKeeps DEF IInv
  <2>10. \A u \in Run : receipt[u] # NoFile => receipt'[u] = receipt[u]
    BY <1>3, <2>5
  <2> QED
    BY <1>1, <2>6, <2>9, <2>10, RunStepKeeps
<1> QED
  BY <1>4, <1>5

\* The manifest of a run lists what its receipt validated.
LEMMA AggregateCorrect ==
    ASSUME IInv, NEW r \in Run, Aggregate(r)
    PROVE  IInv'
<1> USE DEF pushVars, registry, client, promotionVars
<1>1. /\ verdict[r] = "validated" /\ \A j \in JobsOf(r) : stage[j] = "promoted"
      /\ UNCHANGED <<pushVars, stage, fragment, promotionVars, attempt, receipt, candidate,
                     vetted>>
  BY DEF Aggregate
<1>2. TypeOK /\ RunInv(r) /\ verdict[r] \in Decided
  BY <1>1 DEF IInv, Decided
<1>3. manifest[r] = NoFile
  BY <1>1, <1>2 DEF RunInv
<1>4. \A j \in JobsOf(r) : released[j] = <<ServiceOf[j], fragment[j].digest>>
  BY <1>1, <1>2 DEF RunInv
<1>5. PICK q \in {"released", "unreleased"} :
         /\ verdict' = [verdict EXCEPT ![r] = q]
         /\ manifest' = IF q = "released"
               THEN [manifest EXCEPT ![r] = {released[j] : j \in JobsOf(r)}] ELSE manifest
  BY DEF Aggregate
<1>6. {released[j] : j \in JobsOf(r)} = {<<ServiceOf[j], fragment[j].digest>> : j \in JobsOf(r)}
  BY <1>4
<1>7. {released[j] : j \in JobsOf(r)} \in SUBSET (Service \X Digest)
  <2>1. \A j \in JobsOf(r) : fragment[j].digest \in Digest
    BY <1>2, AcceptedSet
  <2>2. \A j \in JobsOf(r) : ServiceOf[j] \in Service
    BY ImagesAssumption DEF JobsOf
  <2>3. ASSUME NEW j \in JobsOf(r)
        PROVE  released[j] \in Service \X Digest
    <3>1. released[j] = <<ServiceOf[j], fragment[j].digest>>
      BY <1>4
    <3>2. ServiceOf[j] \in Service /\ fragment[j].digest \in Digest
      BY <2>1, <2>2
    <3> QED
      BY <3>1, <3>2
  <2> QED
    BY <2>3
<1>8. r \in Run \cup Promotion
  OBVIOUS
<1>9. /\ manifest' \in [Run \cup Promotion -> (SUBSET (Service \X Digest)) \cup {NoFile}]
      /\ q = "released" => manifest'[r] = {<<ServiceOf[j], fragment[j].digest>> : j \in JobsOf(r)}
      /\ q # "released" => manifest'[r] = NoFile
      /\ \A u \in Run : u # r => manifest'[u] = manifest[u]
  BY <1>2, <1>3, <1>5, <1>6, <1>7, <1>8 DEF TypeOK
<1>10. /\ verdict' \in [Run -> {"none", "validated", "refused", "released", "unreleased"}]
       /\ verdict'[r] = q /\ \A u \in Run : u # r => verdict'[u] = verdict[u]
  BY <1>2, <1>5 DEF TypeOK
<1>11. TypeOK'
  BY <1>1, <1>2, <1>9, <1>10 DEF TypeOK, PushTypeOK
<1>12. ImagesOf(r)' = ImagesOf(r) /\ JobsOf(r)' = JobsOf(r)
  BY <1>1 DEF ImagesOf, JobsOf
<1>13. RunInv(r)'
  BY <1>1, <1>2, <1>4, <1>9, <1>10, <1>12 DEF RunInv, Decided
<1>14. \A u \in Run : RunInv(u)'
  BY <1>1, <1>9, <1>10, <1>13, RunKeeps DEF IInv
<1> QED
  BY <1>1, <1>11, <1>14, RunStepKeeps

\* Jobs that are run again keep the invariant: what stays rests on what stays.
LEMMA RerunCorrect ==
    ASSUME IInv, NEW r \in Run, Rerun(r)
    PROVE  IInv'
<1> USE DEF pushVars, registry, client, promotionVars
<1> DEFINE q == IF verdict[r] = "refused" THEN "none"
                ELSE IF verdict[r] = "unreleased" THEN "validated" ELSE verdict[r]
<1>1. /\ attempt[r] < Len(CandidateTag[r]) /\ attempt' = [attempt EXCEPT ![r] = @ + 1]
      /\ stage' = [a \in Actor |->
                    IF a \notin JobsOf(r) THEN stage[a]
                    ELSE IF stage[a] = "failed" THEN "queued"
                    ELSE IF stage[a] = "unpromoted" THEN "built"
                    ELSE stage[a]]
      /\ verdict' = [verdict EXCEPT ![r] = q]
      /\ UNCHANGED <<pushVars, fragment, promotionVars, receipt, manifest, candidate, vetted>>
  BY DEF Rerun
<1>2. TypeOK /\ RunInv(r)
  BY DEF IInv
<1>3. attempt' \in [Run -> Nat] /\ \A u \in Run : attempt'[u] <= Len(CandidateTag[u])
  BY <1>1, <1>2, TagsAssumption DEF TypeOK
<1>4. stage' \in [Actor -> Stage]
  BY <1>1, <1>2 DEF TypeOK, Stage
<1>5. /\ q \in {"none", "validated", "released", "unreleased"}
      /\ q \in Decided <=> verdict[r] \in Decided
      /\ verdict[r] = "released" => q = "released"
  BY <1>2 DEF TypeOK, Decided
<1> HIDE DEF q
<1>6. /\ verdict' \in [Run -> {"none", "validated", "refused", "released", "unreleased"}]
      /\ verdict'[r] = q /\ \A u \in Run : u # r => verdict'[u] = verdict[u]
  BY <1>1, <1>2, <1>5 DEF TypeOK
<1>7. TypeOK'
  BY <1>1, <1>2, <1>3, <1>4, <1>6 DEF TypeOK, PushTypeOK
<1>8. \A j \in Job : j \in Actor
  BY DEF Actor
<1>9. \A j \in Job : /\ stage'[j] = "vet" => stage[j] = "vet"
                     /\ stage[j] = "push" => stage'[j] = "push"
  BY <1>1, <1>8
<1>10. \A c \in Promotion : stage'[c] = stage[c]
  <2>1. \A c \in Promotion : c \in Actor /\ c \notin JobsOf(r)
    BY PublicationAssumption DEF Actor, JobsOf
  <2> QED
    BY <1>1, <2>1
<1>11. ASSUME NEW u \in Run
       PROVE  RunInv(u)'
  <2>1. CASE u # r
    <3>1. \A j \in JobsOf(u) : j \in Actor /\ j \notin JobsOf(r)
      BY <2>1 DEF JobsOf, Actor
    <3> QED
      BY <1>1, <1>6, <2>1, <3>1, RunKeeps DEF IInv
  <2>2. CASE u = r
    <3>1. \A j \in JobsOf(r) : j \in Actor
      BY DEF JobsOf, Actor
    <3>2. ImagesOf(r)' = ImagesOf(r) /\ JobsOf(r)' = JobsOf(r)
      BY <1>1 DEF ImagesOf, JobsOf
    <3>3. \A j \in JobsOf(r) :
             /\ stage[j] \in Settled => stage'[j] \in Settled
             /\ stage'[j] \in Settled \ {"built"} => stage[j] \in Settled \ {"built"}
             /\ stage'[j] = "promoted" => stage[j] = "promoted"
      BY <1>1, <3>1 DEF Settled, Promoting
    <3>4. RunInv(r)'
      BY <1>1, <1>2, <1>5, <1>6, <3>2, <3>3 DEF RunInv
    <3> QED
      BY <2>2, <3>4
  <2> QED
    BY <2>1, <2>2
<1> QED
  BY <1>1, <1>7, <1>9, <1>10, <1>11, RunStepKeeps

-----------------------------------------------------------------------------
(* The promotion of a candidate.                                           *)

\* The check of a candidate (_container-candidate-promote.yml) keeps the invariant.
LEMMA CheckCandidateCorrect ==
    ASSUME IInv, NEW c \in Promotion, CheckCandidate(c)
    PROVE  IInv'
<1> USE DEF pushVars, registry, client, promotionVars, runVars
<1>1. stage[c] = "queued" /\ UNCHANGED <<pushVars, fragment, promotionVars, runVars>>
  BY DEF CheckCandidate
<1>2. TypeOK /\ CandidateInv(c) /\ RegistryInv /\ ReleaseInv
  BY DEF IInv
<1>3. c \in Actor /\ candidate[c] = NoDigest /\ PromotedService[c] \in Service
      /\ CommitOf[c] \in Commit
  BY <1>1, <1>2, PublicationAssumption DEF CandidateInv, Actor
<1>4. "release tag" \in Stage /\ "unpromoted" \in Stage
  BY DEF Stage, Promoting
<1>5. CASE Moves(c, "unpromoted") /\ UNCHANGED <<candidate, vetted>>
  <2>1. /\ stage' \in [Actor -> Stage] /\ stage'[c] = "unpromoted"
        /\ \A a \in Actor : a # c => stage'[a] = stage[a]
    BY <1>2, <1>3, <1>4, <1>5, Moved
  <2>2. TypeOK'
    BY <1>1, <1>2, <1>5, <2>1 DEF TypeOK, PushTypeOK
  <2>3. Grows /\ ReleaseFrame
    BY <1>1, <1>5 DEF Grows, ReleaseFrame
  <2>4. CandidateInv(c)' /\ RegistryInv' /\ ReleaseInv'
    BY <1>1, <1>2, <1>3, <1>5, <2>1, <2>3, ReleaseKeeps
    DEF CandidateInv, RegistryInv, Whole, Promoting
  <2> QED
    BY <1>1, <1>5, <2>1, <2>2, <2>3, <2>4, CandidateStepKeeps
<1>6. CASE ~(Moves(c, "unpromoted") /\ UNCHANGED <<candidate, vetted>>)
  <2>1. PICK d \in Digest :
           /\ Moves(c, "release tag")
           /\ candidate' = [candidate EXCEPT ![c] = d]
           /\ vetted' = vetted \cup {<<PromotedService[c], CommitOf[c], d>>}
    BY <1>6 DEF CheckCandidate
  <2>2. /\ stage' \in [Actor -> Stage] /\ stage'[c] = "release tag"
        /\ \A a \in Actor : a # c => stage'[a] = stage[a]
    BY <1>2, <1>3, <1>4, <2>1, Moved
  <2>3. /\ candidate' \in [Promotion -> Digest \cup {NoDigest}] /\ candidate'[c] = d
        /\ \A b \in Promotion : b # c => candidate'[b] = candidate[b]
    <3>1. candidate \in [Promotion -> Digest \cup {NoDigest}] /\ d \in Digest \cup {NoDigest}
      BY <1>2 DEF TypeOK
    <3>2. candidate' = [candidate EXCEPT ![c] = d]
      BY <2>1
    <3> QED
      BY <3>1, <3>2
  <2>4. vetted' \subseteq Service \X Commit \X Digest
    <3>1. vetted \subseteq Service \X Commit \X Digest
      BY <1>2 DEF TypeOK
    <3>2. <<PromotedService[c], CommitOf[c], d>> \in Service \X Commit \X Digest
      BY <1>3
    <3> QED
      BY <2>1, <3>1, <3>2
  <2>5. TypeOK'
    BY <1>1, <1>2, <2>2, <2>3, <2>4 DEF TypeOK, PushTypeOK
  <2>6. Grows /\ ReleaseFrame
    BY <1>1, <1>3, <2>1, <2>3 DEF Grows, ReleaseFrame
  <2>7. RegistryInv' /\ ReleaseInv'
    BY <1>1, <1>2, <2>6, ReleaseKeeps DEF RegistryInv, Whole
  <2>8. d # NoDigest
    BY ImagesAssumption
  <2>9. CandidateInv(c)'
    BY <2>1, <2>2, <2>3, <2>8 DEF CandidateInv
  <2> QED
    BY <1>1, <2>2, <2>3, <2>5, <2>6, <2>7, <2>9, CandidateStepKeeps
<1> QED
  BY <1>5, <1>6

\* The candidate promotion's read of both tags keeps the invariant.
LEMMA ReadBackBothCorrect ==
    ASSUME IInv, NEW c \in Promotion, ReadBackBoth(c)
    PROVE  IInv'
<1> USE DEF pushVars, registry, client, promotionVars
<1>1. /\ stage[c] = "read back"
      /\ UNCHANGED <<pushVars, fragment, promotionVars, attempt, verdict, receipt, candidate,
                     vetted>>
  BY DEF ReadBackBoth
<1>2. TypeOK /\ CandidateInv(c) /\ RegistryInv /\ ReleaseInv
  BY DEF IInv
<1>3. /\ c \in Actor /\ c \in Run \cup Promotion /\ PromotedService[c] \in Service
      /\ \A r \in Run : r # c
  BY PublicationAssumption DEF Actor
<1>4. candidate[c] \in Digest
  BY <1>1, <1>2 DEF CandidateInv, TypeOK, Promoting
<1>5. PICK q \in {"promoted", "unpromoted"} :
         /\ Moves(c, q)
         /\ manifest' = IF q = "promoted"
               THEN [manifest EXCEPT ![c] = {<<PromotedService[c], candidate[c]>>}] ELSE manifest
  BY DEF ReadBackBoth
<1>6. q \in Stage
  BY DEF Stage
<1>7. /\ stage' \in [Actor -> Stage] /\ stage'[c] = q
      /\ \A a \in Actor : a # c => stage'[a] = stage[a]
  BY <1>2, <1>3, <1>5, <1>6, Moved
<1>8. {<<PromotedService[c], candidate[c]>>} \in SUBSET (Service \X Digest)
  BY <1>3, <1>4
<1>9. /\ manifest' \in [Run \cup Promotion -> (SUBSET (Service \X Digest)) \cup {NoFile}]
      /\ \A r \in Run : manifest'[r] = manifest[r]
  BY <1>2, <1>3, <1>5, <1>8 DEF TypeOK
<1>10. TypeOK'
  BY <1>1, <1>2, <1>7, <1>9 DEF TypeOK, PushTypeOK
<1>11. Grows /\ ReleaseFrame
  BY <1>1 DEF Grows, ReleaseFrame
<1>12. RegistryInv' /\ ReleaseInv'
  BY <1>1, <1>2, <1>11, ReleaseKeeps DEF RegistryInv, Whole
<1>13. CandidateInv(c)'
  BY <1>1, <1>2, <1>7 DEF CandidateInv, Promoting
<1> QED
  BY <1>1, <1>7, <1>9, <1>10, <1>11, <1>12, <1>13, CandidateStepKeeps

-----------------------------------------------------------------------------
(* The theorems.                                                           *)

\* At first no tag names anything and nothing has been built.
LEMMA InitIInv ==
    ASSUME Init
    PROVE  IInv
<1> USE DEF Init, PushInit
<1>1. TypeOK
  BY ImagesAssumption, PublicationAssumption, TagsAssumption
  DEF TypeOK, PushTypeOK, Request, Stage, Actor, ActorRun
<1>2. \A j \in Job : PushInv(j) /\ ImageInv(j)
  BY DEF PushInv, ImageInv, Uploading, Actor
<1>3. \A r \in Run : RunInv(r)
  BY DEF RunInv, Decided, Settled, Promoting, Actor, JobsOf
<1>4. \A c \in Promotion : CandidateInv(c)
  BY DEF CandidateInv, Promoting, Actor
<1>5. RegistryInv
  BY DEF RegistryInv
<1>6. ReleaseInv
  BY TagsAssumption DEF ReleaseInv
<1> QED
  BY <1>1, <1>2, <1>3, <1>4, <1>5, <1>6 DEF IInv

\* Every step of a publication keeps the invariant.
LEMMA NextIInv ==
    ASSUME IInv, [Next]_vars
    PROVE  IInv'
<1>1. CASE UNCHANGED vars
  <2> USE <1>1 DEF vars, pushVars, registry, client, promotionVars, runVars
  <2>1. TypeOK'
    BY DEF IInv, TypeOK, PushTypeOK
  <2>2. \A r \in Run : RunInv(r)'
    BY RunKeeps DEF IInv
  <2> QED
    BY <2>1, <2>2, RunStepKeeps
<1>2. ASSUME NEW r \in Run, StartRun(r)
      PROVE  IInv'
  BY <1>2, StartRunCorrect
<1>3. ASSUME NEW r \in Run, Rerun(r)
      PROVE  IInv'
  BY <1>3, RerunCorrect
<1>4. ASSUME NEW r \in Run, RunStep(r)
      PROVE  IInv'
  <2>1. CASE ValidateSet(r)
    BY <2>1, ValidateSetCorrect
  <2>2. CASE Aggregate(r)
    BY <2>2, AggregateCorrect
  <2>3. ASSUME NEW j \in JobsOf(r), JobStep(j) \/ Tagging(j) \/ BuildLost(j)
        PROVE  IInv'
    <3>1. j \in Job /\ j \in Actor
      BY DEF JobsOf, Actor
    <3> QED
      BY <2>3, <3>1, BuildCorrect, PushActionCorrect, PushEndsCorrect, VetCorrect,
         StartPromotionCorrect, ReadBackCorrect, TaggingCorrect, BuildLostCorrect
      DEF JobStep
  <2> QED
    BY <1>4, <2>1, <2>2, <2>3 DEF RunStep
<1>5. ASSUME NEW c \in Promotion, CheckCandidate(c) \/ CandidateStep(c)
      PROVE  IInv'
  <2>1. c \in Actor
    BY DEF Actor
  <2> QED
    BY <1>5, <2>1, CheckCandidateCorrect, ReadBackBothCorrect, TaggingCorrect DEF CandidateStep
<1> QED
  BY <1>1, <1>2, <1>3, <1>4, <1>5 DEF Next, Published

\* Through every interleaving of pushes, runs, re-runs and promotions, each push
\* knows what it left behind, each decided run keeps its receipt and fragments,
\* images arrive whole and release tags name what was vetted
\* (_container-build-publish.yml; push_oci_layout.py).
THEOREM Invariant == Spec => []IInv
<1>1. Init => IInv
  BY InitIInv
<1>2. IInv /\ [Next]_vars => IInv'
  BY NextIInv
<1> QED
  BY <1>1, <1>2, PTL DEF Spec

\* The variables keep their types: attempts and retries stay within their
\* limits, and what is written to a tag or an artifact is an image
\* (_container-build-publish.yml; retry_network.py, run_with_retry).
THEOREM TypeCorrect == Spec => []TypeOK
<1>1. IInv => TypeOK
  BY DEF IInv
<1> QED
  BY <1>1, Invariant, PTL

\* A tag never names an image of which something is missing in its repository,
\* whatever the registry answers and however pushes and promotions interleave
\* (push_oci_layout.py, push_oci_layout).
THEOREM WholeTags == Spec => []TagsAreWhole
<1>1. IInv => TagsAreWhole
  <2>1. ASSUME IInv, NEW s \in Service, NEW t \in Tag, tags[s][t] # NoDigest
        PROVE  Whole(s, tags[s][t])
    <3>1. TypeOK /\ RegistryInv
      BY <2>1 DEF IInv
    <3>2. tags[s][t] \in Digest
      BY <2>1, <3>1 DEF TypeOK, PushTypeOK
    <3> QED
      BY <2>1, <3>1, <3>2 DEF RegistryInv
  <2> QED
    BY <2>1 DEF TagsAreWhole
<1> QED
  BY <1>1, Invariant, PTL

\* A release tag of a commit names an image vetted for that commit, and one that
\* a publication released came with a set that was vetted as a whole
\* (_container-build-publish.yml, aggregate_policy and promote;
\* _container-candidate-promote.yml).
THEOREM WholeSetsReleased == Spec => []OnlyWholeSetsAreReleased
<1>1. IInv => OnlyWholeSetsAreReleased
  BY DEF IInv, ReleaseInv, Backed, OnlyWholeSetsAreReleased
<1> QED
  BY <1>1, Invariant, PTL

\* A release manifest lists exactly the images of the run that were validated
\* together, one for each service, vetted and whole (_container-build-publish.yml,
\* aggregate).
THEOREM ManifestValidated == Spec => []ManifestIsWhatWasValidated
<1>1. ASSUME IInv, NEW r \in Run, manifest[r] # NoFile
      PROVE  /\ manifest[r] = receipt[r] \ Unchanged[r]
             /\ {i[1] : i \in manifest[r]} = {ServiceOf[j] : j \in JobsOf(r)}
             /\ \A i \in manifest[r] :
                   <<i[1], CommitOf[r], i[2]>> \in vetted /\ Whole(i[1], i[2])
  <2>1. /\ manifest[r] = {<<ServiceOf[j], fragment[j].digest>> : j \in JobsOf(r)}
        /\ verdict[r] \in Decided
        /\ receipt[r] = ImagesOf(r)
        /\ \A j \in JobsOf(r) : fragment[j] # NoFile
        /\ \A i \in Unchanged[r], j \in JobsOf(r) : i[1] # ServiceOf[j]
    BY <1>1 DEF IInv, RunInv, Decided
  <2>2. manifest[r] = receipt[r] \ Unchanged[r]
    BY <2>1 DEF ImagesOf
  <2>3. {i[1] : i \in manifest[r]} = {ServiceOf[j] : j \in JobsOf(r)}
    <3>1. \A j \in JobsOf(r) : <<ServiceOf[j], fragment[j].digest>>[1] = ServiceOf[j]
      OBVIOUS
    <3>2. \A i \in manifest[r] : \E j \in JobsOf(r) : i[1] = ServiceOf[j]
      BY <2>1
    <3>3. \A j \in JobsOf(r) : \E i \in manifest[r] : i[1] = ServiceOf[j]
      BY <2>1, <3>1
    <3> QED
      BY <3>2, <3>3
  <2>4. ASSUME NEW j \in JobsOf(r)
        PROVE  Whole(ServiceOf[j], fragment[j].digest)
    <3>1. j \in Job /\ ServiceOf[j] \in Service
      BY ImagesAssumption DEF JobsOf
    <3>2. fragment[j].digest \in Digest
      BY <1>1, <2>1, AcceptedSet
    <3>3. fragment[j].digest \in manifests[ServiceOf[j]]
      BY <1>1, <2>1, <3>1 DEF IInv, ImageInv
    <3> QED
      BY <1>1, <3>1, <3>2, <3>3 DEF IInv, RegistryInv
  <2>5. \A i \in manifest[r] : <<i[1], CommitOf[r], i[2]>> \in vetted
    BY <1>1, <2>1, <2>2, AcceptedSet
  <2>6. \A i \in manifest[r] : Whole(i[1], i[2])
    BY <2>1, <2>4
  <2> QED
    BY <2>2, <2>3, <2>5, <2>6
<1>2. IInv => ManifestIsWhatWasValidated
  BY <1>1 DEF ManifestIsWhatWasValidated
<1> QED
  BY <1>2, Invariant, PTL

-----------------------------------------------------------------------------
(* The end of a push.                                                      *)

\* How many requests are left of a push that is about to send q about the i-th
\* of so many blobs or children, with a budget of so many refreshes.  A refresh
\* costs two: the request that is sent again, and the new session of an upload.
Left(q, budget, i, all, children) ==
    CASE q = "load" -> 2 * budget + 3 * all + children + 3
      [] q = "HEAD_blob" -> 2 * budget + 3 * (all - i) + children + 5
      [] q = "POST_upload" -> 2 * budget + 3 * (all - i) + children + 4
      [] q = "PUT_upload" -> 2 * budget + 3 * (all - i) + children + 3
      [] q = "PUT_child" -> 2 * budget + (children - i) + 3
      [] q = "PUT_tag" -> 2 * budget + 2
      [] q = "HEAD_tag" -> 2 * budget + 1
      [] OTHER -> 0

RequestsLeft(j) ==
    Left(request[j], MaxAuthRetries - refreshes[j], at[j],
         Len(Blobs[image[j]]), Len(Children[image[j]]))

EveryRequestCounts ==
    [][\A j \in Job : request[j] \in Sending \cup {"load"} =>
          /\ RequestsLeft(j) \in Nat
          /\ RequestsLeft(j)' <= RequestsLeft(j)
          /\ PushStep(j) => RequestsLeft(j)' < RequestsLeft(j)]_vars

\* Served or refused with 401, each request leaves fewer.
Decreasing(b, i, all, c) ==
    LET L(q) == Left(q, b, i, all, c)
        First(q) == Left(q, b, 1, all, c)
        Following(q) == Left(q, b, i + 1, all, c)
        Again(q) == Left(q, b - 1, i, all, c)
    IN /\ \A q \in {"load", "PUT_tag", "HEAD_tag"} : L(q) \in Nat
       /\ i <= all => \A q \in {"HEAD_blob", "POST_upload", "PUT_upload"} :
             /\ L(q) \in Nat
             /\ First("PUT_child") < L(q) /\ First("PUT_tag") < L(q)
             /\ i < all => Following("HEAD_blob") < L(q)
             /\ b > 0 => Again(q) < L(q) /\ Again("POST_upload") < L(q)
       /\ i <= c => L("PUT_child") \in Nat
       /\ First("HEAD_blob") < L("load")
       /\ L("POST_upload") < L("HEAD_blob") /\ L("PUT_upload") < L("POST_upload")
       /\ i < c => Following("PUT_child") < L("PUT_child")
       /\ i <= c => L("PUT_tag") < L("PUT_child")
       /\ L("HEAD_tag") < L("PUT_tag")
       /\ b > 0 => \A q \in {"PUT_child", "PUT_tag", "HEAD_tag"} : Again(q) < L(q)
       /\ 0 < L("load") /\ 0 < L("PUT_tag") /\ 0 < L("HEAD_tag")
       /\ i <= c => 0 < L("PUT_child")
       /\ i <= all => \A q \in {"HEAD_blob", "POST_upload", "PUT_upload"} : 0 < L(q)

\* So it is for any number of blobs, children and refreshes (push_oci_layout.py,
\* the order of the uploads, the manifests and the verification of the tag).
LEMMA FewerAreLeft ==
    ASSUME NEW b \in Nat, NEW all \in Nat, NEW c \in Nat, NEW i \in Nat
    PROVE  Decreasing(b, i, all, c)
  BY DEF Decreasing, Left

\* Each request of a push brings it closer to its end, a refused one too
\* (push_oci_layout.py, request: the budget is counted for the whole push).
LEMMA RequestsGoForward ==
    ASSUME TypeOK, NEW j \in Job, PushInv(j)
    PROVE  /\ RequestsLeft(j) \in Nat
           /\ PushStep(j) => RequestsLeft(j)' < RequestsLeft(j)
<1> SUFFICES ASSUME request[j] \in Sending \cup {"load"}
             PROVE  /\ RequestsLeft(j) \in Nat
                    /\ PushStep(j) => RequestsLeft(j)' < RequestsLeft(j)
  <2>1. request[j] \notin Sending \cup {"load"} =>
          RequestsLeft(j) = 0 /\ ~ PushStep(j)
    BY DEF RequestsLeft, Left, Sending, PushStep, LoadLayout, HeadBlob, PostUpload, PutUpload,
           PutChild, PutTag, VerifyTag, Unauthorized, RequestFails
  <2> QED
    BY <2>1
<1> DEFINE all == Len(Blobs[image[j]])
           children == Len(Children[image[j]])
           budget == MaxAuthRetries - refreshes[j]
<1>1. image[j] \in Digest
  BY DEF PushInv, Sending
<1>2. all \in Nat /\ all > 0 /\ children \in Nat
      /\ (children = 0 <=> Children[image[j]] = << >>)
  <2>1. Blobs[image[j]] \in Seq(Blob) /\ Blobs[image[j]] # << >>
    BY <1>1, LayoutAssumption
  <2>2. Children[image[j]] \in Seq(Manifest)
    BY <1>1, LayoutAssumption
  <2> QED
    BY <2>1, <2>2, EmptySeq, LenProperties
<1>3. /\ MaxAuthRetries \in Nat /\ refreshes[j] \in 0 .. MaxAuthRetries
      /\ request \in [Job -> Request] /\ at \in [Job -> Nat]
      /\ refreshes \in [Job -> 0 .. MaxAuthRetries]
  BY ImagesAssumption DEF TypeOK, PushTypeOK
<1>4. /\ request[j] \in {"HEAD_blob", "POST_upload", "PUT_upload"} => at[j] \in 1 .. all
      /\ request[j] = "PUT_child" => at[j] \in 1 .. children
  BY DEF PushInv, Uploading
<1>5. budget \in Nat /\ at[j] \in Nat
  BY <1>3
<1>6. /\ RequestsLeft(j) = Left(request[j], budget, at[j], all, children)
      /\ image' = image => RequestsLeft(j)' =
            Left(request'[j], MaxAuthRetries - refreshes'[j], at'[j], all, children)
  BY DEF RequestsLeft
<1> HIDE DEF all, children, budget
<1>7. Decreasing(budget, at[j], all, children)
  BY <1>2, <1>5, FewerAreLeft
<1>8. RequestsLeft(j) \in Nat /\ 0 < RequestsLeft(j)
  BY <1>2, <1>4, <1>5, <1>6, <1>7 DEF Decreasing, Sending
<1> SUFFICES ASSUME PushStep(j) PROVE RequestsLeft(j)' < RequestsLeft(j)
  BY <1>8
<1>9. image' = image
  BY DEF PushStep, LoadLayout, HeadBlob, PostUpload, PutUpload, PutChild, PutTag, VerifyTag,
         Unauthorized, RequestFails
<1>10. ASSUME refreshes' = refreshes
       PROVE  RequestsLeft(j)' = Left(request'[j], budget, at'[j], all, children)
  BY <1>6, <1>9, <1>10 DEF budget
<1>11. ASSUME request'[j] \in {"pushed", "failed"} PROVE RequestsLeft(j)' < RequestsLeft(j)
  BY <1>6, <1>8, <1>9, <1>11 DEF Left
<1> USE DEF Goes, client
<1>12. CASE LoadLayout(j)
  <2>1. /\ refreshes' = refreshes /\ request[j] = "load"
        /\ \/ request'[j] = "failed"
           \/ request'[j] = "HEAD_blob" /\ at'[j] = 1
    BY <1>3, <1>12 DEF LoadLayout
  <2> QED
    BY <1>6, <1>7, <1>10, <1>11, <2>1 DEF Decreasing
<1>13. CASE HeadBlob(j) \/ PutUpload(j)
  <2>1. /\ refreshes' = refreshes /\ request[j] \in {"HEAD_blob", "PUT_upload"}
        /\ \/ request[j] = "HEAD_blob" /\ request'[j] = "POST_upload" /\ at'[j] = at[j]
           \/ at[j] < all /\ request'[j] = "HEAD_blob" /\ at'[j] = at[j] + 1
           \/ request'[j] \in {"PUT_tag", "PUT_child"} /\ at'[j] = 1
    BY <1>2, <1>3, <1>13 DEF HeadBlob, PutUpload, AfterBlob, all
  <2>2. at[j] <= all
    BY <1>2, <1>4, <2>1
  <2> QED
    BY <1>6, <1>7, <1>10, <2>1, <2>2 DEF Decreasing
<1>14. CASE PostUpload(j)
  <2>1. /\ refreshes' = refreshes /\ request[j] = "POST_upload"
        /\ request'[j] = "PUT_upload" /\ at'[j] = at[j]
    BY <1>3, <1>14 DEF PostUpload
  <2> QED
    BY <1>6, <1>7, <1>10, <2>1 DEF Decreasing
<1>15. CASE PutChild(j)
  <2>1. /\ refreshes' = refreshes /\ request[j] = "PUT_child"
        /\ \/ at[j] < children /\ request'[j] = "PUT_child" /\ at'[j] = at[j] + 1
           \/ request'[j] = "PUT_tag" /\ at'[j] = at[j]
    BY <1>3, <1>15 DEF PutChild, AfterChild, children
  <2>2. at[j] <= children
    BY <1>2, <1>4, <2>1
  <2> QED
    BY <1>6, <1>7, <1>10, <2>1, <2>2 DEF Decreasing
<1>16. CASE PutTag(j) \/ VerifyTag(j)
  <2>1. /\ refreshes' = refreshes /\ at'[j] = at[j]
        /\ \/ request[j] = "PUT_tag" /\ request'[j] = "HEAD_tag"
           \/ request'[j] \in {"pushed", "failed"}
    BY <1>3, <1>16 DEF PutTag, VerifyTag
  <2> QED
    BY <1>6, <1>7, <1>10, <1>11, <2>1 DEF Decreasing
<1>17. CASE Unauthorized(j)
  <2>1. /\ MaxAuthRetries - refreshes'[j] = budget - 1 /\ budget > 0
        /\ at'[j] = at[j] /\ request[j] \in Sending
        /\ request'[j] = IF request[j] = "PUT_upload" THEN "POST_upload" ELSE request[j]
    <3>1. refreshes'[j] = refreshes[j] + 1 /\ refreshes[j] < MaxAuthRetries
      BY <1>3, <1>17 DEF Unauthorized
    <3> QED
      BY <1>3, <1>17, <3>1 DEF Unauthorized, budget
  <2>2. RequestsLeft(j)' = Left(request'[j], budget - 1, at[j], all, children)
    BY <1>6, <1>9, <2>1
  <2>3. /\ request[j] \in {"HEAD_blob", "POST_upload", "PUT_upload"} => at[j] <= all
        /\ request[j] = "PUT_child" => at[j] <= children
    BY <1>2, <1>4
  <2> QED
    BY <1>6, <1>7, <2>1, <2>2, <2>3 DEF Decreasing, Sending
<1>18. CASE RequestFails(j)
  BY <1>3, <1>11, <1>18 DEF RequestFails
<1> QED
  BY <1>12, <1>13, <1>14, <1>15, <1>16, <1>17, <1>18 DEF PushStep

\* Nothing but its own requests moves a push: neither other pushes, promotions
\* and runs, nor the re-run of its own.
LEMMA OthersLeaveAPush ==
    ASSUME IInv, [Next]_vars, NEW j \in Job, request[j] \in Sending \cup {"load"}
    PROVE  \/ PushStep(j)
           \/ /\ request'[j] = request[j] /\ at'[j] = at[j]
              /\ refreshes'[j] = refreshes[j] /\ image'[j] = image[j]
<1> DEFINE Stays == /\ request'[j] = request[j] /\ at'[j] = at[j]
                   /\ refreshes'[j] = refreshes[j] /\ image'[j] = image[j]
<1> SUFFICES ASSUME ~ PushStep(j) PROVE Stays
  OBVIOUS
<1>1. stage[j] = "push" /\ request[j] \notin {"none", "pushed", "failed"}
  BY DEF IInv, PushInv, Sending
<1>2. /\ request \in [Job -> Request] /\ at \in [Job -> Nat]
      /\ refreshes \in [Job -> 0 .. MaxAuthRetries]
      /\ image \in [Job -> Digest \cup {NoDigest}]
  BY DEF IInv, TypeOK, PushTypeOK
<1> USE DEF pushVars, client
<1>3. CASE UNCHANGED vars
  BY <1>3 DEF vars
<1>4. ASSUME NEW r \in Run, StartRun(r) \/ Rerun(r) \/ ValidateSet(r) \/ Aggregate(r)
      PROVE  Stays
  BY <1>4 DEF StartRun, Rerun, ValidateSet, Aggregate
<1>5. ASSUME NEW k \in Job, JobStep(k) \/ BuildLost(k) PROVE Stays
  <2>1. CASE Build(k)
    BY <1>1, <1>2, <2>1 DEF Build, Goes
  <2>2. CASE Push(k)
    <3>1. PushStep(k) /\ k # j
      BY <2>2 DEF Push
    <3> QED
      BY <1>2, <3>1 DEF PushStep, LoadLayout, HeadBlob, PostUpload, PutUpload, PutChild, PutTag,
          VerifyTag, Unauthorized, RequestFails, AfterBlob, AfterChild, Goes
  <2>3. CASE PushEnds(k)
    BY <1>1, <1>2, <2>3 DEF PushEnds, Goes
  <2>4. CASE Vet(k) \/ BuildLost(k)
    BY <1>1, <1>2, <2>4 DEF Vet, BuildLost
  <2>5. CASE StartPromotion(k) \/ ReadBack(k)
    BY <2>5 DEF StartPromotion, ReadBack
  <2> QED
    BY <1>5, <2>1, <2>2, <2>3, <2>4, <2>5 DEF JobStep
<1>6. ASSUME NEW a \in Actor, Tagging(a) PROVE Stays
  BY <1>6 DEF Tagging, WriteReleaseTag, WriteShaTag, TaggingRetried, PromotionLost
<1>7. ASSUME NEW c \in Promotion, CheckCandidate(c) \/ ReadBackBoth(c) PROVE Stays
  BY <1>7 DEF CheckCandidate, ReadBackBoth
<1> QED
  BY <1>3, <1>4, <1>5, <1>6, <1>7
  DEF Next, Published, RunStep, CandidateStep, JobsOf, Actor

\* A push ends: whatever the registry answers, it sends at most three requests
\* for each blob, one for each child, two for the tag, and two for each refresh
\* that the one budget of the push allows (push_oci_layout.py, request and
\* push_blob).
THEOREM PushesAreBounded == Spec => EveryRequestCounts
<1> DEFINE Counts ==
      \A j \in Job : request[j] \in Sending \cup {"load"} =>
          /\ RequestsLeft(j) \in Nat
          /\ RequestsLeft(j)' <= RequestsLeft(j)
          /\ PushStep(j) => RequestsLeft(j)' < RequestsLeft(j)
<1>1. IInv => \A j \in Job : RequestsLeft(j) \in Nat
  BY RequestsGoForward DEF IInv
<1>2. ASSUME IInv, [Next]_vars,
             \A j \in Job : RequestsLeft(j) \in Nat, (\A j \in Job : RequestsLeft(j) \in Nat)'
      PROVE  [Counts]_vars
  <2>1. ASSUME NEW j \in Job, request[j] \in Sending \cup {"load"}
        PROVE  /\ RequestsLeft(j)' <= RequestsLeft(j)
               /\ PushStep(j) => RequestsLeft(j)' < RequestsLeft(j)
    <3>1. RequestsLeft(j) \in Nat /\ RequestsLeft(j)' \in Nat
      BY <1>2
    <3>2. CASE PushStep(j)
      <4>1. RequestsLeft(j)' < RequestsLeft(j)
        BY <1>2, <3>2, RequestsGoForward DEF IInv
      <4> QED
        BY <3>1, <4>1
    <3>3. CASE ~ PushStep(j)
      <4>1. RequestsLeft(j)' = RequestsLeft(j)
        BY <1>2, <2>1, <3>3, OthersLeaveAPush DEF RequestsLeft
      <4> QED
        BY <3>1, <3>3, <4>1
    <3> QED
      BY <3>2, <3>3
  <2> QED
    BY <1>2, <2>1
<1> QED
  BY <1>1, <1>2, Invariant, PTL DEF Spec, EveryRequestCounts

-----------------------------------------------------------------------------
(* The publication of a gated commit.                                      *)

\* Each step of a release is one of the publication, or leaves it alone
\* (docs/VALIDATION_AUTHORIZATION.md: the gate only writes its own outputs).
THEOREM ReleaseIsPublication == ReleaseSpec => Spec
<1>1. ReleaseInit => Init
  BY DEF ReleaseInit
<1>2. [ReleaseNext]_releaseVars => [Next]_vars
  <2> SUFFICES ASSUME [ReleaseNext]_releaseVars
               PROVE  [Next]_vars
    OBVIOUS
  <2>1. CASE PublicationStep
    BY <2>1 DEF PublicationStep, Next
  <2>2. ASSUME NEW r \in Validation, Gate(r)
        PROVE  [Next]_vars
    BY <2>2 DEF Gate
  <2>3. ASSUME NEW r \in Validation, Publish(r)
        PROVE  [Next]_vars
    <3>1. r \in Run
      BY GatedRunsAssumption
    <3> QED
      BY <2>3, <3>1 DEF Publish, Next
  <2>4. CASE UNCHANGED releaseVars
    BY <2>4 DEF releaseVars
  <2> QED
    BY <2>1, <2>2, <2>3, <2>4 DEF ReleaseNext
<1> QED
  BY <1>1, <1>2, PTL DEF ReleaseSpec, Spec

\* Behind its gate, too, a tag names no image of which something is missing
\* (push_oci_layout.py, push_oci_layout; _container-build-publish.yml).
THEOREM ReleasedTagsAreWhole == ReleaseSpec => []TagsAreWhole
BY ReleaseIsPublication, WholeTags, PTL

\* Behind its gate, too, a release tag names a vetted image, of a set that was
\* vetted as a whole (_container-build-publish.yml, aggregate_policy and promote).
THEOREM ReleasedSetsAreWhole == ReleaseSpec => []OnlyWholeSetsAreReleased
BY ReleaseIsPublication, WholeSetsReleased, PTL

\* Behind its gate, too, a manifest lists what was validated
\* (_container-build-publish.yml, aggregate).
THEOREM ReleasedManifest == ReleaseSpec => []ManifestIsWhatWasValidated
BY ReleaseIsPublication, ManifestValidated, PTL

-----------------------------------------------------------------------------
(* The gate.                                                               *)

Results == JobResult \cup {"queued", "running"}

\* A job only leaves the queue when all it needs have ended.
JobOrder(r) ==
    \A n \in GateJob : ~Ended(r, n) => \A m \in Dependents(n) : Waits(r, m)

\* What one job of the gate leaves behind, for the jobs after it.
PreflightInv(r) ==
    result[r]["preflight"] = "success" => PreflightAccepts(call[r], GateCommit[r])

ValidationInv(r) ==
    /\ Waits(r, "repository_validation") => step[r] = "waiting"
    /\ result[r]["repository_validation"] = "success" => step[r] = "passed"
    /\ step[r] # "waiting" => PreflightAccepts(call[r], GateCommit[r])

ScanInv(r) ==
    /\ Ended(r, "profile") /\ result[r]["preflight"] # "success" =>
          result[r]["profile"] = "skipped"
    /\ \A n \in Child : Ended(r, n) /\ result[r]["profile"] # "success" =>
          result[r][n] = "skipped"

RestsOnOneAttempt(r) ==
    suite[r].result = "passed" =>
        \A n \in RequiredJobs(call[r].profile, call[r].images) \ {"profile"} :
            /\ output[r][n].artifact # NoArtifact
            /\ output[r][n].record # NoRecord
            /\ output[r][n].record.attempt = suite[r].attempt
            /\ output[r][n].record.source = GateCommit[r]
            /\ output[r][n].record.result = "passed" /\ output[r][n].record.content

SummaryInv(r) ==
    /\ suite[r] # NoSuite => ~Waits(r, "summary") /\ RestsOnOneAttempt(r)
    /\ result[r]["summary"] = "success" => suite[r] # NoSuite /\ suite[r].result = "passed"
    /\ result[r]["summary"] = "skipped" => \A n \in SuiteJob : result[r][n] = "skipped"

AttestInv(r) ==
    attestation[r] # NoAttestation =>
        /\ ~Waits(r, "attest")
        /\ call[r].candidate = GateCommit[r]
        /\ attestation[r].path = call[r].path
        /\ attestation[r].result = "passed" =>
              result[r]["repository_validation"] = "success" /\ SuiteResult(r) = "success"

ValidatedCommit(r) ==
    /\ call[r].candidate = GateCommit[r]
    /\ step[r] = "passed" /\ exits[r][Len(exits[r])] = "ok"
    /\ NeedsTrustedRef(call[r]) => trusted[r]
    /\ suite[r] # NoSuite /\ suite[r].result = "passed"
    /\ call[r].path \in AllowedPaths /\ call[r].onMain

AuthorizeInv(r) == authorized[r] => ~Waits(r, "authorize") /\ ValidatedCommit(r)

\* The runs of the executable, and the workspace they are made in.
ExitsInv(r) ==
    /\ \A i \in 1..Len(exits[r]) :
          (i < Len(exits[r]) => exits[r][i] = Transient) /\ i <= MaxRetryAttempts
    /\ step[r] \in {"check out", "verify", "repair", "check trust"} => exits[r] = << >>
    /\ step[r] = "run" =>
          /\ Len(exits[r]) < MaxRetryAttempts
          /\ \A i \in 1..Len(exits[r]) : exits[r][i] = Transient
    /\ step[r] = "passed" => exits[r][Len(exits[r])] = "ok"

TreeInv(r) ==
    /\ step[r] \in {"check trust", "run", "report", "passed"} => Materialized(workspace[r])
    /\ NeedsTrustedRef(call[r]) =>
          /\ step[r] \in {"run", "report", "passed"} => trusted[r]
          /\ step[r] # "waiting" /\ exits[r] # << >> => trusted[r]

GateTypes ==
    /\ GateTypeOK
    /\ output = [r \in Validation |-> output[r]]
    /\ \A r \in Validation : output[r] = [n \in Child |-> output[r][n]]
    /\ attestation = [r \in Validation |-> attestation[r]]

JobsInv(r) ==
    /\ JobOrder(r)
    /\ PreflightInv(r) /\ ValidationInv(r) /\ ScanInv(r)
    /\ SummaryInv(r) /\ AttestInv(r) /\ AuthorizeInv(r)

GateInv(r) == JobsInv(r) /\ ExitsInv(r) /\ TreeInv(r)

GInv == GateTypes /\ \A r \in Validation : GateInv(r)

-----------------------------------------------------------------------------
(* Jobs and what needs them.                                               *)

\* The jobs that a re-run puts back along with each job (the needs: of
\* _validation-gate.yml and _security-suite.yml).
LEMMA DependentsOf ==
    /\ Dependents("preflight") = GateJob \ {"preflight"}
    /\ Dependents("profile") = Child \cup {"summary", "attest", "authorize"}
    /\ \A n \in Child : Dependents(n) = {"summary", "attest", "authorize"}
    /\ Dependents("repository_validation") = {"attest", "authorize"}
    /\ Dependents("summary") = {"attest", "authorize"}
    /\ Dependents("attest") = {"authorize"}
    /\ Dependents("authorize") = {}
<1>1. Dependents("preflight") = GateJob \ {"preflight"}
  BY DEF Dependents, Child
<1>2. Dependents("profile") = Child \cup {"summary", "attest", "authorize"}
  BY DEF Dependents, Child
<1>3. ASSUME NEW n \in Child
      PROVE  Dependents(n) = {"summary", "attest", "authorize"}
  BY <1>3 DEF Dependents, Child
<1>4. Dependents("repository_validation") = {"attest", "authorize"}
  BY DEF Dependents, Child
<1>5. Dependents("summary") = {"attest", "authorize"}
  BY DEF Dependents, Child
<1>6. Dependents("attest") = {"authorize"}
  BY DEF Dependents, Child
<1>7. Dependents("authorize") = {}
  BY DEF Dependents, Child
<1> QED
  BY <1>1, <1>2, <1>3, <1>4, <1>5, <1>6, <1>7

\* A job that needs a job needs all that job needs, and none needs itself.
LEMMA DependentsAreClosed ==
    \A n \in GateJob : /\ Dependents(n) \subseteq GateJob /\ n \notin Dependents(n)
                       /\ \A m \in Dependents(n) : Dependents(m) \subseteq Dependents(n)
<1>1. ASSUME NEW n \in GateJob
      PROVE  Dependents(n) \subseteq GateJob /\ n \notin Dependents(n)
  BY <1>1, DependentsOf DEF GateJob, Child
<1>2. ASSUME NEW n \in GateJob, NEW m \in Dependents(n)
      PROVE  Dependents(m) \subseteq Dependents(n)
  BY <1>2, DependentsOf DEF GateJob, Child
<1> QED
  BY <1>1, <1>2

\* A job that ends changes its own result only.
LEMMA JobMoves ==
    ASSUME GateTypes, NEW r \in Validation, NEW n \in GateJob, NEW res \in Results,
           Ends(r, n, res)
    PROVE  /\ result' \in [Validation -> [GateJob -> Results]]
           /\ result'[r][n] = res
           /\ \A m \in GateJob : m # n => result'[r][m] = result[r][m]
           /\ \A q \in Validation : q # r => result'[q] = result[q]
<1>1. result \in [Validation -> [GateJob -> Results]]
  BY DEF GateTypes, GateTypeOK, Results
<1>2. result[r] \in [GateJob -> Results]
  BY <1>1
<1>3. result' = [result EXCEPT ![r] = [result[r] EXCEPT ![n] = res]]
  BY DEF Ends
<1>4. [result[r] EXCEPT ![n] = res] \in [GateJob -> Results]
  BY <1>2
<1>5. /\ result' \in [Validation -> [GateJob -> Results]]
      /\ result'[r] = [result[r] EXCEPT ![n] = res]
      /\ \A q \in Validation : q # r => result'[q] = result[q]
  BY <1>1, <1>3, <1>4
<1> QED
  BY <1>2, <1>5

\* A job that is not queued has nothing left to wait for.
LEMMA NeedsHaveEnded ==
    ASSUME NEW r \in Validation, JobOrder(r), NEW n \in GateJob, NEW m \in Dependents(n),
           ~Waits(r, m)
    PROVE  Ended(r, n)
BY DEF JobOrder

\* The job that moves had none of the jobs it needs before it.
LEMMA OrderKept ==
    ASSUME NEW r \in Validation, JobOrder(r), NEW n \in GateJob, ~Ended(r, n),
           \A p \in GateJob : n \in Dependents(p) => Ended(r, p),
           \A m \in GateJob : m # n => result'[r][m] = result[r][m]
    PROVE  /\ JobOrder(r)'
           /\ \A m \in Dependents(n) : Waits(r, m) /\ Waits(r, m)'
<1>1. \A m \in Dependents(n) : Waits(r, m) /\ m # n /\ m \in GateJob
  BY DependentsAreClosed DEF JobOrder
<1>2. \A m \in Dependents(n) : Waits(r, m)'
  BY <1>1 DEF Waits
<1>3. ASSUME NEW p \in GateJob, ~Ended(r, p)', NEW m \in Dependents(p)
      PROVE  Waits(r, m)'
  <2>1. CASE p = n
    BY <1>2, <1>3, <2>1
  <2>2. CASE p # n
    <3>1. ~Ended(r, p)
      BY <1>3, <2>2 DEF Ended
    <3>2. Waits(r, m) /\ m \in GateJob
      BY <1>3, <3>1, DependentsAreClosed DEF JobOrder
    <3>3. m # n
      BY <1>3, <3>1
    <3> QED
      BY <3>2, <3>3 DEF Waits
  <2> QED
    BY <2>1, <2>2
<1>4. JobOrder(r)'
  BY <1>3 DEF JobOrder, GateJob, Child, Dependents
<1> QED
  BY <1>1, <1>2, <1>4

\* What the jobs of a gate leave alone.
LEMMA RepositoryKept ==
    ASSUME NEW r \in Validation, ExitsInv(r), TreeInv(r),
           step'[r] = step[r], workspace'[r] = workspace[r], exits'[r] = exits[r],
           trusted'[r] = trusted[r], call'[r] = call[r]
    PROVE  ExitsInv(r)' /\ TreeInv(r)'
<1>1. ExitsInv(r)'
  BY DEF ExitsInv
<1>2. TreeInv(r)'
  BY DEF TreeInv, NeedsTrustedRef, Materialized, ContextHolds, PathsMissing
<1> QED
  BY <1>1, <1>2

Elsewhere(q) ==
    /\ call'[q] = call[q] /\ result'[q] = result[q] /\ output'[q] = output[q]
    /\ suite'[q] = suite[q] /\ attestation'[q] = attestation[q]
    /\ authorized'[q] = authorized[q] /\ step'[q] = step[q]
    /\ workspace'[q] = workspace[q] /\ exits'[q] = exits[q] /\ trusted'[q] = trusted[q]

\* What holds of a run's gate holds on through the steps of other runs.
LEMMA GateKept ==
    ASSUME NEW q \in Validation, GateInv(q), Elsewhere(q)
    PROVE  GateInv(q)'
<1> USE DEF Elsewhere
<1>1. JobOrder(q)'
  BY DEF GateInv, JobsInv, JobOrder, Ended, Waits, Dependents, GateJob, Child
<1>2. PreflightInv(q)'
  BY DEF GateInv, JobsInv, PreflightInv, PreflightAccepts, SelfHosted, TrustedMain
<1>3. ValidationInv(q)'
  BY DEF GateInv, JobsInv, ValidationInv, PreflightAccepts, SelfHosted, TrustedMain, Waits
<1>4. ScanInv(q)'
  BY DEF GateInv, JobsInv, ScanInv, Ended
<1>5. SummaryInv(q)'
  BY DEF GateInv, JobsInv, SummaryInv, RestsOnOneAttempt, Waits
<1>6. AttestInv(q)'
  BY DEF GateInv, JobsInv, AttestInv, SuiteResult, WorkflowResult, Waits
<1>7. AuthorizeInv(q)'
  BY DEF GateInv, JobsInv, AuthorizeInv, ValidatedCommit, NeedsTrustedRef, Waits
<1>8. ExitsInv(q)' /\ TreeInv(q)'
  BY RepositoryKept DEF GateInv
<1> QED
  BY <1>1, <1>2, <1>3, <1>4, <1>5, <1>6, <1>7, <1>8 DEF GateInv, JobsInv

-----------------------------------------------------------------------------
(* The jobs of the gate, one by one.                                       *)

\* The jobs that break by themselves are counted within the bound.
LEMMA FaultsTyped ==
    ASSUME GateTypes, NEW r \in Validation, NEW ok, Fine(r, ok)
    PROVE  faults' \in [Validation -> 0..MaxFaults]
<1>1. faults \in [Validation -> 0..MaxFaults] /\ MaxFaults \in Nat
  BY GateAssumption DEF GateTypes, GateTypeOK
<1>2. CASE ok
  BY <1>1, <1>2 DEF Fine
<1>3. CASE ~ok
  <2>1. faults[r] < MaxFaults /\ faults' = [faults EXCEPT ![r] = faults[r] + 1]
    BY <1>3 DEF Fine, Breaks
  <2>2. faults[r] + 1 \in 0..MaxFaults
    BY <1>1, <2>1
  <2> QED
    BY <1>1, <2>1, <2>2
<1> QED
  BY <1>2, <1>3

\* A step of one gate that ends a job and changes nothing else of the result.
LEMMA JobEndsTyped ==
    ASSUME GateTypes, result' \in [Validation -> [GateJob -> Results]],
           faults' \in [Validation -> 0..MaxFaults],
           UNCHANGED <<call, gateAttempt, output, suite, attestation, authorized, repositoryVars>>
    PROVE  GateTypes'
<1>1. RepositoryTypeOK'
  BY DEF GateTypes, GateTypeOK, RepositoryTypeOK, repositoryVars
<1>2. GateTypeOK'
  BY <1>1 DEF GateTypes, GateTypeOK, Results
<1> QED
  BY <1>2 DEF GateTypes

\* The preflight job keeps what holds of the gate.
LEMMA PreflightCorrect ==
    ASSUME GateTypes, NEW r \in Validation, GateInv(r), Preflight(r)
    PROVE  GateTypes' /\ GateInv(r)' /\ \A q \in Validation : q # r => Elsewhere(q)
<1> DEFINE n == "preflight"
<1>1. PICK ok \in BOOLEAN :
         /\ Ends(r, n, IF ok /\ PreflightAccepts(call[r], GateCommit[r])
                       THEN "success" ELSE "failure")
         /\ Fine(r, ok)
  BY DEF Preflight
<1>2. UNCHANGED <<call, gateAttempt, output, suite, attestation, authorized, repositoryVars>>
  BY DEF Preflight
<1> DEFINE res == IF ok /\ PreflightAccepts(call[r], GateCommit[r])
                  THEN "success" ELSE "failure"
<1>3. n \in GateJob /\ Waits(r, n) /\ ~Ended(r, n) /\ res \in Results
  BY DEF Preflight, GateJob, Waits, Ended, JobResult, Results
<1>4. /\ result' \in [Validation -> [GateJob -> Results]] /\ result'[r][n] = res
      /\ \A m \in GateJob : m # n => result'[r][m] = result[r][m]
      /\ \A q \in Validation : q # r => result'[q] = result[q]
  BY <1>1, <1>3, JobMoves
<1>5. GateTypes'
  BY <1>1, <1>2, <1>4, FaultsTyped, JobEndsTyped
<1>6. JobOrder(r)' /\ \A m \in Dependents(n) : Waits(r, m) /\ Waits(r, m)'
  <2>1. \A p \in GateJob : n \notin Dependents(p)
    BY DependentsOf DEF GateJob, Child
  <2> QED
    BY <1>3, <1>4, <2>1, OrderKept DEF GateInv, JobsInv
<1>7. \A m \in GateJob \ {n} : Waits(r, m) /\ Waits(r, m)'
  BY <1>6, DependentsOf
<1>8. PreflightInv(r)'
  BY <1>2, <1>4 DEF PreflightInv, PreflightAccepts, SelfHosted, TrustedMain
<1> HIDE DEF n, res
<1> USE DEF GateInv, JobsInv, repositoryVars
<1>9. ValidationInv(r)'
  BY <1>2, <1>7 DEF ValidationInv, Waits, n, GateJob
<1>10. ScanInv(r)'
  BY <1>7 DEF ScanInv, Waits, Ended, n, GateJob, Child, JobResult
<1>11. SummaryInv(r)'
  BY <1>2, <1>7 DEF SummaryInv, Waits, n, GateJob
<1>12. AttestInv(r)'
  BY <1>2, <1>7 DEF AttestInv, Waits, n, GateJob
<1>13. AuthorizeInv(r)'
  BY <1>2, <1>7 DEF AuthorizeInv, Waits, n, GateJob
<1>14. ExitsInv(r)' /\ TreeInv(r)'
  BY <1>2, RepositoryKept
<1>15. \A q \in Validation : q # r => Elsewhere(q)
  BY <1>2, <1>4 DEF Elsewhere
<1> QED
  BY <1>5, <1>6, <1>8, <1>9, <1>10, <1>11, <1>12, <1>13, <1>14, <1>15

\* The profile job of the security suite keeps what holds of the gate.
LEMMA ProfileCorrect ==
    ASSUME GateTypes, NEW r \in Validation, GateInv(r), ProfileJob(r)
    PROVE  GateTypes' /\ GateInv(r)' /\ \A q \in Validation : q # r => Elsewhere(q)
<1> DEFINE n == "profile"
<1>1. PICK ok \in BOOLEAN :
         /\ Ends(r, n, IF result[r]["preflight"] # "success" THEN "skipped"
                       ELSE IF ok /\ RunnerTrusted(call[r]) THEN "success" ELSE "failure")
         /\ Fine(r, ok)
  BY DEF ProfileJob
<1>2. UNCHANGED <<call, gateAttempt, output, suite, attestation, authorized, repositoryVars>>
  BY DEF ProfileJob
<1> DEFINE res == IF result[r]["preflight"] # "success" THEN "skipped"
                  ELSE IF ok /\ RunnerTrusted(call[r]) THEN "success" ELSE "failure"
<1>3. n \in GateJob /\ Waits(r, n) /\ ~Ended(r, n) /\ res \in Results
  BY DEF ProfileJob, GateJob, Waits, Ended, JobResult, Results
<1>4. /\ result' \in [Validation -> [GateJob -> Results]] /\ result'[r][n] = res
      /\ \A m \in GateJob : m # n => result'[r][m] = result[r][m]
      /\ \A q \in Validation : q # r => result'[q] = result[q]
  BY <1>1, <1>3, JobMoves
<1>5. GateTypes'
  BY <1>1, <1>2, <1>4, FaultsTyped, JobEndsTyped
<1>6. JobOrder(r)' /\ \A m \in Dependents(n) : Waits(r, m) /\ Waits(r, m)'
  <2>1. \A p \in GateJob : n \in Dependents(p) => p = "preflight"
    BY DependentsOf DEF GateJob, Child
  <2>2. Ended(r, "preflight")
    BY DEF ProfileJob
  <2> QED
    BY <1>3, <1>4, <2>1, <2>2, OrderKept DEF GateInv, JobsInv
<1>7. \A m \in Child \cup {"summary", "attest", "authorize"} : Waits(r, m) /\ Waits(r, m)'
  BY <1>6, DependentsOf
<1>8. /\ result'[r]["preflight"] = result[r]["preflight"]
      /\ result'[r]["repository_validation"] = result[r]["repository_validation"]
  BY <1>4 DEF GateJob
<1> HIDE DEF n, res
<1> USE DEF GateInv, JobsInv, repositoryVars
<1>9. PreflightInv(r)' /\ ValidationInv(r)'
  BY <1>2, <1>8 DEF PreflightInv, ValidationInv, Waits, PreflightAccepts, SelfHosted, TrustedMain
<1>10. ScanInv(r)'
  <2>1. result[r]["preflight"] # "success" => result'[r]["profile"] = "skipped"
    BY <1>4 DEF n, res
  <2>2. \A m \in Child : ~Ended(r, m)'
    BY <1>7 DEF Waits, Ended, JobResult
  <2> QED
    BY <1>8, <2>1, <2>2 DEF ScanInv
<1>11. SummaryInv(r)'
  BY <1>2, <1>7 DEF SummaryInv, Waits
<1>12. AttestInv(r)'
  BY <1>2, <1>7 DEF AttestInv, Waits
<1>13. AuthorizeInv(r)'
  BY <1>2, <1>7 DEF AuthorizeInv, Waits
<1>14. ExitsInv(r)' /\ TreeInv(r)'
  BY <1>2, RepositoryKept
<1>15. \A q \in Validation : q # r => Elsewhere(q)
  BY <1>2, <1>4 DEF Elsewhere
<1> QED
  BY <1>5, <1>6, <1>9, <1>10, <1>11, <1>12, <1>13, <1>14, <1>15

\* A scan job writes its own output only.
LEMMA OutputTyped ==
    ASSUME GateTypes, NEW r \in Validation, NEW n \in Child, NEW v,
           output' = [output EXCEPT ![r][n] = v]
    PROVE  /\ output' = [q \in Validation |-> output'[q]]
           /\ \A q \in Validation : output'[q] = [m \in Child |-> output'[q][m]]
           /\ \A q \in Validation : q # r => output'[q] = output[q]
<1>1. output = [q \in Validation |-> output[q]] /\ output[r] = [m \in Child |-> output[r][m]]
  BY DEF GateTypes
<1> DEFINE new == [output[r] EXCEPT ![n] = v]
<1>2. output' = [output EXCEPT ![r] = new]
  OBVIOUS
<1>3. new = [m \in Child |-> new[m]]
  BY <1>1
<1> HIDE DEF new
<1>4. DOMAIN output = Validation
  BY <1>1
<1>5. output' = [q \in Validation |-> IF q = r THEN new ELSE output[q]]
  BY <1>2, <1>4
<1>6. output'[r] = new /\ \A q \in Validation : q # r => output'[q] = output[q]
  BY <1>5
<1>7. output' = [q \in Validation |-> output'[q]]
  BY <1>5, <1>6
<1>8. \A q \in Validation : output[q] = [m \in Child |-> output[q][m]]
  BY DEF GateTypes
<1>9. \A q \in Validation : output'[q] = [m \in Child |-> output'[q][m]]
  BY <1>3, <1>6, <1>8
<1> QED
  BY <1>6, <1>7, <1>9

\* A scan job, with the evidence it leaves, keeps what holds of the gate.
LEMMA ScanJobCorrect ==
    ASSUME GateTypes, NEW r \in Validation, GateInv(r), NEW n \in Child, ScanJob(r, n)
    PROVE  GateTypes' /\ GateInv(r)' /\ \A q \in Validation : q # r => Elsewhere(q)
<1>1. UNCHANGED <<call, gateAttempt, suite, attestation, authorized, repositoryVars>>
  BY DEF ScanJob
<1>2. n \in GateJob /\ Waits(r, n) /\ ~Ended(r, n) /\ n \notin {"preflight", "profile",
         "repository_validation", "summary", "attest", "authorize"}
  BY DEF ScanJob, GateJob, Waits, Ended, JobResult, Child
<1>3. \E res \in JobResult :
         /\ Ends(r, n, res)
         /\ result[r]["profile"] # "success" => res = "skipped"
         /\ faults' \in [Validation -> 0..MaxFaults]
         /\ output' = output \/ \E v : output' = [output EXCEPT ![r][n] = v]
  <2>1. CASE result[r]["profile"] # "success" \/ ~Runs(call[r], n)
    <3>1. Ends(r, n, "skipped") /\ UNCHANGED <<output, faults>>
      BY <2>1 DEF ScanJob
    <3>2. faults' \in [Validation -> 0..MaxFaults]
      BY <3>1 DEF GateTypes, GateTypeOK
    <3> QED
      BY <3>1, <3>2 DEF JobResult
  <2>2. CASE ~(result[r]["profile"] # "success" \/ ~Runs(call[r], n))
    <3>1. PICK conclusion \in {"success", "failure", "cancelled"},
               content, helper, uploaded \in BOOLEAN :
             LET record == Bundle(Identity(r), n, conclusion, content)
                 ok == conclusion = "success" /\ helper /\ ~BundleFails(record) /\ uploaded
             IN
             /\ output' = [output EXCEPT ![r][n] =
                   [record |-> IF helper THEN record ELSE NoRecord,
                    artifact |-> IF uploaded THEN n ELSE NoArtifact]]
             /\ Ends(r, n, IF conclusion = "cancelled" THEN "cancelled"
                           ELSE IF ok THEN "success" ELSE "failure")
             /\ Fine(r, ok)
      BY <2>2 DEF ScanJob
    <3> DEFINE record == Bundle(Identity(r), n, conclusion, content)
               ok == conclusion = "success" /\ helper /\ ~BundleFails(record) /\ uploaded
               res == IF conclusion = "cancelled" THEN "cancelled"
                      ELSE IF ok THEN "success" ELSE "failure"
    <3>2. Ends(r, n, res) /\ Fine(r, ok) /\ \E v : output' = [output EXCEPT ![r][n] = v]
      BY <3>1
    <3>3. res \in JobResult
      BY DEF JobResult
    <3> HIDE DEF res, ok
    <3>4. faults' \in [Validation -> 0..MaxFaults]
      BY <3>2, FaultsTyped
    <3> QED
      BY <2>2, <3>2, <3>3, <3>4
  <2> QED
    BY <2>1, <2>2
<1>4. PICK res \in JobResult :
         /\ Ends(r, n, res)
         /\ result[r]["profile"] # "success" => res = "skipped"
         /\ faults' \in [Validation -> 0..MaxFaults]
         /\ output' = output \/ \E v : output' = [output EXCEPT ![r][n] = v]
  BY <1>3
<1>5. /\ result' \in [Validation -> [GateJob -> Results]] /\ result'[r][n] = res
      /\ \A m \in GateJob : m # n => result'[r][m] = result[r][m]
      /\ \A q \in Validation : q # r => result'[q] = result[q]
  BY <1>2, <1>4, JobMoves DEF Results
<1>6. /\ output' = [q \in Validation |-> output'[q]]
      /\ \A q \in Validation : output'[q] = [m \in Child |-> output'[q][m]]
      /\ \A q \in Validation : q # r => output'[q] = output[q]
  <2>1. CASE output' = output
    BY <2>1 DEF GateTypes
  <2>2. CASE \E v : output' = [output EXCEPT ![r][n] = v]
    BY <2>2, OutputTyped
  <2> QED
    BY <1>4, <2>1, <2>2
<1>7. GateTypes'
  <2>1. RepositoryTypeOK'
    BY <1>1 DEF GateTypes, GateTypeOK, RepositoryTypeOK, repositoryVars
  <2>2. GateTypeOK'
    BY <1>1, <1>4, <1>5, <2>1 DEF GateTypes, GateTypeOK, Results
  <2> QED
    BY <1>1, <1>6, <2>2 DEF GateTypes
<1>8. JobOrder(r)' /\ \A m \in Dependents(n) : Waits(r, m) /\ Waits(r, m)'
  <2>1. \A p \in GateJob : n \in Dependents(p) => p = "preflight" \/ p = "profile"
    BY <1>2, DependentsOf DEF GateJob, Child
  <2>2. Ended(r, "profile") /\ ~Waits(r, "profile")
    BY DEF ScanJob, Ended, Waits, JobResult
  <2>3. Ended(r, "preflight")
    <3>1. "profile" \in Dependents("preflight") /\ "preflight" \in GateJob
      BY DependentsOf DEF GateJob
    <3> QED
      BY <2>2, <3>1, NeedsHaveEnded DEF GateInv, JobsInv
  <2> QED
    BY <1>2, <1>5, <2>1, <2>2, <2>3, OrderKept DEF GateInv, JobsInv
<1>9. \A m \in {"summary", "attest", "authorize"} : Waits(r, m) /\ Waits(r, m)'
  BY <1>8, DependentsOf
<1>10. \A m \in {"preflight", "profile", "repository_validation"} :
          result'[r][m] = result[r][m]
  BY <1>2, <1>5 DEF GateJob
<1> USE DEF GateInv, JobsInv, repositoryVars
<1>11. PreflightInv(r)' /\ ValidationInv(r)'
  BY <1>1, <1>10 DEF PreflightInv, ValidationInv, Waits, PreflightAccepts, SelfHosted, TrustedMain
<1>12. ScanInv(r)'
  <2>1. ASSUME NEW m \in Child, m # n
        PROVE  result'[r][m] = result[r][m]
    BY <1>5, <2>1 DEF GateJob
  <2> QED
    BY <1>4, <1>5, <1>10, <2>1 DEF ScanInv, Ended
<1>13. SummaryInv(r)'
  BY <1>1, <1>9 DEF SummaryInv, Waits
<1>14. AttestInv(r)'
  BY <1>1, <1>9 DEF AttestInv, Waits
<1>15. AuthorizeInv(r)'
  BY <1>1, <1>9 DEF AuthorizeInv, Waits
<1>16. ExitsInv(r)' /\ TreeInv(r)'
  BY <1>1, RepositoryKept
<1>17. \A q \in Validation : q # r => Elsewhere(q)
  BY <1>1, <1>5, <1>6 DEF Elsewhere
<1> QED
  BY <1>7, <1>8, <1>11, <1>12, <1>13, <1>14, <1>15, <1>16, <1>17

\* The summary job accepts children of one attempt (security_evidence.py).
LEMMA SummaryCorrect ==
    ASSUME GateTypes, NEW r \in Validation, GateInv(r), Summary(r)
    PROVE  GateTypes' /\ GateInv(r)' /\ \A q \in Validation : q # r => Elsewhere(q)
<1> DEFINE n == "summary"
           passes(ok) == /\ ok /\ result[r]["profile"] = "success"
                         /\ SuitePasses(RequiredJobs(call[r].profile, call[r].images),
                                        SuiteJobs(r), output[r], Identity(r))
           sum(p) == [result |-> IF p THEN "passed" ELSE "failed", attempt |-> gateAttempt[r]]
           skipped == result[r]["preflight"] # "success"
<1>1. UNCHANGED <<call, gateAttempt, output, attestation, authorized, repositoryVars>>
  BY DEF Summary
<1>2. n \in GateJob /\ Waits(r, n) /\ ~Ended(r, n) /\ \A m \in SuiteJob : Ended(r, m)
  BY DEF Summary, GateJob, Waits, Ended, JobResult
<1>3. \E res \in JobResult :
         /\ Ends(r, n, res) /\ faults' \in [Validation -> 0..MaxFaults]
         /\ \/ skipped /\ res = "skipped" /\ suite' = suite
            \/ \E p \in BOOLEAN :
                  /\ p => passes(TRUE)
                  /\ suite' = [suite EXCEPT ![r] = sum(p)]
                  /\ res = IF p THEN "success" ELSE "failure"
  <2>1. CASE skipped
    <3>1. Ends(r, n, "skipped") /\ UNCHANGED <<suite, faults>>
      BY <2>1 DEF Summary
    <3>2. faults' \in [Validation -> 0..MaxFaults]
      BY <3>1 DEF GateTypes, GateTypeOK
    <3> QED
      BY <2>1, <3>1, <3>2 DEF JobResult
  <2>2. CASE ~skipped
    <3>1. PICK ok \in BOOLEAN :
             /\ suite' = [suite EXCEPT ![r] = sum(passes(ok))]
             /\ Ends(r, n, IF passes(ok) THEN "success" ELSE "failure")
             /\ Fine(r, ok)
      BY <2>2 DEF Summary
    <3>2. faults' \in [Validation -> 0..MaxFaults]
      BY <3>1, FaultsTyped
    <3>3. passes(ok) => passes(TRUE)
      OBVIOUS
    <3>4. CASE passes(ok)
      BY <3>1, <3>2, <3>3, <3>4 DEF JobResult
    <3>5. CASE ~passes(ok)
      BY <3>1, <3>2, <3>5 DEF JobResult
    <3> QED
      BY <3>4, <3>5
  <2> QED
    BY <2>1, <2>2
<1>4. PICK res \in JobResult :
         /\ Ends(r, n, res) /\ faults' \in [Validation -> 0..MaxFaults]
         /\ \/ skipped /\ res = "skipped" /\ suite' = suite
            \/ \E p \in BOOLEAN :
                  /\ p => passes(TRUE)
                  /\ suite' = [suite EXCEPT ![r] = sum(p)]
                  /\ res = IF p THEN "success" ELSE "failure"
  BY <1>3
<1>5. /\ result' \in [Validation -> [GateJob -> Results]] /\ result'[r][n] = res
      /\ \A m \in GateJob : m # n => result'[r][m] = result[r][m]
      /\ \A q \in Validation : q # r => result'[q] = result[q]
  BY <1>2, <1>4, JobMoves DEF Results
<1>6. gateAttempt[r] \in 1..MaxAttempts
  BY DEF GateTypes, GateTypeOK
<1> DEFINE Suites == {NoSuite} \cup [result : {"passed", "failed"}, attempt : 1..MaxAttempts]
<1>7. suite \in [Validation -> Suites]
  BY DEF GateTypes, GateTypeOK
<1>8. \A p \in BOOLEAN : sum(p) \in Suites /\ sum(p) # NoSuite
  <2>1. ASSUME NEW p \in BOOLEAN
        PROVE  sum(p) \in Suites /\ sum(p) # NoSuite
    BY <1>6, GateAssumption
  <2> QED
    BY <2>1
<1>9. suite' \in [Validation -> Suites] /\ \A q \in Validation : q # r => suite'[q] = suite[q]
  <2>1. CASE suite' = suite
    BY <1>7, <2>1
  <2>2. ASSUME NEW p \in BOOLEAN, suite' = [suite EXCEPT ![r] = sum(p)]
        PROVE  suite' \in [Validation -> Suites] /\ \A q \in Validation : q # r => suite'[q] = suite[q]
    <3> HIDE DEF sum, Suites
    <3> QED
      BY <1>7, <1>8, <2>2
  <2> QED
    BY <1>4, <2>1, <2>2
<1>10. GateTypes'
  <2>1. RepositoryTypeOK'
    BY <1>1 DEF GateTypes, GateTypeOK, RepositoryTypeOK, repositoryVars
  <2>2. GateTypeOK'
    BY <1>1, <1>4, <1>5, <1>9, <2>1 DEF GateTypes, GateTypeOK, Results
  <2> QED
    BY <1>1, <2>2 DEF GateTypes
<1>11. /\ JobOrder(r)' /\ \A m \in Dependents(n) : Waits(r, m) /\ Waits(r, m)'
       /\ Ended(r, "preflight")
  <2>1. \A p \in GateJob : n \in Dependents(p) => p = "preflight" \/ p \in SuiteJob
    BY DependentsOf DEF GateJob, SuiteJob
  <2>2. ~Waits(r, "profile") /\ "profile" \in Dependents("preflight") /\ "preflight" \in GateJob
    BY <1>2, DependentsOf DEF SuiteJob, GateJob, Ended, Waits, JobResult
  <2>3. Ended(r, "preflight")
    BY <2>2, NeedsHaveEnded DEF GateInv, JobsInv
  <2> QED
    BY <1>2, <1>5, <2>1, <2>3, OrderKept DEF GateInv, JobsInv
<1>12. \A m \in {"attest", "authorize"} : Waits(r, m) /\ Waits(r, m)'
  BY <1>11, DependentsOf
<1>13. /\ \A m \in {"preflight", "repository_validation"} : result'[r][m] = result[r][m]
       /\ \A m \in SuiteJob : result'[r][m] = result[r][m]
  BY <1>5 DEF GateJob, SuiteJob, Child
<1> USE DEF GateInv, JobsInv, repositoryVars
<1>14. PreflightInv(r)' /\ ValidationInv(r)'
  BY <1>1, <1>13 DEF PreflightInv, ValidationInv, Waits, PreflightAccepts, SelfHosted, TrustedMain
<1>15. ScanInv(r)'
  BY <1>13 DEF ScanInv, Ended, SuiteJob
<1>16. SummaryInv(r)'
  <2>1. CASE skipped /\ res = "skipped" /\ suite' = suite
    <3>1. suite[r] = NoSuite
      BY <1>2 DEF SummaryInv
    <3>2. result[r]["profile"] = "skipped"
      BY <1>2, <2>1 DEF ScanInv, SuiteJob
    <3>3. \A m \in Child : result[r][m] = "skipped"
      BY <1>2, <3>2 DEF ScanInv, SuiteJob
    <3>4. \A m \in SuiteJob : result'[r][m] = "skipped"
      BY <1>13, <3>2, <3>3 DEF SuiteJob
    <3> QED
      BY <1>5, <2>1, <3>1, <3>4 DEF SummaryInv
  <2>2. ASSUME NEW p \in BOOLEAN, p => passes(TRUE), suite' = [suite EXCEPT ![r] = sum(p)],
               res = IF p THEN "success" ELSE "failure"
        PROVE  SummaryInv(r)'
    <3>1. suite'[r] = sum(p)
      BY <1>7, <2>2
    <3>2. ~Waits(r, n)'
      BY <1>5, <2>2 DEF Waits
    <3>3. res # "skipped" /\ (res = "success" => p)
      BY <2>2
    <3>4. sum(p).result = "passed" => p
      OBVIOUS
    <3>5. sum(p).attempt = gateAttempt[r]
      OBVIOUS
    <3>6. p => sum(p).result = "passed"
      OBVIOUS
    <3>7. ASSUME p
          PROVE  \A m \in RequiredJobs(call[r].profile, call[r].images) \ {"profile"} :
                    /\ output[r][m].artifact # NoArtifact
                    /\ output[r][m].record # NoRecord
                    /\ output[r][m].record.attempt = gateAttempt[r]
                    /\ output[r][m].record.source = GateCommit[r]
                    /\ output[r][m].record.result = "passed" /\ output[r][m].record.content
      <4> TAKE m \in RequiredJobs(call[r].profile, call[r].images) \ {"profile"}
      <4>1. m \in Child
        BY DEF RequiredJobs, Child
      <4>2. SuitePasses(RequiredJobs(call[r].profile, call[r].images), SuiteJobs(r),
                        output[r], Identity(r))
        BY <2>2, <3>7
      <4>3. SuiteJobs(r)[m] = "success"
        BY <4>2 DEF SuitePasses
      <4>4. ChildAccepted(m, output[r][m], "success", Identity(r))
        BY <4>1, <4>2, <4>3 DEF SuitePasses
      <4> QED
        BY <4>4 DEF ChildAccepted, Identity
    <3> HIDE DEF sum, passes, n
    <3>8. RestsOnOneAttempt(r)'
      BY <1>1, <3>1, <3>4, <3>5, <3>7 DEF RestsOnOneAttempt
    <3>9. sum(p) # NoSuite
      BY <1>8
    <3> QED
      BY <1>5, <3>1, <3>2, <3>3, <3>6, <3>8, <3>9 DEF SummaryInv, n
  <2> QED
    BY <1>4, <2>1, <2>2
<1>17. AttestInv(r)'
  BY <1>1, <1>12 DEF AttestInv, Waits
<1>18. AuthorizeInv(r)'
  BY <1>1, <1>12 DEF AuthorizeInv, Waits
<1>19. ExitsInv(r)' /\ TreeInv(r)'
  BY <1>1, RepositoryKept
<1>20. \A q \in Validation : q # r => Elsewhere(q)
  BY <1>1, <1>5, <1>9 DEF Elsewhere
<1> QED
  BY <1>10, <1>11, <1>14, <1>15, <1>16, <1>17, <1>18, <1>19, <1>20

\* The attestation rests on both halves of the gate (validation_attestation).
LEMMA AttestCorrect ==
    ASSUME GateTypes, NEW r \in Validation, GateInv(r), Attest(r)
    PROVE  GateTypes' /\ GateInv(r)' /\ \A q \in Validation : q # r => Elsewhere(q)
<1> DEFINE n == "attest"
           made == Attestation(call[r].candidate, call[r].path,
                     [check \in {"repository_validation", "security_suite"} |->
                        IF check = "security_suite" THEN SuiteResult(r)
                        ELSE result[r]["repository_validation"]])
           kept == IF call[r].candidate = GateCommit[r] THEN made ELSE NoAttestation
<1>1. UNCHANGED <<call, gateAttempt, output, suite, authorized, repositoryVars>>
  BY DEF Attest
<1>2. /\ n \in GateJob /\ Waits(r, n) /\ ~Ended(r, n)
      /\ Ended(r, "repository_validation") /\ Ended(r, "summary")
  BY DEF Attest, GateJob, Waits, Ended, JobResult
<1>3. \E res \in JobResult :
         Ends(r, n, res) /\ faults' \in [Validation -> 0..MaxFaults]
  <2>1. PICK ok \in BOOLEAN :
           /\ Ends(r, n, IF /\ ok /\ call[r].candidate = GateCommit[r]
                            /\ made.result = "passed"
                         THEN "success" ELSE "failure")
           /\ Fine(r, ok)
    BY DEF Attest
  <2>2. faults' \in [Validation -> 0..MaxFaults]
    BY <2>1, FaultsTyped
  <2> HIDE DEF made
  <2> QED
    BY <2>1, <2>2 DEF JobResult
<1>4. attestation' = [attestation EXCEPT ![r] = kept]
  BY DEF Attest
<1>5. PICK res \in JobResult :
         Ends(r, n, res) /\ faults' \in [Validation -> 0..MaxFaults]
  BY <1>3
<1>6. /\ result' \in [Validation -> [GateJob -> Results]] /\ result'[r][n] = res
      /\ \A m \in GateJob : m # n => result'[r][m] = result[r][m]
      /\ \A q \in Validation : q # r => result'[q] = result[q]
  BY <1>2, <1>5, JobMoves DEF Results
<1>7. /\ attestation' = [q \in Validation |-> attestation'[q]] /\ attestation'[r] = kept
      /\ \A q \in Validation : q # r => attestation'[q] = attestation[q]
  <2>1. attestation = [q \in Validation |-> attestation[q]]
    BY DEF GateTypes
  <2> HIDE DEF kept
  <2> QED
    BY <1>4, <2>1
<1>8. GateTypes'
  <2>1. RepositoryTypeOK'
    BY <1>1 DEF GateTypes, GateTypeOK, RepositoryTypeOK, repositoryVars
  <2>2. GateTypeOK'
    BY <1>1, <1>5, <1>6, <2>1 DEF GateTypes, GateTypeOK, Results
  <2> QED
    BY <1>1, <1>7, <2>2 DEF GateTypes
<1>9. JobOrder(r)' /\ \A m \in Dependents(n) : Waits(r, m) /\ Waits(r, m)'
  <2>1. ASSUME NEW p \in GateJob, n \in Dependents(p)
        PROVE  Ended(r, p)
    <3>1. CASE p \in {"repository_validation", "summary"}
      BY <1>2, <3>1
    <3>2. CASE p \notin {"repository_validation", "summary"}
      <4>1. "summary" \in Dependents(p)
        BY <2>1, <3>2, DependentsOf DEF GateJob, Child
      <4>2. ~Waits(r, "summary")
        BY <1>2 DEF Ended, Waits, JobResult
      <4> QED
        BY <4>1, <4>2, NeedsHaveEnded DEF GateInv, JobsInv
    <3> QED
      BY <3>1, <3>2
  <2> QED
    BY <1>2, <1>6, <2>1, OrderKept DEF GateInv, JobsInv
<1>10. Waits(r, "authorize") /\ Waits(r, "authorize")'
  BY <1>9, DependentsOf
<1>11. /\ \A m \in {"preflight", "repository_validation", "summary"} :
             result'[r][m] = result[r][m]
       /\ \A m \in SuiteJob : result'[r][m] = result[r][m]
  BY <1>6 DEF GateJob, SuiteJob, Child
<1> USE DEF GateInv, JobsInv, repositoryVars
<1>12. PreflightInv(r)' /\ ValidationInv(r)'
  BY <1>1, <1>11 DEF PreflightInv, ValidationInv, Waits, PreflightAccepts, SelfHosted, TrustedMain
<1>13. ScanInv(r)'
  BY <1>11 DEF ScanInv, Ended, SuiteJob
<1>14. SummaryInv(r)'
  BY <1>1, <1>11 DEF SummaryInv, RestsOnOneAttempt, Waits
<1>15. AttestInv(r)'
  <2>1. ASSUME attestation'[r] # NoAttestation
        PROVE  kept = made /\ call[r].candidate = GateCommit[r]
    BY <1>7, <2>1
  <2>2. made.path = call[r].path
    BY DEF Attestation
  <2>3. made.result = "passed" =>
           result[r]["repository_validation"] = "success" /\ SuiteResult(r) = "success"
    BY DEF Attestation
  <2>4. SuiteResult(r)' = SuiteResult(r)
    BY <1>11 DEF SuiteResult, WorkflowResult
  <2>5. ~Waits(r, n)'
    BY <1>6 DEF Waits, JobResult
  <2> HIDE DEF made, kept
  <2> QED
    BY <1>1, <1>7, <1>11, <2>1, <2>2, <2>3, <2>4, <2>5 DEF AttestInv
<1>16. AuthorizeInv(r)'
  BY <1>1, <1>10 DEF AuthorizeInv, Waits
<1>17. ExitsInv(r)' /\ TreeInv(r)'
  BY <1>1, RepositoryKept
<1>18. \A q \in Validation : q # r => Elsewhere(q)
  BY <1>1, <1>6, <1>7 DEF Elsewhere
<1> QED
  BY <1>8, <1>9, <1>12, <1>13, <1>14, <1>15, <1>16, <1>17, <1>18

\* When the gate has passed, so have its two halves.
LEMMA PassedGate ==
    ASSUME NEW r \in Validation, GateInv(r), attestation[r] # NoAttestation,
           Authorized(WorkflowResult(r, GateJob \ {"authorize"}), attestation[r],
                      GateCommit[r], AllowedPaths, call[r].onMain)
    PROVE  ValidatedCommit(r)
<1>1. /\ call[r].candidate = GateCommit[r] /\ attestation[r].path = call[r].path
      /\ result[r]["repository_validation"] = "success" /\ SuiteResult(r) = "success"
      /\ call[r].path \in AllowedPaths /\ call[r].onMain
  BY DEF GateInv, JobsInv, AttestInv, Authorized
<1>2. step[r] = "passed"
  BY <1>1 DEF GateInv, JobsInv, ValidationInv
<1>3. exits[r][Len(exits[r])] = "ok" /\ (NeedsTrustedRef(call[r]) => trusted[r])
  BY <1>2 DEF GateInv, ExitsInv, TreeInv
<1>4. result[r]["summary"] = "success"
  <2>1. \A n \in SuiteJob \cup {"summary"} : result[r][n] \in {"success", "skipped"}
    BY <1>1 DEF SuiteResult, WorkflowResult
  <2>2. ~(\A n \in SuiteJob \cup {"summary"} : result[r][n] = "skipped")
    BY <1>1 DEF SuiteResult, WorkflowResult
  <2>3. result[r]["summary"] = "skipped" => \A n \in SuiteJob : result[r][n] = "skipped"
    BY DEF GateInv, JobsInv, SummaryInv
  <2> QED
    BY <2>1, <2>2, <2>3
<1>5. suite[r] # NoSuite /\ suite[r].result = "passed"
  BY <1>4 DEF GateInv, JobsInv, SummaryInv
<1> QED
  BY <1>1, <1>2, <1>3, <1>5 DEF ValidatedCommit

\* The authorization rests on the attestation (validation_authorization).
LEMMA AuthorizeCorrect ==
    ASSUME GateTypes, NEW r \in Validation, GateInv(r), Authorize(r)
    PROVE  GateTypes' /\ GateInv(r)' /\ \A q \in Validation : q # r => Elsewhere(q)
<1> DEFINE n == "authorize"
           granted == /\ attestation[r] # NoAttestation
                      /\ Authorized(WorkflowResult(r, GateJob \ {"authorize"}), attestation[r],
                                    GateCommit[r], AllowedPaths, call[r].onMain)
           res == IF granted THEN "success" ELSE "failure"
<1>1. UNCHANGED <<call, gateAttempt, output, suite, attestation, faults, repositoryVars>>
  BY DEF Authorize
<1>2. n \in GateJob /\ Waits(r, n) /\ ~Ended(r, n) /\ Ended(r, "attest") /\ res \in Results
  BY DEF Authorize, GateJob, Waits, Ended, JobResult, Results
<1>3. authorized' = [authorized EXCEPT ![r] = granted] /\ Ends(r, n, res)
  BY DEF Authorize
<1>4. granted => ValidatedCommit(r)
  BY PassedGate
<1>5. granted \in BOOLEAN /\ res # "queued"
  OBVIOUS
<1> HIDE DEF granted, res
<1>6. /\ result' \in [Validation -> [GateJob -> Results]] /\ result'[r][n] = res
      /\ \A m \in GateJob : m # n => result'[r][m] = result[r][m]
      /\ \A q \in Validation : q # r => result'[q] = result[q]
  BY <1>2, <1>3, JobMoves
<1>7. /\ authorized' \in [Validation -> BOOLEAN] /\ authorized'[r] = granted
      /\ \A q \in Validation : q # r => authorized'[q] = authorized[q]
  <2>1. authorized \in [Validation -> BOOLEAN]
    BY DEF GateTypes, GateTypeOK
  <2> QED
    BY <1>3, <1>5, <2>1
<1>8. GateTypes'
  <2>1. RepositoryTypeOK'
    BY <1>1 DEF GateTypes, GateTypeOK, RepositoryTypeOK, repositoryVars
  <2>2. GateTypeOK'
    BY <1>1, <1>6, <1>7, <2>1 DEF GateTypes, GateTypeOK, Results
  <2> QED
    BY <1>1, <2>2 DEF GateTypes
<1>9. JobOrder(r)'
  <2>1. ASSUME NEW p \in GateJob, n \in Dependents(p)
        PROVE  Ended(r, p)
    <3>1. CASE p = "attest"
      BY <1>2, <3>1
    <3>2. CASE p # "attest"
      <4>1. "attest" \in Dependents(p)
        BY <2>1, <3>2, DependentsOf DEF GateJob, Child
      <4>2. ~Waits(r, "attest")
        BY <1>2 DEF Ended, Waits, JobResult
      <4> QED
        BY <4>1, <4>2, NeedsHaveEnded DEF GateInv, JobsInv
    <3> QED
      BY <3>1, <3>2
  <2> QED
    BY <1>2, <1>6, <2>1, OrderKept DEF GateInv, JobsInv
<1>10. /\ \A m \in {"preflight", "repository_validation", "summary", "attest"} :
             result'[r][m] = result[r][m]
       /\ \A m \in SuiteJob : result'[r][m] = result[r][m]
  BY <1>6 DEF GateJob, SuiteJob, Child
<1> USE DEF GateInv, JobsInv, repositoryVars
<1>11. PreflightInv(r)' /\ ValidationInv(r)'
  BY <1>1, <1>10 DEF PreflightInv, ValidationInv, Waits, PreflightAccepts, SelfHosted, TrustedMain
<1>12. ScanInv(r)'
  BY <1>10 DEF ScanInv, Ended, SuiteJob
<1>13. SummaryInv(r)'
  BY <1>1, <1>10 DEF SummaryInv, RestsOnOneAttempt, Waits
<1>14. AttestInv(r)'
  BY <1>1, <1>10 DEF AttestInv, SuiteResult, WorkflowResult, Waits
<1>15. AuthorizeInv(r)'
  <2>1. ~Waits(r, n)'
    BY <1>5, <1>6 DEF Waits
  <2>2. granted => ValidatedCommit(r)'
    BY <1>1, <1>4 DEF ValidatedCommit, NeedsTrustedRef
  <2> QED
    BY <1>7, <2>1, <2>2 DEF AuthorizeInv
<1>16. ExitsInv(r)' /\ TreeInv(r)'
  BY <1>1, RepositoryKept
<1>17. \A q \in Validation : q # r => Elsewhere(q)
  BY <1>1, <1>6, <1>7 DEF Elsewhere
<1> QED
  BY <1>8, <1>9, <1>11, <1>12, <1>13, <1>14, <1>15, <1>16, <1>17

-----------------------------------------------------------------------------
(* The repository's validation, inside its job.                            *)

RepositoryElsewhere(r) ==
    \A q \in Validation : q # r =>
        /\ step'[q] = step[q] /\ workspace'[q] = workspace[q]
        /\ exits'[q] = exits[q] /\ trusted'[q] = trusted[q]

\* The repository validation of one run moves that run's step only.
LEMMA StepMoves ==
    ASSUME RepositoryTypeOK, NEW r \in Validation, NEW s \in Step, Proceeds(r, s)
    PROVE  /\ step' \in [Validation -> Step] /\ step'[r] = s
           /\ \A q \in Validation : q # r => step'[q] = step[q]
BY DEF RepositoryTypeOK, Proceeds

\* A turn of the retry loop runs the executable on the verified tree.
LEMMA ScriptRuns ==
    ASSUME RepositoryTypeOK, NEW r \in Validation, ExitsInv(r), TreeInv(r), RunScript(r),
           call' = call
    PROVE  RepositoryTypeOK' /\ ExitsInv(r)' /\ TreeInv(r)' /\ RepositoryElsewhere(r)
<1>1. PICK e \in Exit :
         /\ exits' = [exits EXCEPT ![r] = Append(exits[r], e)]
         /\ Proceeds(r, IF e = Transient /\ Len(exits[r]) + 1 < MaxRetryAttempts
                        THEN "run" ELSE "report")
  BY DEF RunScript
<1>2. step[r] = "run" /\ UNCHANGED <<workspace, trusted>>
  BY DEF RunScript
<1> DEFINE s == IF e = Transient /\ Len(exits[r]) + 1 < MaxRetryAttempts THEN "run" ELSE "report"
<1>3. s \in Step /\ s \in {"run", "report"}
  BY DEF Step, Started
<1>4. Proceeds(r, s)
  BY <1>1
<1>5. s = "run" => e = Transient /\ Len(exits[r]) + 1 < MaxRetryAttempts
  OBVIOUS
<1> HIDE DEF s
<1>6. /\ step' \in [Validation -> Step] /\ step'[r] = s
      /\ \A q \in Validation : q # r => step'[q] = step[q]
  BY <1>3, <1>4, StepMoves
<1>7. exits \in [Validation -> Seq(Exit)] /\ exits[r] \in Seq(Exit)
  BY DEF RepositoryTypeOK
<1>8. Append(exits[r], e) \in Seq(Exit)
  BY <1>7
<1>9. /\ exits' \in [Validation -> Seq(Exit)] /\ exits'[r] = Append(exits[r], e)
      /\ \A q \in Validation : q # r => exits'[q] = exits[q]
  BY <1>1, <1>7, <1>8
<1>10. /\ Len(exits'[r]) = Len(exits[r]) + 1 /\ Len(exits[r]) \in Nat
       /\ exits'[r][Len(exits[r]) + 1] = e
       /\ \A i \in 1..Len(exits[r]) : exits'[r][i] = exits[r][i]
  BY <1>7, <1>9
<1>11. /\ Len(exits[r]) < MaxRetryAttempts
       /\ \A i \in 1..Len(exits[r]) : exits[r][i] = Transient
  BY <1>2 DEF ExitsInv
<1>12. ExitsInv(r)'
  <2>1. \A i \in 1..Len(exits'[r]) : i < Len(exits'[r]) => exits'[r][i] = Transient
    BY <1>10, <1>11
  <2>2. \A i \in 1..Len(exits'[r]) : i <= MaxRetryAttempts
    BY <1>10, <1>11, RetryAssumption
  <2>3. s = "run" => /\ Len(exits'[r]) < MaxRetryAttempts
                     /\ \A i \in 1..Len(exits'[r]) : exits'[r][i] = Transient
    BY <1>5, <1>10, <1>11
  <2>4. s \notin {"check out", "verify", "repair", "check trust", "passed"}
    BY <1>3
  <2> QED
    BY <1>6, <2>1, <2>2, <2>3, <2>4 DEF ExitsInv
<1>13. TreeInv(r)'
  <2>1. Materialized(workspace[r])' /\ (NeedsTrustedRef(call[r]) => trusted[r])
    BY <1>2 DEF TreeInv, Materialized, ContextHolds, PathsMissing
  <2> QED
    BY <1>2, <2>1 DEF TreeInv, Materialized, ContextHolds, PathsMissing, NeedsTrustedRef
<1>14. RepositoryTypeOK'
  BY <1>2, <1>6, <1>9 DEF RepositoryTypeOK
<1> QED
  BY <1>2, <1>6, <1>9, <1>12, <1>13, <1>14 DEF RepositoryElsewhere

\* A step that runs nothing: the exits stay.
LEMMA ExitsStay ==
    ASSUME NEW r \in Validation, ExitsInv(r), exits' = exits,
           step'[r] \in {"waiting", "report", "failed"}
    PROVE  ExitsInv(r)'
BY DEF ExitsInv

\* The retry loop runs the executable at least once.
LEMMA OneRun == 0 < MaxRetryAttempts
BY RetryAssumption

\* Before the executable has run there is nothing to say of its exits.
LEMMA NothingRun ==
    ASSUME NEW r \in Validation, exits'[r] = << >>,
           step'[r] # "passed"
    PROVE  ExitsInv(r)'
<1>1. Len(exits'[r]) = 0
  OBVIOUS
<1>2. \A i \in 1..Len(exits'[r]) : FALSE
  BY <1>1
<1> QED
  BY <1>1, <1>2, OneRun DEF ExitsInv

\* A checkout leaves any workspace, which nothing has run on yet.
LEMMA ChecksOut ==
    ASSUME RepositoryTypeOK, NEW r \in Validation, ExitsInv(r), TreeInv(r), CheckOut(r),
           call' = call
    PROVE  RepositoryTypeOK' /\ ExitsInv(r)' /\ TreeInv(r)' /\ RepositoryElsewhere(r)
<1>1. PICK w \in Workspaces : workspace' = [workspace EXCEPT ![r] = w]
  BY DEF CheckOut
<1>2. w \in Workspace
  BY <1>1, WorkspacesAssumption
<1>3. /\ workspace' \in [Validation -> Workspace]
      /\ \A q \in Validation : q # r => workspace'[q] = workspace[q]
  BY <1>1, <1>2 DEF RepositoryTypeOK
<1>4. step[r] = "check out" /\ Proceeds(r, "verify") /\ UNCHANGED <<exits, trusted>>
  BY DEF CheckOut
<1>5. /\ step' \in [Validation -> Step] /\ step'[r] = "verify"
      /\ \A q \in Validation : q # r => step'[q] = step[q]
  BY <1>4, StepMoves DEF Step, Started
<1>6. exits[r] = << >>
  BY <1>4 DEF ExitsInv
<1>7. ExitsInv(r)'
  BY <1>4, <1>5, <1>6, NothingRun
<1>8. TreeInv(r)'
  BY <1>4, <1>5, <1>6 DEF TreeInv
<1>9. RepositoryTypeOK'
  BY <1>3, <1>4, <1>5 DEF RepositoryTypeOK
<1> QED
  BY <1>3, <1>4, <1>5, <1>7, <1>8, <1>9 DEF RepositoryElsewhere

\* checkout-integrity lets only the exact clean tree through.
LEMMA Verifies ==
    ASSUME RepositoryTypeOK, NEW r \in Validation, ExitsInv(r), TreeInv(r),
           VerifyWorkspace(r, NeedsTrustedRef(call[r])), call' = call
    PROVE  RepositoryTypeOK' /\ ExitsInv(r)' /\ TreeInv(r)' /\ RepositoryElsewhere(r)
<1> DEFINE s == IF Materialized(workspace[r]) THEN AfterVerification(NeedsTrustedRef(call[r]))
                                              ELSE "repair"
<1>1. step[r] = "verify" /\ Proceeds(r, s) /\ UNCHANGED <<workspace, exits, trusted>>
  BY DEF VerifyWorkspace
<1>2. /\ s \in {"check trust", "run", "repair"} /\ s \in Step
      /\ s \in {"check trust", "run"} => Materialized(workspace[r])
      /\ s = "run" => ~NeedsTrustedRef(call[r])
  BY DEF AfterVerification, Step, Started
<1> HIDE DEF s
<1>3. /\ step' \in [Validation -> Step] /\ step'[r] = s
      /\ \A q \in Validation : q # r => step'[q] = step[q]
  BY <1>1, <1>2, StepMoves
<1>4. exits[r] = << >>
  BY <1>1 DEF ExitsInv
<1>5. ExitsInv(r)'
  BY <1>1, <1>2, <1>3, <1>4, NothingRun
<1>6. TreeInv(r)'
  <2>1. step'[r] \in {"check trust", "run", "report", "passed"} => Materialized(workspace[r])'
    BY <1>1, <1>2, <1>3 DEF Materialized, ContextHolds, PathsMissing
  <2>2. NeedsTrustedRef(call[r])' = NeedsTrustedRef(call[r])
    BY DEF NeedsTrustedRef
  <2> QED
    BY <1>1, <1>2, <1>3, <1>4, <2>1, <2>2 DEF TreeInv
<1>7. RepositoryTypeOK'
  BY <1>1, <1>3 DEF RepositoryTypeOK
<1> QED
  BY <1>1, <1>3, <1>5, <1>6, <1>7 DEF RepositoryElsewhere

\* A workspace is repaired once, then it is the exact clean tree or refused.
LEMMA Repairs ==
    ASSUME RepositoryTypeOK, NEW r \in Validation, ExitsInv(r), TreeInv(r),
           RepairWorkspace(r, NeedsTrustedRef(call[r])), call' = call
    PROVE  RepositoryTypeOK' /\ ExitsInv(r)' /\ TreeInv(r)' /\ RepositoryElsewhere(r)
<1> DEFINE repaired == [workspace[r] EXCEPT !.sparse = FALSE]
           s == IF Materialized(repaired) THEN AfterVerification(NeedsTrustedRef(call[r]))
                                          ELSE "failed"
<1>1. /\ step[r] = "repair" /\ UNCHANGED <<exits, trusted>>
      /\ \/ workspace' = [workspace EXCEPT ![r] = repaired] /\ Proceeds(r, s)
         \/ Proceeds(r, "failed") /\ UNCHANGED workspace
  BY DEF RepairWorkspace
<1>2. workspace \in [Validation -> Workspace] /\ repaired \in Workspace
  BY DEF RepositoryTypeOK, Workspace
<1>3. /\ s \in {"check trust", "run", "failed"} /\ s \in Step
      /\ s \in {"check trust", "run"} => Materialized(repaired)
      /\ s = "run" => ~NeedsTrustedRef(call[r])
  BY DEF AfterVerification, Step, Started
<1>4. exits[r] = << >>
  BY <1>1 DEF ExitsInv
<1> HIDE DEF s, repaired
<1>5. NeedsTrustedRef(call[r])' = NeedsTrustedRef(call[r])
  BY DEF NeedsTrustedRef
<1>6. CASE workspace' = [workspace EXCEPT ![r] = repaired] /\ Proceeds(r, s)
  <2>1. /\ step' \in [Validation -> Step] /\ step'[r] = s
        /\ \A q \in Validation : q # r => step'[q] = step[q]
    BY <1>3, <1>6, StepMoves
  <2>2. /\ workspace' \in [Validation -> Workspace] /\ workspace'[r] = repaired
        /\ \A q \in Validation : q # r => workspace'[q] = workspace[q]
    BY <1>2, <1>6
  <2>3. ExitsInv(r)'
    BY <1>1, <1>3, <1>4, <2>1, NothingRun
  <2>4. Materialized(workspace[r])' = Materialized(repaired)
    BY <2>2 DEF Materialized, ContextHolds, PathsMissing
  <2>5. TreeInv(r)'
    BY <1>1, <1>3, <1>4, <1>5, <2>1, <2>4 DEF TreeInv
  <2>6. RepositoryTypeOK'
    BY <1>1, <2>1, <2>2 DEF RepositoryTypeOK
  <2> QED
    BY <1>1, <2>1, <2>2, <2>3, <2>5, <2>6 DEF RepositoryElsewhere
<1>7. CASE Proceeds(r, "failed") /\ UNCHANGED workspace
  <2>1. /\ step' \in [Validation -> Step] /\ step'[r] = "failed"
        /\ \A q \in Validation : q # r => step'[q] = step[q]
    BY <1>7, StepMoves DEF Step
  <2>2. ExitsInv(r)'
    BY <1>1, <1>2, <1>4, <2>1, NothingRun
  <2>3. TreeInv(r)'
    BY <1>1, <1>4, <2>1 DEF TreeInv
  <2>4. RepositoryTypeOK'
    BY <1>1, <1>7, <2>1 DEF RepositoryTypeOK
  <2> QED
    BY <1>1, <1>7, <2>1, <2>2, <2>3, <2>4 DEF RepositoryElsewhere
<1> QED
  BY <1>1, <1>6, <1>7

\* verify_trusted_candidate changes nothing of the workspace.
LEMMA ChecksTrust ==
    ASSUME RepositoryTypeOK, NEW r \in Validation, ExitsInv(r), TreeInv(r), CheckTrust(r),
           call' = call
    PROVE  RepositoryTypeOK' /\ ExitsInv(r)' /\ TreeInv(r)' /\ RepositoryElsewhere(r)
<1>1. /\ step[r] = "check trust" /\ UNCHANGED <<workspace, exits>>
      /\ \/ Proceeds(r, "run") /\ trusted' = [trusted EXCEPT ![r] = TRUE]
         \/ Proceeds(r, "failed") /\ UNCHANGED trusted
  BY DEF CheckTrust
<1>2. exits[r] = << >>
  BY <1>1 DEF ExitsInv
<1>3. Materialized(workspace[r])'
  BY <1>1 DEF TreeInv, Materialized, ContextHolds, PathsMissing
<1>4. CASE Proceeds(r, "run") /\ trusted' = [trusted EXCEPT ![r] = TRUE]
  <2>1. /\ step' \in [Validation -> Step] /\ step'[r] = "run"
        /\ \A q \in Validation : q # r => step'[q] = step[q]
    BY <1>4, StepMoves DEF Step, Started
  <2>2. /\ trusted' \in [Validation -> BOOLEAN] /\ trusted'[r]
        /\ \A q \in Validation : q # r => trusted'[q] = trusted[q]
    BY <1>4 DEF RepositoryTypeOK
  <2>3. ExitsInv(r)'
    BY <1>1, <1>2, <2>1, NothingRun
  <2>4. TreeInv(r)'
    BY <1>3, <2>2 DEF TreeInv
  <2>5. RepositoryTypeOK'
    BY <1>1, <2>1, <2>2 DEF RepositoryTypeOK
  <2> QED
    BY <1>1, <2>1, <2>2, <2>3, <2>4, <2>5 DEF RepositoryElsewhere
<1>5. CASE Proceeds(r, "failed") /\ UNCHANGED trusted
  <2>1. /\ step' \in [Validation -> Step] /\ step'[r] = "failed"
        /\ \A q \in Validation : q # r => step'[q] = step[q]
    BY <1>5, StepMoves DEF Step
  <2>2. ExitsInv(r)'
    BY <1>1, <1>2, <2>1, NothingRun
  <2>3. TreeInv(r)'
    BY <1>1, <1>2, <2>1 DEF TreeInv
  <2>4. RepositoryTypeOK'
    BY <1>1, <1>5, <2>1 DEF RepositoryTypeOK
  <2> QED
    BY <1>1, <1>5, <2>1, <2>2, <2>3, <2>4 DEF RepositoryElsewhere
<1> QED
  BY <1>1, <1>4, <1>5

\* The report of the job, or its breaking, changes nothing of the workspace.
LEMMA Reports ==
    ASSUME RepositoryTypeOK, NEW r \in Validation, ExitsInv(r), TreeInv(r),
           Report(r) \/ ValidationBreaks(r), call' = call
    PROVE  RepositoryTypeOK' /\ ExitsInv(r)' /\ TreeInv(r)' /\ RepositoryElsewhere(r)
<1>1. UNCHANGED <<workspace, exits, trusted>> /\ step[r] # "waiting"
  BY DEF Report, ValidationBreaks, Started
<1>2. \E s \in {"passed", "failed"} :
         /\ Proceeds(r, s)
         /\ s = "passed" => step[r] = "report" /\ exits[r][Len(exits[r])] = "ok"
  BY DEF Report, ValidationBreaks
<1>3. PICK s \in {"passed", "failed"} :
         /\ Proceeds(r, s)
         /\ s = "passed" => step[r] = "report" /\ exits[r][Len(exits[r])] = "ok"
  BY <1>2
<1>4. s \in Step
  BY DEF Step
<1>5. /\ step' \in [Validation -> Step] /\ step'[r] = s
      /\ \A q \in Validation : q # r => step'[q] = step[q]
  BY <1>3, <1>4, StepMoves
<1>6. ExitsInv(r)'
  <2>1. CASE s = "failed"
    BY <1>1, <1>5, <2>1, ExitsStay
  <2>2. CASE s = "passed"
    BY <1>1, <1>3, <1>5, <2>2 DEF ExitsInv
  <2> QED
    BY <2>1, <2>2
<1>7. TreeInv(r)'
  <2>1. Materialized(workspace[r])' = Materialized(workspace[r])
    BY <1>1 DEF Materialized, ContextHolds, PathsMissing
  <2>2. NeedsTrustedRef(call[r])' = NeedsTrustedRef(call[r])
    BY DEF NeedsTrustedRef
  <2> QED
    BY <1>1, <1>3, <1>5, <2>1, <2>2 DEF TreeInv
<1>8. RepositoryTypeOK'
  BY <1>1, <1>5 DEF RepositoryTypeOK
<1> QED
  BY <1>1, <1>5, <1>6, <1>7, <1>8 DEF RepositoryElsewhere

\* Every step of the repository validation keeps what holds of it.
LEMMA RepositoryStep ==
    ASSUME RepositoryTypeOK, NEW r \in Validation, ExitsInv(r), TreeInv(r),
           ValidationStep(r, NeedsTrustedRef(call[r])) \/ ValidationBreaks(r), call' = call
    PROVE  /\ RepositoryTypeOK' /\ ExitsInv(r)' /\ TreeInv(r)' /\ RepositoryElsewhere(r)
           /\ step[r] # "waiting"
<1>1. step[r] # "waiting"
  BY DEF ValidationStep, ValidationBreaks, CheckOut, VerifyWorkspace, RepairWorkspace,
         CheckTrust, RunScript, Report, Started
<1> QED
  BY <1>1, ChecksOut, Verifies, Repairs, ChecksTrust, ScriptRuns, Reports DEF ValidationStep

-----------------------------------------------------------------------------
(* The job around it, the re-run of jobs, and the start of the publication. *)

\* A step of the repository validation keeps what holds of the whole gate.
LEMMA ProceedsCorrect ==
    ASSUME GateTypes, NEW r \in Validation, GateInv(r), RepositoryValidationProceeds(r)
    PROVE  GateTypes' /\ GateInv(r)' /\ \A q \in Validation : q # r => Elsewhere(q)
<1> DEFINE n == "repository_validation"
<1>1. UNCHANGED <<call, gateAttempt, result, output, suite, attestation, authorized>>
  BY DEF RepositoryValidationProceeds, jobVars
<1>2. result[r][n] = "running" /\ ~Ended(r, n) /\ n \in GateJob
  BY DEF RepositoryValidationProceeds, Ended, JobResult, GateJob
<1>3. ValidationStep(r, NeedsTrustedRef(call[r])) \/ ValidationBreaks(r)
  BY DEF RepositoryValidationProceeds
<1>4. faults' \in [Validation -> 0..MaxFaults]
  <2>1. UNCHANGED faults \/ Fine(r, FALSE)
    BY DEF RepositoryValidationProceeds, Fine
  <2>2. CASE UNCHANGED faults
    BY <2>2 DEF GateTypes, GateTypeOK
  <2> QED
    BY <2>1, <2>2, FaultsTyped
<1>5. RepositoryTypeOK
  BY DEF GateTypes, GateTypeOK
<1>6. /\ RepositoryTypeOK' /\ ExitsInv(r)' /\ TreeInv(r)' /\ RepositoryElsewhere(r)
      /\ step[r] # "waiting"
  BY <1>1, <1>3, <1>5, RepositoryStep DEF GateInv
<1>7. GateTypes'
  <2>1. GateTypeOK'
    BY <1>1, <1>4, <1>6 DEF GateTypes, GateTypeOK
  <2> QED
    BY <1>1, <2>1 DEF GateTypes
<1> USE DEF GateInv, JobsInv
<1>8. JobOrder(r)'
  BY <1>1 DEF JobOrder, Ended, Waits, Dependents, GateJob, Child
<1>9. Waits(r, "authorize")
  BY <1>2, DependentsOf DEF JobOrder
<1>10. PreflightInv(r)'
  BY <1>1 DEF PreflightInv, PreflightAccepts, SelfHosted, TrustedMain
<1>11. ValidationInv(r)'
  BY <1>1, <1>2, <1>6 DEF ValidationInv, Waits, PreflightAccepts, SelfHosted, TrustedMain
<1>12. ScanInv(r)'
  BY <1>1 DEF ScanInv, Ended
<1>13. SummaryInv(r)'
  BY <1>1 DEF SummaryInv, RestsOnOneAttempt, Waits
<1>14. AttestInv(r)'
  BY <1>1 DEF AttestInv, SuiteResult, WorkflowResult, Waits
<1>15. AuthorizeInv(r)'
  BY <1>1, <1>9 DEF AuthorizeInv, Waits
<1>16. \A q \in Validation : q # r => Elsewhere(q)
  BY <1>1, <1>6 DEF Elsewhere, RepositoryElsewhere
<1> QED
  BY <1>6, <1>7, <1>8, <1>10, <1>11, <1>12, <1>13, <1>14, <1>15, <1>16

\* The job of the repository's validation moves, and with it only its steps.
LEMMA ValidationJobMoves ==
    ASSUME GateTypes, NEW r \in Validation, GateInv(r),
           LET n == "repository_validation" IN
           /\ ~Ended(r, n) /\ Ended(r, "preflight")
           /\ \E res \in JobResult \cup {"running"} : Ends(r, n, res),
           UNCHANGED <<call, gateAttempt, output, suite, attestation, authorized, faults>>,
           RepositoryTypeOK', RepositoryElsewhere(r), ValidationInv(r)'
    PROVE  GateTypes' /\ JobsInv(r)' /\ \A q \in Validation : q # r => Elsewhere(q)
<1> DEFINE n == "repository_validation"
<1>1. PICK res \in JobResult \cup {"running"} : Ends(r, n, res)
  OBVIOUS
<1>2. n \in GateJob /\ ~Ended(r, n)
  BY DEF GateJob
<1>3. /\ result' \in [Validation -> [GateJob -> Results]]
      /\ \A m \in GateJob : m # n => result'[r][m] = result[r][m]
      /\ \A q \in Validation : q # r => result'[q] = result[q]
  BY <1>1, <1>2, JobMoves DEF Results
<1>4. GateTypes'
  <2>1. GateTypeOK'
    BY <1>3 DEF GateTypes, GateTypeOK, Results
  <2> QED
    BY <2>1 DEF GateTypes
<1>5. JobOrder(r)' /\ \A m \in Dependents(n) : Waits(r, m) /\ Waits(r, m)'
  <2>1. \A p \in GateJob : n \in Dependents(p) => p = "preflight"
    BY DependentsOf DEF GateJob, Child
  <2> QED
    BY <1>2, <1>3, <2>1, OrderKept DEF GateInv, JobsInv
<1>6. \A m \in {"attest", "authorize"} : Waits(r, m) /\ Waits(r, m)'
  BY <1>5, DependentsOf
<1>7. /\ \A m \in {"preflight", "summary"} : result'[r][m] = result[r][m]
      /\ \A m \in SuiteJob : result'[r][m] = result[r][m]
  BY <1>3 DEF GateJob, SuiteJob, Child
<1> USE DEF GateInv, JobsInv
<1>8. PreflightInv(r)'
  BY <1>7 DEF PreflightInv, PreflightAccepts, SelfHosted, TrustedMain
<1>9. ScanInv(r)'
  BY <1>7 DEF ScanInv, Ended, SuiteJob
<1>10. SummaryInv(r)'
  BY <1>7 DEF SummaryInv, RestsOnOneAttempt, Waits
<1>11. AttestInv(r)'
  BY <1>6 DEF AttestInv, Waits
<1>12. AuthorizeInv(r)'
  BY <1>6 DEF AuthorizeInv, Waits
<1>13. \A q \in Validation : q # r => Elsewhere(q)
  BY <1>3 DEF Elsewhere, RepositoryElsewhere
<1> QED
  BY <1>4, <1>5, <1>8, <1>9, <1>10, <1>11, <1>12, <1>13

\* The start of the repository validation keeps what holds of the gate.
LEMMA StartsCorrect ==
    ASSUME GateTypes, NEW r \in Validation, GateInv(r), RepositoryValidationStarts(r)
    PROVE  GateTypes' /\ GateInv(r)' /\ \A q \in Validation : q # r => Elsewhere(q)
<1> DEFINE n == "repository_validation"
<1>1. UNCHANGED <<call, gateAttempt, output, suite, attestation, authorized, faults>>
  BY DEF RepositoryValidationStarts
<1>2. /\ ~Ended(r, n) /\ Waits(r, n) /\ Ended(r, "preflight") /\ n \in GateJob
      /\ step[r] = "waiting"
  BY DEF RepositoryValidationStarts, Ended, Waits, JobResult, GateJob, GateInv, JobsInv,
         ValidationInv
<1>3. RepositoryTypeOK
  BY DEF GateTypes, GateTypeOK
<1>4. ASSUME NEW res \in {"skipped", "failure"}, Ends(r, n, res), UNCHANGED repositoryVars
      PROVE  GateTypes' /\ GateInv(r)' /\ \A q \in Validation : q # r => Elsewhere(q)
  <2>1. RepositoryTypeOK' /\ RepositoryElsewhere(r)
    BY <1>3, <1>4 DEF RepositoryTypeOK, RepositoryElsewhere, repositoryVars
  <2>2. result'[r][n] = res
    BY <1>2, <1>4, JobMoves DEF Results, JobResult
  <2>3. ValidationInv(r)'
    BY <1>2, <1>4, <2>2 DEF ValidationInv, Waits, repositoryVars
  <2>4. GateTypes' /\ JobsInv(r)' /\ \A q \in Validation : q # r => Elsewhere(q)
    BY <1>1, <1>2, <1>4, <2>1, <2>3, ValidationJobMoves DEF JobResult
  <2>5. ExitsInv(r)' /\ TreeInv(r)'
    BY <1>1, <1>4, RepositoryKept DEF GateInv, repositoryVars
  <2> QED
    BY <2>4, <2>5 DEF GateInv
<1>5. ASSUME result[r]["preflight"] = "success", Ends(r, n, "running"), StartValidation(r)
      PROVE  GateTypes' /\ GateInv(r)' /\ \A q \in Validation : q # r => Elsewhere(q)
  <2>1. /\ step' \in [Validation -> Step] /\ step'[r] = "check out"
        /\ \A q \in Validation : q # r => step'[q] = step[q]
    BY <1>3, <1>5 DEF StartValidation, RepositoryTypeOK, Step, Started
  <2>2. << >> \in Seq(Exit)
    OBVIOUS
  <2>3. /\ exits' \in [Validation -> Seq(Exit)] /\ exits'[r] = << >>
        /\ \A q \in Validation : q # r => exits'[q] = exits[q]
    BY <1>3, <1>5, <2>2 DEF StartValidation, RepositoryTypeOK
  <2>4. /\ trusted' \in [Validation -> BOOLEAN]
        /\ \A q \in Validation : q # r => trusted'[q] = trusted[q]
    BY <1>3, <1>5 DEF StartValidation, RepositoryTypeOK
  <2>5. workspace' = workspace
    BY <1>5 DEF StartValidation
  <2>6. RepositoryTypeOK' /\ RepositoryElsewhere(r)
    BY <1>3, <2>1, <2>3, <2>4, <2>5 DEF RepositoryTypeOK, RepositoryElsewhere
  <2>7. result'[r][n] = "running"
    BY <1>2, <1>5, JobMoves DEF Results
  <2>8. PreflightAccepts(call[r], GateCommit[r])'
    BY <1>1, <1>5 DEF GateInv, JobsInv, PreflightInv, PreflightAccepts, SelfHosted, TrustedMain
  <2>9. ValidationInv(r)'
    BY <2>7, <2>8 DEF ValidationInv, Waits
  <2>10. GateTypes' /\ JobsInv(r)' /\ \A q \in Validation : q # r => Elsewhere(q)
    BY <1>1, <1>2, <1>5, <2>6, <2>9, ValidationJobMoves
  <2>11. TreeInv(r)'
    BY <2>1, <2>3 DEF TreeInv
  <2>12. \A i \in 1..Len(exits'[r]) : FALSE
    <3>1. Len(exits'[r]) = 0
      BY <2>3
    <3> QED
      BY <3>1
  <2>13. ExitsInv(r)'
    BY <2>1, <2>3, <2>12 DEF ExitsInv
  <2> QED
    BY <2>10, <2>11, <2>13 DEF GateInv
<1> QED
  BY <1>4, <1>5 DEF RepositoryValidationStarts

\* The end of the repository validation is its result in the gate.
LEMMA EndsCorrect ==
    ASSUME GateTypes, NEW r \in Validation, GateInv(r), RepositoryValidationEnds(r)
    PROVE  GateTypes' /\ GateInv(r)' /\ \A q \in Validation : q # r => Elsewhere(q)
<1> DEFINE n == "repository_validation"
           res == IF step[r] = "passed" THEN "success" ELSE "failure"
<1>1. UNCHANGED <<call, gateAttempt, output, suite, attestation, authorized, faults,
                  repositoryVars>>
  BY DEF RepositoryValidationEnds
<1>2. /\ result[r][n] = "running" /\ ~Ended(r, n) /\ ~Waits(r, n) /\ n \in GateJob
      /\ Ends(r, n, res) /\ res \in JobResult
  BY DEF RepositoryValidationEnds, Ended, Waits, JobResult, GateJob
<1>3. Ended(r, "preflight")
  <2>1. n \in Dependents("preflight") /\ "preflight" \in GateJob
    BY DependentsOf DEF GateJob
  <2> QED
    BY <1>2, <2>1, NeedsHaveEnded DEF GateInv, JobsInv
<1>4. RepositoryTypeOK' /\ RepositoryElsewhere(r)
  BY <1>1 DEF GateTypes, GateTypeOK, RepositoryTypeOK, RepositoryElsewhere, repositoryVars
<1>5. res # "queued" /\ (res = "success" => step[r] = "passed")
  OBVIOUS
<1> HIDE DEF res
<1>6. result'[r][n] = res
  BY <1>2, JobMoves DEF Results
<1>7. ValidationInv(r)'
  BY <1>1, <1>5, <1>6 DEF GateInv, JobsInv, ValidationInv, Waits, repositoryVars,
     PreflightAccepts, SelfHosted, TrustedMain
<1>8. GateTypes' /\ JobsInv(r)' /\ \A q \in Validation : q # r => Elsewhere(q)
  BY <1>1, <1>2, <1>3, <1>4, <1>7, ValidationJobMoves
<1>9. ExitsInv(r)' /\ TreeInv(r)'
  BY <1>1, RepositoryKept DEF GateInv, repositoryVars
<1> QED
  BY <1>8, <1>9 DEF GateInv

\* A job that is put back takes along all that depend on it, so what remains
\* rests on jobs that remain ("Re-run failed jobs").
LEMMA RerunGateCorrect ==
    ASSUME GateTypes, NEW r \in Validation, GateInv(r), RerunGate(r)
    PROVE  GateTypes' /\ GateInv(r)' /\ \A q \in Validation : q # r => Elsewhere(q)
<1> DEFINE Again(chosen) == chosen \cup UNION {Dependents(n) : n \in chosen}
           NewResult(again) == [n \in GateJob |-> IF n \in again THEN "queued" ELSE result[r][n]]
           NewOutput(again) == [n \in Child |-> IF n \in again THEN NoOutput ELSE output[r][n]]
<1>1. UNCHANGED <<call, authorized, faults, workspace, exits, trusted>> /\ ~authorized[r]
  BY DEF RerunGate
<1>2. \E again \in SUBSET GateJob :
         /\ \A n \in again : Dependents(n) \subseteq again
         /\ result' = [result EXCEPT ![r] = NewResult(again)]
         /\ output' = [output EXCEPT ![r] = NewOutput(again)]
         /\ suite' = [suite EXCEPT ![r] = IF "summary" \in again THEN NoSuite ELSE @]
         /\ attestation' = [attestation EXCEPT ![r] =
               IF "attest" \in again THEN NoAttestation ELSE @]
         /\ step' = [step EXCEPT ![r] =
               IF "repository_validation" \in again THEN "waiting" ELSE @]
  <2>1. PICK chosen \in {FailedJobs(r)} \cup {{n} : n \in GateJob} :
           LET again == Again(chosen) IN
           /\ result' = [result EXCEPT ![r] = NewResult(again)]
           /\ output' = [output EXCEPT ![r] = NewOutput(again)]
           /\ suite' = [suite EXCEPT ![r] = IF "summary" \in again THEN NoSuite ELSE @]
           /\ attestation' = [attestation EXCEPT ![r] =
                 IF "attest" \in again THEN NoAttestation ELSE @]
           /\ step' = [step EXCEPT ![r] =
                 IF "repository_validation" \in again THEN "waiting" ELSE @]
    BY DEF RerunGate
  <2>2. chosen \subseteq GateJob
    BY <2>1 DEF FailedJobs
  <2>3. Again(chosen) \subseteq GateJob
    BY <2>2, DependentsAreClosed
  <2>4. ASSUME NEW n \in Again(chosen)
        PROVE  Dependents(n) \subseteq Again(chosen)
    <3>1. CASE n \in chosen
      BY <3>1
    <3>2. ASSUME NEW m \in chosen, n \in Dependents(m)
          PROVE  Dependents(n) \subseteq Again(chosen)
      <4>1. Dependents(n) \subseteq Dependents(m)
        BY <2>2, <3>2, DependentsAreClosed
      <4> QED
        BY <4>1
    <3> QED
      BY <2>4, <3>1, <3>2
  <2> HIDE DEF Again, NewResult, NewOutput
  <2> QED
    BY <2>1, <2>3, <2>4
<1>3. PICK again \in SUBSET GateJob :
         /\ \A n \in again : Dependents(n) \subseteq again
         /\ result' = [result EXCEPT ![r] = NewResult(again)]
         /\ output' = [output EXCEPT ![r] = NewOutput(again)]
         /\ suite' = [suite EXCEPT ![r] = IF "summary" \in again THEN NoSuite ELSE @]
         /\ attestation' = [attestation EXCEPT ![r] =
               IF "attest" \in again THEN NoAttestation ELSE @]
         /\ step' = [step EXCEPT ![r] =
               IF "repository_validation" \in again THEN "waiting" ELSE @]
  BY <1>2
<1>4. /\ gateAttempt' = [gateAttempt EXCEPT ![r] = gateAttempt[r] + 1]
      /\ gateAttempt[r] < MaxAttempts
  BY DEF RerunGate
<1>5. gateAttempt' \in [Validation -> 1..MaxAttempts]
  <2>1. gateAttempt \in [Validation -> 1..MaxAttempts]
    BY DEF GateTypes, GateTypeOK
  <2>2. gateAttempt[r] + 1 \in 1..MaxAttempts
    BY <1>4, <2>1, GateAssumption
  <2> QED
    BY <1>4, <2>1, <2>2
<1>6. /\ result' \in [Validation -> [GateJob -> Results]]
      /\ \A n \in GateJob : result'[r][n] = IF n \in again THEN "queued" ELSE result[r][n]
      /\ \A q \in Validation : q # r => result'[q] = result[q]
  <2>1. result \in [Validation -> [GateJob -> Results]]
    BY DEF GateTypes, GateTypeOK, Results
  <2>2. NewResult(again) \in [GateJob -> Results]
    BY <2>1 DEF Results
  <2>3. \A n \in GateJob : NewResult(again)[n] = IF n \in again THEN "queued" ELSE result[r][n]
    OBVIOUS
  <2> HIDE DEF NewResult
  <2>4. result'[r] = NewResult(again)
    BY <1>3, <2>1
  <2> QED
    BY <1>3, <2>1, <2>2, <2>3, <2>4
<1>7. /\ output' = [q \in Validation |-> output'[q]]
      /\ \A q \in Validation : output'[q] = [m \in Child |-> output'[q][m]]
      /\ \A n \in Child \ again : output'[r][n] = output[r][n]
      /\ \A q \in Validation : q # r => output'[q] = output[q]
  <2>1. /\ output = [q \in Validation |-> output[q]]
        /\ \A q \in Validation : output[q] = [m \in Child |-> output[q][m]]
    BY DEF GateTypes
  <2>2. NewOutput(again) = [m \in Child |-> NewOutput(again)[m]]
    OBVIOUS
  <2>3. \A n \in Child \ again : NewOutput(again)[n] = output[r][n]
    OBVIOUS
  <2> HIDE DEF NewOutput
  <2>4. output' = [q \in Validation |-> IF q = r THEN NewOutput(again) ELSE output[q]]
    BY <1>3, <2>1
  <2>5. output'[r] = NewOutput(again) /\ \A q \in Validation : q # r => output'[q] = output[q]
    BY <2>4
  <2>6. output' = [q \in Validation |-> output'[q]]
    BY <2>4, <2>5
  <2>7. \A q \in Validation : output'[q] = [m \in Child |-> output'[q][m]]
    BY <2>1, <2>2, <2>5
  <2> QED
    BY <2>3, <2>5, <2>6, <2>7
<1> DEFINE Suites == {NoSuite} \cup [result : {"passed", "failed"}, attempt : 1..MaxAttempts]
<1>8. /\ suite' \in [Validation -> Suites]
      /\ suite'[r] = IF "summary" \in again THEN NoSuite ELSE suite[r]
      /\ \A q \in Validation : q # r => suite'[q] = suite[q]
  <2>1. suite \in [Validation -> Suites] /\ NoSuite \in Suites
    BY DEF GateTypes, GateTypeOK
  <2> HIDE DEF Suites
  <2> QED
    BY <1>3, <2>1
<1>9. /\ attestation' = [q \in Validation |-> attestation'[q]]
      /\ attestation'[r] = IF "attest" \in again THEN NoAttestation ELSE attestation[r]
      /\ \A q \in Validation : q # r => attestation'[q] = attestation[q]
  <2>1. attestation = [q \in Validation |-> attestation[q]]
    BY DEF GateTypes
  <2> QED
    BY <1>3, <2>1
<1>10. /\ step' \in [Validation -> Step]
       /\ step'[r] = IF "repository_validation" \in again THEN "waiting" ELSE step[r]
       /\ \A q \in Validation : q # r => step'[q] = step[q]
  BY <1>3 DEF GateTypes, GateTypeOK, RepositoryTypeOK, Step
<1>11. GateTypes'
  <2>1. RepositoryTypeOK'
    BY <1>1, <1>10 DEF GateTypes, GateTypeOK, RepositoryTypeOK
  <2>2. GateTypeOK'
    BY <1>1, <1>5, <1>6, <1>8, <2>1 DEF GateTypes, GateTypeOK, Results
  <2> QED
    BY <1>7, <1>9, <2>2 DEF GateTypes
<1> HIDE DEF NewResult, NewOutput, Suites
<1> USE DEF GateInv, JobsInv
<1>12. \A n \in GateJob : /\ Waits(r, n)' <=> n \in again \/ Waits(r, n)
                          /\ Ended(r, n)' <=> n \notin again /\ Ended(r, n)
  BY <1>6 DEF Waits, Ended, JobResult
<1>13. JobOrder(r)'
  <2>1. ASSUME NEW n \in GateJob, ~Ended(r, n)', NEW m \in Dependents(n)
        PROVE  Waits(r, m)'
    <3>1. m \in GateJob
      BY <2>1, DependentsAreClosed
    <3>2. CASE n \in again
      BY <1>3, <1>12, <3>1, <3>2
    <3>3. CASE n \notin again
      <4>1. Waits(r, m)
        BY <1>12, <2>1, <3>3 DEF JobOrder
      <4> QED
        BY <1>12, <3>1, <4>1
    <3> QED
      BY <3>2, <3>3
  <2> QED
    BY <2>1 DEF JobOrder, GateJob, Child, Dependents
\* A job that is not run again has none of its needs run again.
<1>14. \A n \in GateJob : n \notin again =>
          \A p \in GateJob : n \in Dependents(p) => result'[r][p] = result[r][p]
  BY <1>3, <1>6
<1>15. \A n \in GateJob : n \notin again => result'[r][n] = result[r][n]
  BY <1>6
<1>16. /\ {"preflight", "profile", "repository_validation", "summary", "attest"}
             \subseteq GateJob
       /\ Child \subseteq GateJob
       /\ "profile" \in Dependents("preflight")
       /\ \A n \in Child : n \in Dependents("profile") /\ "summary" \in Dependents(n)
       /\ "summary" \in Dependents("profile")
       /\ \A n \in SuiteJob \cup {"repository_validation", "summary"} :
             n \in GateJob /\ "attest" \in Dependents(n)
  BY DependentsOf DEF GateJob, SuiteJob, Child
<1>17. PreflightInv(r)'
  BY <1>1, <1>6, <1>16 DEF PreflightInv, PreflightAccepts, SelfHosted, TrustedMain
<1>18. ValidationInv(r)'
  BY <1>1, <1>6, <1>10, <1>12, <1>16 DEF ValidationInv, PreflightAccepts, SelfHosted, TrustedMain
<1>19. ScanInv(r)'
  <2>1. Ended(r, "profile")' /\ result'[r]["preflight"] # "success" =>
           result'[r]["profile"] = "skipped"
    BY <1>12, <1>14, <1>15, <1>16 DEF ScanInv
  <2>2. ASSUME NEW n \in Child, Ended(r, n)', result'[r]["profile"] # "success"
        PROVE  result'[r][n] = "skipped"
    BY <1>12, <1>14, <1>15, <1>16, <2>2 DEF ScanInv
  <2> QED
    BY <2>1, <2>2 DEF ScanInv
<1>20. SummaryInv(r)'
  <2>1. CASE "summary" \in again
    BY <1>6, <1>8, <1>16, <2>1 DEF SummaryInv
  <2>2. CASE "summary" \notin again
    <3>1. \A n \in SuiteJob : n \notin again
      BY <1>3, <1>16, <2>2 DEF SuiteJob
    <3>2. \A n \in SuiteJob : result'[r][n] = result[r][n]
      BY <1>15, <1>16, <3>1
    <3>3. suite'[r] = suite[r] /\ result'[r]["summary"] = result[r]["summary"]
      BY <1>8, <1>15, <1>16, <2>2
    <3>4. \A n \in Child : output'[r][n] = output[r][n]
      BY <1>7, <3>1 DEF SuiteJob
    <3>5. RequiredJobs(call[r].profile, call[r].images) \ {"profile"} \subseteq Child
      BY DEF RequiredJobs, Child
    <3>6. RestsOnOneAttempt(r) => RestsOnOneAttempt(r)'
      BY <1>1, <3>3, <3>4, <3>5 DEF RestsOnOneAttempt
    <3> QED
      BY <3>2, <3>3, <3>6 DEF SummaryInv, Waits
  <2> QED
    BY <2>1, <2>2
<1>21. AttestInv(r)'
  <2>1. CASE "attest" \in again
    BY <1>9, <2>1 DEF AttestInv
  <2>2. CASE "attest" \notin again
    <3>1. \A n \in SuiteJob \cup {"repository_validation", "summary", "attest"} :
             result'[r][n] = result[r][n]
      BY <1>14, <1>15, <1>16, <2>2
    <3>2. SuiteResult(r)' = SuiteResult(r)
      BY <3>1 DEF SuiteResult, WorkflowResult
    <3> QED
      BY <1>1, <1>9, <2>2, <3>1, <3>2 DEF AttestInv, Waits
  <2> QED
    BY <2>1, <2>2
<1>22. AuthorizeInv(r)'
  BY <1>1 DEF AuthorizeInv
<1>23. ExitsInv(r)'
  <2>1. CASE "repository_validation" \in again
    BY <1>1, <1>10, <2>1, ExitsStay
  <2>2. CASE "repository_validation" \notin again
    BY <1>1, <1>10, <2>2 DEF ExitsInv
  <2> QED
    BY <2>1, <2>2
<1>24. TreeInv(r)'
  BY <1>1, <1>10 DEF TreeInv, Materialized, ContextHolds, PathsMissing, NeedsTrustedRef
<1>25. \A q \in Validation : q # r => Elsewhere(q)
  BY <1>1, <1>6, <1>7, <1>8, <1>9, <1>10 DEF Elsewhere
<1>26. GateInv(r)'
  BY <1>13, <1>17, <1>18, <1>19, <1>20, <1>21, <1>22, <1>23, <1>24
<1> HIDE DEF GateInv, JobsInv
<1> QED
  BY <1>11, <1>25, <1>26

\* The gate is forgotten once its publication starts.
LEMMA PublishCorrect ==
    ASSUME GateTypes, NEW r \in Validation, Publish(r)
    PROVE  GateTypes' /\ GateInv(r)' /\ \A q \in Validation : q # r => Elsewhere(q)
<1> DEFINE NewResult == [n \in GateJob |-> "queued"]
           NewOutput == [n \in Child |-> NoOutput]
<1>1. /\ authorized' = [authorized EXCEPT ![r] = FALSE]
      /\ call' = [call EXCEPT ![r] = CHOOSE c \in GateCalls : TRUE]
      /\ gateAttempt' = [gateAttempt EXCEPT ![r] = 1]
      /\ result' = [result EXCEPT ![r] = NewResult]
      /\ output' = [output EXCEPT ![r] = NewOutput]
      /\ suite' = [suite EXCEPT ![r] = NoSuite]
      /\ attestation' = [attestation EXCEPT ![r] = NoAttestation]
      /\ faults' = [faults EXCEPT ![r] = 0]
      /\ step' = [step EXCEPT ![r] = "waiting"]
      /\ workspace' = [workspace EXCEPT ![r] = CHOOSE w \in Workspaces : TRUE]
      /\ exits' = [exits EXCEPT ![r] = << >>]
      /\ trusted' = [trusted EXCEPT ![r] = FALSE]
  BY DEF Publish
<1>2. /\ call \in [Validation -> GateCalls] /\ gateAttempt \in [Validation -> 1..MaxAttempts]
      /\ result \in [Validation -> [GateJob -> Results]] /\ authorized \in [Validation -> BOOLEAN]
      /\ faults \in [Validation -> 0..MaxFaults] /\ RepositoryTypeOK
  BY DEF GateTypes, GateTypeOK, Results
<1>3. /\ call' \in [Validation -> GateCalls]
      /\ \A q \in Validation : q # r => call'[q] = call[q]
  <2>1. (CHOOSE c \in GateCalls : TRUE) \in GateCalls
    BY <1>2
  <2> QED
    BY <1>1, <1>2, <2>1
<1>4. /\ gateAttempt' \in [Validation -> 1..MaxAttempts]
      /\ faults' \in [Validation -> 0..MaxFaults]
  <2>1. 1 \in 1..MaxAttempts /\ 0 \in 0..MaxFaults
    BY GateAssumption
  <2> QED
    BY <1>1, <1>2, <2>1
<1>5. /\ result' \in [Validation -> [GateJob -> Results]]
      /\ \A n \in GateJob : result'[r][n] = "queued"
      /\ \A q \in Validation : q # r => result'[q] = result[q]
  <2>1. NewResult \in [GateJob -> Results] /\ \A n \in GateJob : NewResult[n] = "queued"
    BY DEF Results
  <2> HIDE DEF NewResult
  <2> QED
    BY <1>1, <1>2, <2>1
<1>6. /\ output' = [q \in Validation |-> output'[q]]
      /\ \A q \in Validation : output'[q] = [m \in Child |-> output'[q][m]]
      /\ \A q \in Validation : q # r => output'[q] = output[q]
  <2>1. /\ output = [q \in Validation |-> output[q]]
        /\ \A q \in Validation : output[q] = [m \in Child |-> output[q][m]]
    BY DEF GateTypes
  <2>2. NewOutput = [m \in Child |-> NewOutput[m]]
    OBVIOUS
  <2> HIDE DEF NewOutput
  <2>3. output' = [q \in Validation |-> IF q = r THEN NewOutput ELSE output[q]]
    BY <1>1, <2>1
  <2>4. output'[r] = NewOutput /\ \A q \in Validation : q # r => output'[q] = output[q]
    BY <2>3
  <2>5. output' = [q \in Validation |-> output'[q]]
    BY <2>3, <2>4
  <2> QED
    BY <2>1, <2>2, <2>4, <2>5
<1> DEFINE Suites == {NoSuite} \cup [result : {"passed", "failed"}, attempt : 1..MaxAttempts]
<1>7. /\ suite' \in [Validation -> Suites] /\ suite'[r] = NoSuite
      /\ \A q \in Validation : q # r => suite'[q] = suite[q]
  <2>1. suite \in [Validation -> Suites] /\ NoSuite \in Suites
    BY DEF GateTypes, GateTypeOK
  <2> HIDE DEF Suites
  <2> QED
    BY <1>1, <2>1
<1>8. /\ attestation' = [q \in Validation |-> attestation'[q]]
      /\ attestation'[r] = NoAttestation
      /\ \A q \in Validation : q # r => attestation'[q] = attestation[q]
  <2>1. attestation = [q \in Validation |-> attestation[q]]
    BY DEF GateTypes
  <2> QED
    BY <1>1, <2>1
<1>9. /\ authorized' \in [Validation -> BOOLEAN] /\ ~authorized'[r]
      /\ \A q \in Validation : q # r => authorized'[q] = authorized[q]
  BY <1>1, <1>2
<1>10. /\ step' \in [Validation -> Step] /\ step'[r] = "waiting"
       /\ \A q \in Validation : q # r => step'[q] = step[q]
  BY <1>1, <1>2 DEF RepositoryTypeOK, Step
<1>11. /\ workspace' \in [Validation -> Workspace]
       /\ \A q \in Validation : q # r => workspace'[q] = workspace[q]
  <2>1. (CHOOSE w \in Workspaces : TRUE) \in Workspace
    BY WorkspacesAssumption
  <2> QED
    BY <1>1, <1>2, <2>1 DEF RepositoryTypeOK
<1>12. /\ exits' \in [Validation -> Seq(Exit)] /\ exits'[r] = << >>
       /\ \A q \in Validation : q # r => exits'[q] = exits[q]
  <2>1. << >> \in Seq(Exit)
    OBVIOUS
  <2> QED
    BY <1>1, <1>2, <2>1 DEF RepositoryTypeOK
<1>13. /\ trusted' \in [Validation -> BOOLEAN]
       /\ \A q \in Validation : q # r => trusted'[q] = trusted[q]
  BY <1>1, <1>2 DEF RepositoryTypeOK
<1>14. GateTypes'
  <2>1. RepositoryTypeOK'
    BY <1>10, <1>11, <1>12, <1>13 DEF RepositoryTypeOK
  <2>2. GateTypeOK'
    BY <1>3, <1>4, <1>5, <1>7, <1>9, <2>1 DEF GateTypeOK, Results
  <2> QED
    BY <1>6, <1>8, <2>2 DEF GateTypes
<1> HIDE DEF NewResult, NewOutput, Suites
<1>15. \A n \in GateJob : Waits(r, n)' /\ ~Ended(r, n)'
  BY <1>5 DEF Waits, Ended, JobResult
<1>16. JobOrder(r)'
  <2>1. ASSUME NEW n \in GateJob, NEW m \in Dependents(n)
        PROVE  Waits(r, m)'
    BY <1>15, <2>1, DependentsAreClosed
  <2> QED
    BY <2>1 DEF JobOrder, GateJob, Child, Dependents
<1>17. PreflightInv(r)' /\ ValidationInv(r)'
  BY <1>5, <1>10 DEF PreflightInv, ValidationInv, GateJob
<1>18. ScanInv(r)'
  BY <1>15 DEF ScanInv, GateJob, Child
<1>19. SummaryInv(r)'
  BY <1>5, <1>7 DEF SummaryInv, GateJob
<1>20. AttestInv(r)' /\ AuthorizeInv(r)'
  BY <1>8, <1>9 DEF AttestInv, AuthorizeInv
<1>21. ExitsInv(r)'
  BY <1>10, <1>12, NothingRun
<1>22. TreeInv(r)'
  BY <1>10 DEF TreeInv
<1>23. GateInv(r)'
  BY <1>16, <1>17, <1>18, <1>19, <1>20, <1>21, <1>22 DEF GateInv, JobsInv
<1>24. \A q \in Validation : q # r => Elsewhere(q)
  BY <1>3, <1>5, <1>6, <1>7, <1>8, <1>9, <1>10, <1>11, <1>12, <1>13 DEF Elsewhere
<1> QED
  BY <1>14, <1>23, <1>24

-----------------------------------------------------------------------------
(* The gate of every run.                                                  *)

\* At first no job of a gate has a result.
LEMMA GateStarts ==
    ReleaseInit => GInv
<1> SUFFICES ASSUME GateInit
             PROVE  GInv
  BY DEF ReleaseInit
<1> USE DEF GateInit, RepositoryInit
<1>1. << >> \in Seq(Exit) /\ "waiting" \in Step
  BY DEF Step
<1>2. (CHOOSE w \in Workspaces : TRUE) \in Workspace
  BY WorkspacesAssumption
<1>3. RepositoryTypeOK
  BY <1>1, <1>2 DEF RepositoryTypeOK
<1>4. 1 \in 1..MaxAttempts /\ 0 \in 0..MaxFaults
  BY GateAssumption
<1>5. GateTypeOK
  BY <1>3, <1>4 DEF GateTypeOK
<1>6. GateTypes
  BY <1>5 DEF GateTypes
<1>7. ASSUME NEW r \in Validation
      PROVE  GateInv(r)
  <2>1. \A n \in GateJob : Waits(r, n) /\ ~Ended(r, n)
    BY <1>7 DEF Waits, Ended, JobResult
  <2>2. JobOrder(r)
    BY <2>1, DependentsAreClosed DEF JobOrder
  <2>3. /\ step[r] = "waiting" /\ suite[r] = NoSuite /\ attestation[r] = NoAttestation
        /\ ~authorized[r]
    BY <1>7
  <2>4. \A n \in GateJob : result[r][n] = "queued"
    BY <1>7
  <2>5. PreflightInv(r) /\ ValidationInv(r) /\ ScanInv(r) /\ SummaryInv(r)
    BY <2>1, <2>3, <2>4 DEF PreflightInv, ValidationInv, ScanInv, SummaryInv, GateJob, Child
  <2>6. AttestInv(r) /\ AuthorizeInv(r) /\ TreeInv(r)
    BY <2>3 DEF AttestInv, AuthorizeInv, TreeInv
  <2>7. exits[r] = << >>
    BY <1>7
  <2>8. \A i \in 1..Len(exits[r]) : FALSE
    <3>1. Len(exits[r]) = 0
      BY <2>7
    <3> QED
      BY <3>1
  <2>9. ExitsInv(r)
    BY <2>3, <2>8 DEF ExitsInv
  <2> QED
    BY <2>2, <2>5, <2>6, <2>9 DEF GateInv, JobsInv
<1> QED
  BY <1>6, <1>7 DEF GInv

\* Every step of a gate keeps what holds of it, and leaves other runs' alone.
LEMMA GateCorrect ==
    ASSUME GateTypes, NEW r \in Validation, GateInv(r), GateStep(r)
    PROVE  GateTypes' /\ GateInv(r)' /\ \A q \in Validation : q # r => Elsewhere(q)
<1>1. CASE Preflight(r)
  BY <1>1, PreflightCorrect
<1>2. CASE RepositoryValidationStarts(r)
  BY <1>2, StartsCorrect
<1>3. CASE RepositoryValidationProceeds(r)
  BY <1>3, ProceedsCorrect
<1>4. CASE RepositoryValidationEnds(r)
  BY <1>4, EndsCorrect
<1>5. CASE ProfileJob(r)
  BY <1>5, ProfileCorrect
<1>6. CASE \E n \in Child : ScanJob(r, n)
  BY <1>6, ScanJobCorrect
<1>7. CASE Summary(r)
  BY <1>7, SummaryCorrect
<1>8. CASE Attest(r)
  BY <1>8, AttestCorrect
<1>9. CASE Authorize(r)
  BY <1>9, AuthorizeCorrect
<1>10. CASE RerunGate(r)
  BY <1>10, RerunGateCorrect
<1> QED
  BY <1>1, <1>2, <1>3, <1>4, <1>5, <1>6, <1>7, <1>8, <1>9, <1>10 DEF GateStep

\* Through every interleaving of jobs and re-runs, each job of a gate leaves
\* behind what the later ones rely on (_validation-gate.yml; _security-suite.yml;
\* scripts/repository_validation/runner.py).
THEOREM GateInvariant == ReleaseSpec => []GInv
<1>1. GInv /\ [ReleaseNext]_releaseVars => GInv'
  <2> SUFFICES ASSUME GInv, [ReleaseNext]_releaseVars
               PROVE  GInv'
    OBVIOUS
  <2>1. ASSUME NEW r \in Validation, Gate(r) \/ Publish(r)
        PROVE  GInv'
    <3>1. GateTypes /\ GateInv(r)
      BY DEF GInv
    <3>2. GateTypes' /\ GateInv(r)' /\ \A q \in Validation : q # r => Elsewhere(q)
      BY <2>1, <3>1, GateCorrect, PublishCorrect DEF Gate
    <3>3. ASSUME NEW q \in Validation, q # r
          PROVE  GateInv(q)'
      BY <3>2, <3>3, GateKept DEF GInv
    <3> QED
      BY <3>2, <3>3 DEF GInv
  <2>2. ASSUME UNCHANGED gateVars
        PROVE  GInv'
    <3> USE <2>2 DEF gateVars, jobVars, repositoryVars
    <3>1. GateTypes'
      BY DEF GInv, GateTypes, GateTypeOK, RepositoryTypeOK
    <3>2. ASSUME NEW q \in Validation
          PROVE  GateInv(q)'
      <4>1. Elsewhere(q) /\ GateInv(q)
        BY DEF Elsewhere, GInv
      <4> QED
        BY <4>1, GateKept
    <3> QED
      BY <3>1, <3>2 DEF GInv
  <2> QED
    BY <2>1, <2>2 DEF ReleaseNext, PublicationStep, releaseVars
<1> QED
  BY <1>1, GateStarts, PTL DEF ReleaseSpec

\* The variables of a release keep their types: attempts, retries and breaks
\* stay within their limits (_validation-gate.yml; retry_network.py).
THEOREM ReleaseTypeCorrect == ReleaseSpec => []ReleaseTypeOK
<1>1. TypeOK /\ GInv => ReleaseTypeOK
  BY DEF GInv, GateTypes, ReleaseTypeOK
<1> QED
  BY <1>1, GateInvariant, ReleaseIsPublication, TypeCorrect, PTL

\* The executable of a repository only runs in the candidate's own workspace,
\* clean and complete, and only a transient failure is followed by another run
\* (runner.py, repair_workspace and run_validation).
THEOREM ExactTree == ReleaseSpec => []ScriptRunsOnExactTree
<1>1. GInv => ScriptRunsOnExactTree
  <2> SUFFICES ASSUME GInv, NEW v \in Validation
               PROVE  /\ step[v] \in {"run", "report", "passed"} => Materialized(workspace[v])
                      /\ \A i \in 1..Len(exits[v]) :
                            /\ i < Len(exits[v]) => exits[v][i] = Transient
                            /\ i <= MaxRetryAttempts
    BY DEF ScriptRunsOnExactTree
  <2>1. ExitsInv(v) /\ TreeInv(v)
    BY DEF GInv, GateInv
  <2>2. step[v] \in {"run", "report", "passed"} => Materialized(workspace[v])
    BY <2>1 DEF TreeInv
  <2>3. \A i \in 1..Len(exits[v]) :
           (i < Len(exits[v]) => exits[v][i] = Transient) /\ i <= MaxRetryAttempts
    BY <2>1 DEF ExitsInv
  <2> QED
    BY <2>2, <2>3
<1> QED
  BY <1>1, GateInvariant, PTL

\* A suite that has passed rests on the evidence of one attempt, whatever jobs
\* failed and were run again (security_evidence.py, summarize_security_suite).
THEOREM OneAttempt == ReleaseSpec => []SuiteRestsOnOneAttempt
<1>1. GInv => SuiteRestsOnOneAttempt
  BY DEF GInv, GateInv, JobsInv, SummaryInv, RestsOnOneAttempt, SuiteRestsOnOneAttempt
<1> QED
  BY <1>1, GateInvariant, PTL

\* An authorized commit has passed its own validation and its suite, on the
\* required branch and by an allowed path (authorize.py, authorize).
THEOREM OnlyValidated == ReleaseSpec => []AuthorizedMeansValidated
<1>1. GInv => AuthorizedMeansValidated
  BY DEF GInv, GateInv, JobsInv, AuthorizeInv, ValidatedCommit, AuthorizedMeansValidated
<1> QED
  BY <1>1, GateInvariant, PTL

\* A persistent runner only executes the code of a trusted event on main, and of
\* a commit that was found there (_validation-gate.yml, preflight; runner.py,
\* verify_trusted_candidate).
THEOREM TrustedCode == ReleaseSpec => []PersistentRunnersRunTrustedCode
<1>1. GInv => PersistentRunnersRunTrustedCode
  <2> SUFFICES ASSUME GInv, NEW r \in Validation, call[r].runner = "persistent",
                      step[r] # "waiting", exits[r] # << >>
               PROVE  TrustedMain(call[r]) /\ (step[r] # "check out" => trusted[r])
    BY DEF PersistentRunnersRunTrustedCode
  <2>1. ValidationInv(r) /\ TreeInv(r)
    BY DEF GInv, GateInv, JobsInv
  <2>2. PreflightAccepts(call[r], GateCommit[r])
    BY <2>1 DEF ValidationInv
  <2>3. call[r].path \in {"self-hosted", "reviewed-emergency"} /\ TrustedMain(call[r])
    BY <2>2 DEF PreflightAccepts, TrustedMain
  <2>4. trusted[r]
    BY <2>1, <2>3 DEF TreeInv, NeedsTrustedRef
  <2> QED
    BY <2>3, <2>4
<1> QED
  BY <1>1, GateInvariant, PTL
=============================================================================
