------------------------------- MODULE OciPush -------------------------------
(***************************************************************************)
(* scripts/container_release/push_oci_layout.py: push an exported image,   *)
(* one HTTP request at a time, into a repository of a registry, with a     *)
(* bounded number of credential refreshes for the whole push.              *)
(*                                                                         *)
(* An image is an index of child manifests, each with blobs, as buildx     *)
(* exports it; a digest stands for the content it names.  The registry is  *)
(* external: it may answer any request with 401, with an error, or not at  *)
(* all, before or after doing what was asked.  Several pushes into one     *)
(* repository interleave.                                                  *)
(***************************************************************************)
EXTENDS Naturals, Sequences, FiniteSets

CONSTANTS
    Service,        \* an image repository each
    Job,            \* matrix jobs, each of which pushes one image
    ServiceOf,      \* [Job -> Service]
    Digest,         \* digests of images
    Blobs,          \* [Digest -> the blobs of its manifests, in order]
    Children,       \* [Digest -> its child manifests, in order]
    Tag,            \* tags of a repository
    NoDigest,       \* not a digest: no image, no such tag
    NoTag,
    MaxAuthRetries  \* --max-auth-retries

Members(seq) == {seq[i] : i \in 1..Len(seq)}
Blob == UNION {Members(Blobs[d]) : d \in Digest}
Manifest == Digest \cup UNION {Members(Children[d]) : d \in Digest}

ASSUME ImagesAssumption ==
    /\ ServiceOf \in [Job -> Service]
    /\ MaxAuthRetries \in Nat
    /\ NoDigest \notin Digest

\* The order in which _load_graph lists an image: all blobs, each child after
\* its own children.
ASSUME LayoutAssumption ==
    \A d \in Digest :
        /\ Blobs[d] \in Seq(Blob) /\ Blobs[d] # << >>
        /\ Children[d] \in Seq(Manifest)
        /\ \A i \in 1..Len(Children[d]) : LET e == Children[d][i] IN
              e \in Digest =>
                 /\ Members(Blobs[e]) \subseteq Members(Blobs[d])
                 /\ Members(Children[e]) \subseteq {Children[d][k] : k \in 1..(i - 1)}

VARIABLES
    (* the registry, by repository *)
    blobs, manifests, tags,
    (* each push: the request it is about to send, for which blob or child *)
    request, at, refreshes,
    (* what it pushes, and as what *)
    image, tag

registry == <<blobs, manifests, tags>>
client == <<request, at, refreshes>>
pushVars == <<registry, client, image, tag>>

Sending == {"HEAD_blob", "POST_upload", "PUT_upload", "PUT_child", "PUT_tag", "HEAD_tag"}
Request == Sending \cup {"none", "load", "pushed", "failed"}

Repository(j) == ServiceOf[j]
Goes(j, r) == request' = [request EXCEPT ![j] = r]

PushInit ==
    /\ blobs = [s \in Service |-> {}]
    /\ manifests = [s \in Service |-> {}]
    /\ tags = [s \in Service |-> [t \in Tag |-> NoDigest]]
    /\ request = [j \in Job |-> "none"]
    /\ at = [j \in Job |-> 0]
    /\ refreshes = [j \in Job |-> 0]
    /\ image = [j \in Job |-> NoDigest]
    /\ tag = [j \in Job |-> NoTag]

\* What follows the last request about the i-th blob or child.
AfterBlob(j) ==
    IF at[j] < Len(Blobs[image[j]])
       THEN Goes(j, "HEAD_blob") /\ at' = [at EXCEPT ![j] = @ + 1]
       ELSE /\ Goes(j, IF Children[image[j]] = << >> THEN "PUT_tag" ELSE "PUT_child")
            /\ at' = [at EXCEPT ![j] = 1]

AfterChild(j) ==
    IF at[j] < Len(Children[image[j]])
       THEN at' = [at EXCEPT ![j] = @ + 1] /\ UNCHANGED request
       ELSE Goes(j, "PUT_tag") /\ UNCHANGED at

\* _load_graph and the first authentication.  The layout is read whole before
\* anything is sent; it may be refused.
LoadLayout(j) ==
    /\ request[j] = "load"
    /\ \/ Goes(j, "HEAD_blob") /\ at' = [at EXCEPT ![j] = 1]
       \/ Goes(j, "failed") /\ UNCHANGED at
    /\ UNCHANGED <<registry, refreshes, image, tag>>

-----------------------------------------------------------------------------
(* Requests the registry serves.                                           *)

ThisBlob(j) == Blobs[image[j]][at[j]]

\* Mutation: a blob that is in any repository of the registry is not uploaded.
HeadBlob_AnyRepository(j) ==
    /\ request[j] = "HEAD_blob"
    /\ IF \E s \in Service : ThisBlob(j) \in blobs[s]
          THEN AfterBlob(j)
          ELSE Goes(j, "POST_upload") /\ UNCHANGED at
    /\ UNCHANGED <<registry, refreshes, image, tag>>

HeadBlob(j) ==
    /\ request[j] = "HEAD_blob"
    /\ IF ThisBlob(j) \in blobs[Repository(j)]
          THEN AfterBlob(j)
          ELSE Goes(j, "POST_upload") /\ UNCHANGED at
    /\ UNCHANGED <<registry, refreshes, image, tag>>

PostUpload(j) ==
    /\ request[j] = "POST_upload"
    /\ Goes(j, "PUT_upload")
    /\ UNCHANGED <<registry, at, refreshes, image, tag>>

StoreBlob(j) == blobs' = [blobs EXCEPT ![Repository(j)] = @ \cup {ThisBlob(j)}]

PutUpload(j) ==
    /\ request[j] = "PUT_upload"
    /\ StoreBlob(j)
    /\ AfterBlob(j)
    /\ UNCHANGED <<manifests, tags, refreshes, image, tag>>

StoreChild(j) ==
    manifests' = [manifests EXCEPT ![Repository(j)] = @ \cup {Children[image[j]][at[j]]}]

PutChild(j) ==
    /\ request[j] = "PUT_child"
    /\ StoreChild(j)
    /\ AfterChild(j)
    /\ UNCHANGED <<blobs, tags, refreshes, image, tag>>

StoreTag(j) ==
    /\ manifests' = [manifests EXCEPT ![Repository(j)] = @ \cup {image[j]}]
    /\ tags' = [tags EXCEPT ![Repository(j)][tag[j]] = image[j]]

PutTag(j) ==
    /\ request[j] = "PUT_tag"
    /\ StoreTag(j)
    /\ Goes(j, "HEAD_tag")
    /\ UNCHANGED <<blobs, at, refreshes, image, tag>>

VerifyTag(j) ==
    /\ request[j] = "HEAD_tag"
    /\ Goes(j, IF tags[Repository(j)][tag[j]] = image[j] THEN "pushed" ELSE "failed")
    /\ UNCHANGED <<registry, at, refreshes, image, tag>>

-----------------------------------------------------------------------------
(* Requests it does not serve.                                             *)

\* Mutation: every request that needs fresh credentials gets its own budget.
Unauthorized_BudgetPerRequest(j) ==
    /\ request[j] \in Sending
    /\ Goes(j, IF request[j] = "PUT_upload" THEN "POST_upload" ELSE request[j])
    /\ UNCHANGED <<registry, at, refreshes, image, tag>>

\* 401 within the budget of the push: fresh credentials, then the same request
\* again; but an upload starts over with a session of its own.
Unauthorized(j) ==
    /\ request[j] \in Sending
    /\ refreshes[j] < MaxAuthRetries
    /\ refreshes' = [refreshes EXCEPT ![j] = @ + 1]
    /\ Goes(j, IF request[j] = "PUT_upload" THEN "POST_upload" ELSE request[j])
    /\ UNCHANGED <<registry, at, image, tag>>

\* 401 beyond the budget, no fresh credentials, another status, or no answer:
\* the registry may have done what was asked, but the push has failed.
RequestFails(j) ==
    /\ request[j] \in Sending
    /\ \/ UNCHANGED registry
       \/ request[j] = "PUT_upload" /\ StoreBlob(j) /\ UNCHANGED <<manifests, tags>>
       \/ request[j] = "PUT_child" /\ StoreChild(j) /\ UNCHANGED <<blobs, tags>>
       \/ request[j] = "PUT_tag" /\ StoreTag(j) /\ UNCHANGED blobs
    /\ Goes(j, "failed")
    /\ UNCHANGED <<at, refreshes, image, tag>>

PushStep(j) ==
    \/ LoadLayout(j) \/ HeadBlob(j) \/ PostUpload(j) \/ PutUpload(j) \/ PutChild(j)
    \/ PutTag(j) \/ VerifyTag(j) \/ Unauthorized(j) \/ RequestFails(j)

-----------------------------------------------------------------------------
PushTypeOK ==
    /\ blobs \in [Service -> SUBSET Blob]
    /\ manifests \in [Service -> SUBSET Manifest]
    /\ tags \in [Service -> [Tag -> Digest \cup {NoDigest}]]
    /\ request \in [Job -> Request]
    /\ at \in [Job -> Nat]
    /\ refreshes \in [Job -> 0..MaxAuthRetries]
    /\ image \in [Job -> Digest \cup {NoDigest}]
    /\ tag \in [Job -> Tag \cup {NoTag}]

\* Everything the image of digest d refers to is in repository s.
Whole(s, d) ==
    /\ d \in manifests[s]
    /\ Members(Children[d]) \subseteq manifests[s]
    /\ Members(Blobs[d]) \subseteq blobs[s]

\* A tag never names an image that cannot be pulled: however pushes, inline
\* builds and promotions of one repository interleave, fail or are cut off,
\* all an image refers to is in the repository before a tag names it
\* (push_oci_layout.py: blobs, children, then the tag).
TagsAreWhole ==
    \A s \in Service, t \in Tag :
        tags[s][t] # NoDigest => Whole(s, tags[s][t])
=============================================================================
