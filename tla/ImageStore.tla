----------------------------- MODULE ImageStore -----------------------------
(***************************************************************************)
(* The image cache (images.py): blobs named by the digest of their bytes,  *)
(* a logical reference to one of them, and its lock.  image pull, image    *)
(* import and image rm run concurrently with each other and with creation. *)
(***************************************************************************)
EXTENDS HostCommand

CONSTANTS
    Digests,    \* contents an image file can have, each named by its digest
    Pinned,     \* the digest in the bundled catalogue
    Local,      \* the digest of the file that the user has to import
    Vouched     \* digests whose checksum the user got from their publisher

ASSUME PinnedAssumption == {Pinned, Local} \subseteq Digests
ASSUME VouchedAssumption == Vouched \subseteq Digests /\ None \notin Digests

VARIABLES
    blob,       \* of each digest, the file of that name: absent, good, bad (other bytes)
    ref,        \* the reference: None, or digest and verified
    ilock,      \* who holds the lock of the image: None or a process
    source      \* the bytes of the file that the user imports

images == <<blob, ref, ilock, source>>

(* The cache is empty, or the image was pulled before. *)
ImageInit ==
    /\ ilock = None /\ source = Local
    /\ \/ ref = None /\ blob = [d \in Digests |-> "absent"]
       \/ /\ ref = [digest |-> Pinned, verified |-> TRUE]
          /\ blob = [d \in Digests |-> IF d = Pinned THEN "good" ELSE "absent"]

-----------------------------------------------------------------------------

(* Creation reports the errors of its pull as a missing prerequisite. *)
PullError(p) == IF op[p] = "create" THEN "prerequisite" ELSE "image"

(* _locked: the lock is not waited for. *)
Lock(p, where) ==
    \/ ilock = None /\ ilock' = p /\ Proceed(p, where)
    \/ ilock # None /\ Leave(p, PullError(p)) /\ UNCHANGED ilock

Unlock == ilock' = None
Fail(p) == Leave(p, PullError(p)) /\ Unlock

BeginPull(p) == Parse(p, "pull", "pull") /\ UNCHANGED images

PullLock(p) == At(p, "pull") /\ Lock(p, "pull_cached") /\ UNCHANGED <<blob, ref, source>>

(* A blob that is there is hashed again; one with other bytes is an error. *)
PullCached(p) ==
    /\ At(p, "pull_cached") /\ UNCHANGED <<blob, ref, source>>
    /\ \/ blob[Pinned] = "absent" /\ Proceed(p, "download") /\ UNCHANGED ilock
       \/ /\ blob[Pinned] = "good" /\ Goto(p, "publish") /\ UNCHANGED ilock
          /\ Keep(p, [loc[p] EXCEPT !.digest = Pinned, !.verified = TRUE])
       \/ blob[Pinned] = "bad" /\ Fail(p)

(* What arrives may be anything; only the pinned bytes go on. *)
Download(p) ==
    /\ At(p, "download") /\ UNCHANGED <<blob, ref, source>>
    /\ \/ /\ Goto(p, "replace") /\ UNCHANGED ilock
          /\ Keep(p, [loc[p] EXCEPT !.digest = Pinned, !.verified = TRUE])
       \/ Fail(p)

(* os.replace of the temporary file, for pull and for import. *)
Replace(p) ==
    /\ At(p, "replace") /\ blob' = [blob EXCEPT ![loc[p].digest] = "good"]
    /\ Proceed(p, "publish") /\ UNCHANGED <<ref, ilock, source>>

(* _publish_ref: one atomic file.  Creation goes on with the host's health. *)
Publish(p) ==
    /\ At(p, "publish")
    /\ ref' = [digest |-> loc[p].digest, verified |-> loc[p].verified]
    /\ Unlock /\ UNCHANGED <<blob, source>>
    /\ IF op[p] = "create"
       THEN Goto(p, "doctor") /\ Keep(p, [loc[p] EXCEPT !.digest = None, !.verified = FALSE])
       ELSE Leave(p, "success")

-----------------------------------------------------------------------------

(* import_qcow2: the source is hashed, compared with the user's checksum, and
   examined with qemu-img, all before the lock is taken. *)
BeginImport(p) == Parse(p, "import", "hash") /\ UNCHANGED images

HashSource(p) ==
    /\ At(p, "hash") /\ UNCHANGED images
    /\ \/ /\ Goto(p, "import")
          /\ \E verified \in BOOLEAN :
               /\ verified => source \in Vouched
               /\ Keep(p, [loc[p] EXCEPT !.digest = source, !.verified = verified])
       \/ Leave(p, "image")

ImportLock(p) == At(p, "import") /\ Lock(p, "import_cached") /\ UNCHANGED <<blob, ref, source>>

(* A blob that is there is taken as it is. *)
ImportUnbacked(p) ==   \* mutant: the reference is published, and the blob not copied
    /\ At(p, "import_cached") /\ UNCHANGED images
    /\ Proceed(p, "publish")

ImportCached(p) ==
    /\ At(p, "import_cached") /\ UNCHANGED images
    /\ Proceed(p, IF blob[loc[p].digest] = "absent" THEN "copy_source" ELSE "publish")

(* The source may have changed since it was hashed. *)
CopySource(p) ==
    /\ At(p, "copy_source") /\ UNCHANGED <<blob, ref, source>>
    /\ \/ source = loc[p].digest /\ Proceed(p, "replace") /\ UNCHANGED ilock
       \/ source # loc[p].digest /\ Fail(p)

-----------------------------------------------------------------------------

(* image rm: only the reference goes; --force when an instance names it. *)
BeginRemoveImage(p) == Parse(p, "rm", "referenced") /\ UNCHANGED images

Referenced(p, used) ==
    /\ At(p, "referenced") /\ UNCHANGED images
    /\ \/ Proceed(p, "rm")
       \/ used /\ Leave(p, "exists")

RemoveLock(p) ==
    /\ At(p, "rm") /\ UNCHANGED <<blob, ref, source>>
    /\ \/ ref = None /\ Leave(p, "image") /\ UNCHANGED ilock
       \/ ref # None /\ Lock(p, "unlink")

Unlink(p) ==
    /\ At(p, "unlink") /\ ref' = None /\ Unlock
    /\ Leave(p, "success") /\ UNCHANGED <<blob, source>>

-----------------------------------------------------------------------------

(* resolve, by lab create before and after it looks at the host: the reference
   is read once, then the blob that it names is hashed.  The first time an
   image that is not there is pulled, the second time it is an error. *)
Unresolved(p) == IF At(p, "resolve") THEN Proceed(p, "pull") ELSE Leave(p, "operation")

ReadReference(p) ==
    /\ pc[p] \in {"resolve", "resolve_again"} /\ UNCHANGED images
    /\ IF ref = None THEN Unresolved(p)
       ELSE /\ Goto(p, IF At(p, "resolve") THEN "hash_blob" ELSE "hash_blob_again")
            /\ Keep(p, [loc[p] EXCEPT !.digest = ref.digest, !.verified = ref.verified])

(* What the first time resolves is forgotten. *)
FindBlob(p) ==
    /\ At(p, "hash_blob") /\ UNCHANGED images
    /\ Goto(p, IF blob[loc[p].digest] = "good" THEN "doctor" ELSE "pull")
    /\ Keep(p, [loc[p] EXCEPT !.digest = None, !.verified = FALSE])

TakeBlob(p) ==
    /\ At(p, "hash_blob_again") /\ UNCHANGED images
    /\ \/ /\ blob[loc[p].digest] = "good"
          /\ Goto(p, "lock") /\ \E allowed \in BOOLEAN :
               /\ loc[p].verified \/ allowed
               /\ Keep(p, [loc[p] EXCEPT !.allowed = allowed])
       \/ (blob[loc[p].digest] # "good" \/ ~loc[p].verified) /\ Leave(p, "operation")

(* image ls and image inspect take no lock: the references are listed and then
   read, so that one which is removed between the two is an error; inspect
   --verbose resolves it once more. *)
BeginShow(p) == Parse(p, "images", "list") /\ UNCHANGED images

Listed == IF ref = None THEN None ELSE ref.digest

ListReferences(p) ==
    /\ At(p, "list") /\ Goto(p, "show") /\ Keep(p, [loc[p] EXCEPT !.digest = Listed])
    /\ UNCHANGED images

ShowImages(p) ==
    /\ At(p, "show") /\ UNCHANGED images
    /\ \/ loc[p].digest # None /\ ref = None /\ Leave(p, "image")
       \/ ref # None /\ blob[ref.digest] # "good" /\ Leave(p, "image")
       \/ (loc[p].digest = None \/ ref # None) /\ \E found \in {"success", "absent"} : Leave(p, found)

(* A file of the cache loses its bytes; the user edits the source. *)
Corrupt ==
    /\ \E d \in Digests : blob[d] = "good" /\ blob' = [blob EXCEPT ![d] = "bad"]
    /\ UNCHANGED <<ref, ilock, source>>

EditSource ==
    /\ \E d \in Digests \ {source} : source' = d
    /\ UNCHANGED <<blob, ref, ilock>>

ImageStep(p) ==
    \/ PullLock(p) \/ PullCached(p) \/ Replace(p) \/ Publish(p)
    \/ HashSource(p) \/ ImportLock(p) \/ ImportCached(p) \/ CopySource(p)
    \/ RemoveLock(p) \/ Unlink(p)
    \/ ReadReference(p) \/ FindBlob(p) \/ TakeBlob(p) \/ ListReferences(p) \/ ShowImages(p)
=============================================================================
