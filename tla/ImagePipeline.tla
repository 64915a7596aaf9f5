---------------------------- MODULE ImagePipeline ----------------------------
(***************************************************************************)
(* A product image, from the upload URL to the storefront: the client      *)
(* uploads straight to the object store, the store notifies the API, the   *)
(* API queues a job, and the job reads the object, writes a re-encoded one *)
(* over it and sets the row's status.  Notifications and jobs are          *)
(* delivered at least once, and the job's own write is notified like an    *)
(* upload.                                                                 *)
(*                                                                         *)
(* The job sets the status with a SELECT without lock, an UPDATE and a     *)
(* commit.  Two such updates of one row have the outcome of one after the  *)
(* other, so each is one step.                                             *)
(***************************************************************************)
EXTENDS Naturals

CONSTANTS
    Images,      \* image ids (uuid4); the object key is derived from the id
    Hooks,       \* concurrent webhook requests
    Workers,     \* job slots of the ARQ workers
    MaxUploads,  \* bound on the uploads to one URL
    MaxFailures, \* bound on failed steps and repeated deliveries of an image
    MaxLost,     \* bound on notifications and jobs that are lost for good
    HasPool,     \* the webhook handler is given a connection to the job queue
    None

ASSUME UploadBounds ==
    MaxUploads \in Nat /\ MaxFailures \in Nat /\ MaxLost \in Nat
ASSUME PoolIsBoolean == HasPool \in BOOLEAN
ASSUME NoneIsNoImage == None \notin Images

VARIABLES
    status,      \* product_images.status
    name,        \* the file name at the end of product_images.file_path
    object,      \* what the store holds under the image's key
    uploads,     \* number of uploads so far
    events,      \* ObjectCreated notifications to deliver
    hook,        \* the pending image a webhook request has locked, or None
    queue,       \* queued jobs
    job,         \* the job running in each slot
    failures,    \* number of failures of each image so far
    lost         \* number of losses so far

vars == <<status, name, object, uploads, events, hook, queue, job, failures, lost>>

ImageStatus == {"PENDING", "ACTIVE", "FAILED"}

\* File names by what happens to them in a notification.
Names == {"plain", "special", "spaced"}
NoJob == [pc |-> "idle", image |-> None]

TypeOK ==
    /\ status \in [Images -> ImageStatus \cup {"ABSENT", "DELETED"}]
    /\ name \in [Images -> Names \cup {None}]
    /\ \A i \in Images : status[i] \in ImageStatus => name[i] \in Names
    /\ object \in [Images -> {"none", "image", "junk", "clean"}]
    /\ uploads \in [Images -> 0 .. MaxUploads]
    /\ events \in [Images -> Nat]
    /\ hook \in [Hooks -> Images \cup {None}]
    /\ queue \in [Images -> Nat]
    /\ job \in [Workers -> [pc : {"idle", "reading", "writing", "activating", "failing"},
                            image : Images \cup {None}]]
    /\ \A w \in Workers : job[w].pc # "idle" => job[w].image \in Images
    /\ failures \in [Images -> 0 .. MaxFailures]
    /\ lost \in 0 .. MaxLost

Init ==
    /\ status = [i \in Images |-> "ABSENT"]
    /\ name = [i \in Images |-> None]
    /\ object = [i \in Images |-> "none"]
    /\ uploads = [i \in Images |-> 0]
    /\ events = [i \in Images |-> 0]
    /\ hook = [h \in Hooks |-> None]
    /\ queue = [i \in Images |-> 0]
    /\ job = [w \in Workers |-> NoJob]
    /\ failures = [i \in Images |-> 0]
    /\ lost = 0

-----------------------------------------------------------------------------
(* The seller.                                                             *)

\* Mutant: the row starts in a status that no step knows.
CreateInactive(i) ==
    /\ status[i] = "ABSENT"
    /\ status' = [status EXCEPT ![i] = "INACTIVE"]
    /\ \E f \in Names : name' = [name EXCEPT ![i] = f]
    /\ UNCHANGED <<object, uploads, events, hook, queue, job, failures, lost>>

\* generate_upload_url: the row first, then the URL.  The client chooses the
\* file name, which ends the object's key.
Create(i) ==
    /\ status[i] = "ABSENT"
    /\ status' = [status EXCEPT ![i] = "PENDING"]
    /\ \E f \in Names : name' = [name EXCEPT ![i] = f]
    /\ UNCHANGED <<object, uploads, events, hook, queue, job, failures, lost>>

\* A POST to the presigned URL, which knows nothing of the row.
Upload(i, content) ==
    /\ status[i] # "ABSENT"
    /\ uploads[i] < MaxUploads
    /\ uploads' = [uploads EXCEPT ![i] = @ + 1]
    /\ object' = [object EXCEPT ![i] = content]
    /\ events' = [events EXCEPT ![i] = @ + 1]
    /\ UNCHANGED <<status, name, hook, queue, job, failures, lost>>

\* Mutant: the webhook reads the row without FOR UPDATE.
NeverLocked(i) == TRUE

\* No webhook request holds the row of i.
Unlocked(i) == \A h \in Hooks : hook[h] # i

\* The product is deleted, and its images with it.
Delete(i) ==
    /\ status[i] \in ImageStatus
    /\ Unlocked(i)
    /\ status' = [status EXCEPT ![i] = "DELETED"]
    /\ UNCHANGED <<name, object, uploads, events, hook, queue, job, failures, lost>>

-----------------------------------------------------------------------------
(* handle_minio_webhook.                                                   *)

\* The row exists.  (Mutant of IsPending: the status is not checked.)
HasRow(i) == status[i] \in ImageStatus

IsPending(i) == status[i] = "PENDING"

\* The store writes the key into a notification as a query component: special
\* characters as %XX, a space as +.
Escaped == [plain |-> "plain", special |-> "%XX", spaced |-> "+"]

\* unquote decodes %XX and leaves + alone.
Unquoted(key) == IF key = "%XX" THEN "special" ELSE key

\* The SELECT by file_path returns the row of i.
Found(i) == HasRow(i) /\ Unquoted(Escaped[name[i]]) = name[i]

\* The notification is consumed: the row, if it is found, is locked, and kept
\* locked if it is pending and there is a queue for its job.  Otherwise the
\* request ends here, and nothing will be queued for this notification.
Webhook(h, i) ==
    /\ hook[h] = None
    /\ events[i] > 0
    /\ Found(i) => Unlocked(i)
    /\ events' = [events EXCEPT ![i] = @ - 1]
    /\ hook' = IF Found(i) /\ IsPending(i) /\ HasPool THEN [hook EXCEPT ![h] = i] ELSE hook
    /\ UNCHANGED <<status, name, object, uploads, queue, job, failures, lost>>

Enqueue(h) ==
    /\ hook[h] # None
    /\ queue' = [queue EXCEPT ![hook[h]] = @ + 1]
    /\ hook' = [hook EXCEPT ![h] = None]
    /\ UNCHANGED <<status, name, object, uploads, events, job, failures, lost>>

-----------------------------------------------------------------------------
(* sanitize_and_activate_image_task.                                       *)

JobStart(w, i) ==
    /\ job[w].pc = "idle"
    /\ queue[i] > 0
    /\ queue' = [queue EXCEPT ![i] = @ - 1]
    /\ job' = [job EXCEPT ![w] = [pc |-> "reading", image |-> i]]
    /\ UNCHANGED <<status, name, object, uploads, events, hook, failures, lost>>

\* Mutant: a re-encoded image is not recognised as an image.
UploadedImages == {"image"}

\* What Pillow can open, and the job re-encode.
Readable == {"image", "clean"}

Download(w) ==
    /\ job[w].pc = "reading"
    /\ job' = [job EXCEPT ![w].pc =
                 IF object[job[w].image] \in Readable THEN "writing" ELSE "failing"]
    /\ UNCHANGED <<status, name, object, uploads, events, hook, queue, failures, lost>>

Put(w) ==
    /\ job[w].pc = "writing"
    /\ object' = [object EXCEPT ![job[w].image] = "clean"]
    /\ events' = [events EXCEPT ![job[w].image] = @ + 1]
    /\ job' = [job EXCEPT ![w].pc = "activating"]
    /\ UNCHANGED <<status, name, uploads, hook, queue, failures, lost>>

\* The last step: the status is set if the row is still there.
Finish(w, pc, outcome) ==
    LET i == job[w].image IN
    /\ job[w].pc = pc
    /\ Unlocked(i)
    /\ status' = IF HasRow(i) THEN [status EXCEPT ![i] = outcome] ELSE status
    /\ job' = [job EXCEPT ![w] = NoJob]
    /\ UNCHANGED <<name, object, uploads, events, hook, queue, failures, lost>>

\* Mutant: the image is activated before the object is written.
ActivateEarly(w) == Finish(w, "writing", "ACTIVE")

Activate(w) == Finish(w, "activating", "ACTIVE")

\* Mutant: the error is logged and the row left as it is.
LogOnly(w) ==
    /\ job[w].pc = "failing"
    /\ job' = [job EXCEPT ![w] = NoJob]
    /\ UNCHANGED <<status, name, object, uploads, events, hook, queue, failures, lost>>

\* except Exception
MarkFailed(w) == Finish(w, "failing", "FAILED")

-----------------------------------------------------------------------------
(* Failures.                                                               *)

\* One more failure of a step for i, up to the bound.
Failure(i) ==
    /\ failures[i] < MaxFailures
    /\ failures' = [failures EXCEPT ![i] = @ + 1]

\* The store or the database refuses a step of the job.
StepFails(w) ==
    /\ job[w].pc \in {"reading", "writing", "activating"}
    /\ Failure(job[w].image)
    /\ job' = [job EXCEPT ![w].pc = "failing"]
    /\ UNCHANGED <<status, name, object, uploads, events, hook, queue, lost>>

\* The worker dies; ARQ runs the job again.
JobRetried(w) ==
    /\ job[w].pc # "idle"
    /\ Failure(job[w].image)
    /\ queue' = [queue EXCEPT ![job[w].image] = @ + 1]
    /\ job' = [job EXCEPT ![w] = NoJob]
    /\ UNCHANGED <<status, name, object, uploads, events, hook, lost>>

\* The webhook request dies before its commit, before or after it has queued
\* the job, or its answer is lost: the store delivers the notification again.
WebhookFails(h) ==
    /\ hook[h] # None
    /\ Failure(hook[h])
    /\ hook' = [hook EXCEPT ![h] = None]
    /\ events' = [events EXCEPT ![hook[h]] = @ + 1]
    /\ queue' \in {queue, [queue EXCEPT ![hook[h]] = @ + 1]}
    /\ UNCHANGED <<status, name, object, uploads, job, lost>>

\* ARQ's job timeout cancels the task (no Exception), and the job is not run
\* again.
JobLost(w) ==
    /\ lost < MaxLost
    /\ lost' = lost + 1
    /\ job[w].pc # "idle"
    /\ job' = [job EXCEPT ![w] = NoJob]
    /\ UNCHANGED <<status, name, object, uploads, events, hook, queue, failures>>

EventLost(i) ==
    /\ lost < MaxLost
    /\ lost' = lost + 1
    /\ events[i] > 0
    /\ events' = [events EXCEPT ![i] = @ - 1]
    /\ UNCHANGED <<status, name, object, uploads, hook, queue, job, failures>>

-----------------------------------------------------------------------------
JobStep(w) == Download(w) \/ Put(w) \/ Activate(w) \/ MarkFailed(w)

Seller(i) == Create(i) \/ Upload(i, "image") \/ Upload(i, "junk") \/ Delete(i)

Fail ==
    \/ \E w \in Workers : StepFails(w) \/ JobRetried(w) \/ JobLost(w)
    \/ \E h \in Hooks : WebhookFails(h)
    \/ \E i \in Images : EventLost(i)

Next ==
    \/ \E i \in Images : Seller(i)
    \/ \E h \in Hooks : Enqueue(h) \/ \E i \in Images : Webhook(h, i)
    \/ \E w \in Workers : JobStep(w) \/ \E i \in Images : JobStart(w, i)
    \/ Fail

Spec == Init /\ [][Next]_vars

\* The store delivers its notifications, a webhook request runs to its end, the
\* workers take queued jobs, and a job runs to its end.  Nobody has to upload.
Fairness ==
    /\ \A i \in Images :
         /\ WF_vars(\E h \in Hooks : Webhook(h, i))
         /\ WF_vars(\E w \in Workers : JobStart(w, i))
    /\ \A h \in Hooks : WF_vars(Enqueue(h))
    /\ \A w \in Workers : WF_vars(JobStep(w))

FairSpec == Spec /\ Fairness

-----------------------------------------------------------------------------
(* Properties.                                                             *)

\* Nothing was uploaded to the image's URL after the first upload.
UploadedOnce(i) == uploads[i] <= 1

\* An image the storefront shows is one that a job has re-encoded, through
\* repeated notifications, retried jobs and jobs that run at the same time.
\* A second upload to the same URL replaces it.
ActiveIsClean ==
    \A i \in Images : UploadedOnce(i) /\ status[i] = "ACTIVE" => object[i] = "clean"

\* A job is queued only for an image that is still pending: the row lock keeps
\* a job from setting the status between the webhook's check and its enqueue.
EnqueuesOnlyPending ==
    [][\A h \in Hooks : Enqueue(h) => IsPending(hook[h])]_vars

\* Only a failure of one of its own steps takes an active image back to FAILED:
\* the second job that the first job's own write causes does no harm by itself.
OnlyFailuresUndo ==
    [][\A i \in Images :
         UploadedOnce(i) /\ status[i] = "ACTIVE" /\ status'[i] = "FAILED" => failures[i] > 0]_vars

\* An image that was processed successfully stays processed.
ProcessedStaysProcessed ==
    [][\A i \in Images : status[i] = "ACTIVE" => status'[i] # "FAILED"]_vars

\* An uploaded image gets its status, whatever steps fail and are repeated, if
\* the handler has a queue to use and no notification and no job is lost.  The
\* file name may have special characters, but no space.
UploadIsProcessed ==
    \A i \in Images :
      (HasPool /\ uploads[i] > 0 /\ status[i] = "PENDING" /\ name[i] # "spaced")
        ~> (status[i] # "PENDING" \/ lost > 0)

Quiet ==
    /\ \A i \in Images : events[i] = 0 /\ queue[i] = 0
    /\ \A w \in Workers : job[w].pc = "idle"

\* The loop from a job's write through its notification to another job ends:
\* after the last upload the pipeline becomes and stays quiet.
FeedbackEnds == <>[]Quiet
=============================================================================
