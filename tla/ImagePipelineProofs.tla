------------------------- MODULE ImagePipelineProofs -------------------------
(***************************************************************************)
(* The image pipeline, for any number of images, webhook requests, job     *)
(* slots, failures and losses.                                             *)
(***************************************************************************)
EXTENDS ImagePipeline, TLAPS

\* The steps of Next, by the kind of what they change.
LEMMA StepCases ==
  ASSUME [Next]_vars,
         NEW P,
         \A i \in Images : Create(i) => P,
         \A i \in Images, content \in {"image", "junk"} : Upload(i, content) => P,
         \A i \in Images : Delete(i) => P,
         \A h \in Hooks, i \in Images : Webhook(h, i) => P,
         \A h \in Hooks : Enqueue(h) => P,
         \A w \in Workers, i \in Images : JobStart(w, i) => P,
         \A w \in Workers : Download(w) \/ Put(w) => P,
         \A w \in Workers : Activate(w) \/ MarkFailed(w) => P,
         Fail => P,
         UNCHANGED vars => P
  PROVE  P
  BY DEF Next, Seller, JobStep

LEMMA TypesStep == TypeOK /\ [Next]_vars => TypeOK'
<1> SUFFICES ASSUME TypeOK, [Next]_vars PROVE TypeOK'
  OBVIOUS
<1> USE UploadBounds, NoneIsNoImage
<1>1. ASSUME NEW i \in Images, Create(i) PROVE TypeOK'
  BY <1>1 DEF TypeOK, Create, ImageStatus
<1>2. ASSUME NEW i \in Images, NEW content \in {"image", "junk"}, Upload(i, content)
      PROVE  TypeOK'
  BY <1>2 DEF TypeOK, Upload
<1>3. ASSUME NEW i \in Images, Delete(i) PROVE TypeOK'
  BY <1>3 DEF TypeOK, Delete
<1>4. ASSUME NEW h \in Hooks, NEW i \in Images, Webhook(h, i) PROVE TypeOK'
  BY <1>4 DEF TypeOK, Webhook
<1>5. ASSUME NEW h \in Hooks, Enqueue(h) PROVE TypeOK'
  BY <1>5 DEF TypeOK, Enqueue
<1>6. ASSUME NEW w \in Workers, NEW i \in Images, JobStart(w, i) PROVE TypeOK'
  BY <1>6 DEF TypeOK, JobStart
<1>7. ASSUME NEW w \in Workers, Download(w) \/ Put(w) PROVE TypeOK'
  <2>1. CASE Download(w)
    BY <2>1 DEF TypeOK, Download
  <2>2. CASE Put(w)
    BY <2>2 DEF TypeOK, Put
  <2>3. QED
    BY <1>7, <2>1, <2>2
<1>8. ASSUME NEW w \in Workers, Activate(w) \/ MarkFailed(w) PROVE TypeOK'
  <2>1. CASE Activate(w)
    BY <2>1 DEF TypeOK, Activate, Finish, HasRow, NoJob, ImageStatus
  <2>2. CASE MarkFailed(w)
    BY <2>2 DEF TypeOK, MarkFailed, Finish, HasRow, NoJob, ImageStatus
  <2>3. QED
    BY <1>8, <2>1, <2>2
<1>9. ASSUME Fail PROVE TypeOK'
  <2>1. ASSUME NEW w \in Workers, StepFails(w) PROVE TypeOK'
    BY <2>1 DEF TypeOK, Failure, StepFails
  <2>2. ASSUME NEW w \in Workers, JobRetried(w) PROVE TypeOK'
    BY <2>2 DEF TypeOK, Failure, JobRetried, NoJob
  <2>3. ASSUME NEW w \in Workers, JobLost(w) PROVE TypeOK'
    BY <2>3 DEF TypeOK, JobLost, NoJob
  <2>4. ASSUME NEW h \in Hooks, WebhookFails(h) PROVE TypeOK'
    BY <2>4 DEF TypeOK, Failure, WebhookFails
  <2>5. ASSUME NEW i \in Images, EventLost(i) PROVE TypeOK'
    BY <2>5 DEF TypeOK, EventLost
  <2>6. QED
    BY <1>9, <2>1, <2>2, <2>3, <2>4, <2>5 DEF Fail
<1>10. UNCHANGED vars => TypeOK'
  BY DEF TypeOK, vars
<1>11. QED
  BY <1>1, <1>2, <1>3, <1>4, <1>5, <1>6, <1>7, <1>8, <1>9, <1>10, StepCases

\* The model is type-correct: in particular no counter of notifications, jobs
\* or uploads leaves its range, whatever fails.
THEOREM ImageTypes == Spec => []TypeOK
<1>1. Init => TypeOK
  BY UploadBounds DEF Init, TypeOK, NoJob, ImageStatus
<1>2. QED
  BY <1>1, TypesStep, PTL DEF Spec

-----------------------------------------------------------------------------
(* The row lock of the webhook.                                            *)

\* A webhook request that will queue a job is the only one that holds the row,
\* and the row is pending.
HookInv ==
    \A h \in Hooks :
      hook[h] # None =>
        /\ status[hook[h]] = "PENDING"
        /\ \A g \in Hooks : hook[g] = hook[h] => g = h

LEMMA HookStep == TypeOK /\ HookInv /\ [Next]_vars => HookInv'
<1> SUFFICES ASSUME TypeOK, HookInv, [Next]_vars PROVE HookInv'
  OBVIOUS
<1> USE NoneIsNoImage DEF TypeOK, HookInv
<1>1. ASSUME NEW i \in Images, Create(i) PROVE HookInv'
  BY <1>1 DEF Create
<1>2. ASSUME NEW i \in Images, NEW content \in {"image", "junk"}, Upload(i, content)
      PROVE  HookInv'
  BY <1>2 DEF Upload
<1>3. ASSUME NEW i \in Images, Delete(i) PROVE HookInv'
  BY <1>3 DEF Delete, Unlocked
<1>4. ASSUME NEW h \in Hooks, NEW i \in Images, Webhook(h, i) PROVE HookInv'
  BY <1>4 DEF Webhook, Found, HasRow, Unlocked, IsPending, ImageStatus
<1>5. ASSUME NEW h \in Hooks, Enqueue(h) PROVE HookInv'
  BY <1>5 DEF Enqueue
<1>6. ASSUME NEW w \in Workers, NEW i \in Images, JobStart(w, i) PROVE HookInv'
  BY <1>6 DEF JobStart
<1>7. ASSUME NEW w \in Workers, Download(w) \/ Put(w) PROVE HookInv'
  BY <1>7 DEF Download, Put
<1>8. ASSUME NEW w \in Workers, Activate(w) \/ MarkFailed(w) PROVE HookInv'
  BY <1>8 DEF Activate, MarkFailed, Finish, Unlocked
<1>9. ASSUME Fail PROVE HookInv'
  BY <1>9 DEF Fail, Failure, StepFails, JobRetried, JobLost, WebhookFails, EventLost
<1>10. UNCHANGED vars => HookInv'
  BY DEF vars
<1>11. QED
  BY <1>1, <1>2, <1>3, <1>4, <1>5, <1>6, <1>7, <1>8, <1>9, <1>10, StepCases

\* A job is queued only for a pending image, however many webhook requests and
\* jobs work on the same image.
THEOREM OnlyPendingIsEnqueued == Spec => EnqueuesOnlyPending
<1>1. Init => HookInv
  BY DEF Init, HookInv
<1>2. HookInv /\ [Next]_vars =>
        [\A h \in Hooks : Enqueue(h) => IsPending(hook[h])]_vars
  BY DEF HookInv, Enqueue, IsPending
<1>3. QED
  BY <1>1, <1>2, HookStep, ImageTypes, PTL DEF Spec, EnqueuesOnlyPending

-----------------------------------------------------------------------------
(* What the store holds, of an image that is uploaded once.                *)

\* Nothing happens to an image before its upload.
Untouched(i) ==
    /\ events[i] = 0
    /\ queue[i] = 0
    /\ \A h \in Hooks : hook[h] # i
    /\ \A w \in Workers : job[w].image # i
    /\ status[i] # "ACTIVE"

JobInv(w) ==
    LET content == object[job[w].image] IN
    job[w].pc # "idle" /\ UploadedOnce(job[w].image) =>
      /\ job[w].pc = "writing" => content \in {"image", "clean"}
      /\ job[w].pc = "activating" => content = "clean"
      /\ job[w].pc = "failing" /\ failures[job[w].image] = 0 => content = "junk"

ContentInv ==
    /\ \A i \in Images : uploads[i] = 0 => object[i] = "none"
    /\ \A i \in Images : object[i] = "none" => Untouched(i)
    /\ ActiveIsClean
    /\ \A w \in Workers : JobInv(w)

LEMMA ContentStep ==
  ASSUME TypeOK, ContentInv, [Next]_vars
  PROVE  ContentInv'
<1> USE NoneIsNoImage DEF TypeOK, ContentInv, Untouched, UploadedOnce, ActiveIsClean, JobInv
<1>1. ASSUME NEW i \in Images, Create(i) PROVE ContentInv'
  BY <1>1 DEF Create
<1>2. ASSUME NEW i \in Images, NEW content \in {"image", "junk"}, Upload(i, content)
      PROVE  ContentInv'
  BY <1>2 DEF Upload
<1>3. ASSUME NEW i \in Images, Delete(i) PROVE ContentInv'
  BY <1>3 DEF Delete
<1>4. ASSUME NEW h \in Hooks, NEW i \in Images, Webhook(h, i) PROVE ContentInv'
  BY <1>4 DEF Webhook
<1>5. ASSUME NEW h \in Hooks, Enqueue(h) PROVE ContentInv'
  BY <1>5 DEF Enqueue
<1>6. ASSUME NEW w \in Workers, NEW i \in Images, JobStart(w, i) PROVE ContentInv'
  BY <1>6 DEF JobStart
<1>7. ASSUME NEW w \in Workers, Download(w) \/ Put(w) PROVE ContentInv'
  <2>1. CASE Download(w)
    BY <2>1 DEF Download, Readable
  <2>2. CASE Put(w)
    BY <2>2 DEF Put, Readable
  <2>3. QED
    BY <1>7, <2>1, <2>2
<1>8. ASSUME NEW w \in Workers, Activate(w) \/ MarkFailed(w) PROVE ContentInv'
  <2>1. CASE Activate(w)
    BY <2>1 DEF Activate, Finish, NoJob
  <2>2. CASE MarkFailed(w)
    BY <2>2 DEF MarkFailed, Finish, NoJob
  <2>3. QED
    BY <1>8, <2>1, <2>2
<1>9. ASSUME Fail PROVE ContentInv'
  <2>1. ASSUME NEW w \in Workers, StepFails(w) PROVE ContentInv'
    BY <2>1, UploadBounds DEF StepFails, Failure
  <2>2. ASSUME NEW w \in Workers, JobRetried(w) PROVE ContentInv'
    BY <2>2, UploadBounds DEF JobRetried, Failure, NoJob
  <2>3. ASSUME NEW w \in Workers, JobLost(w) PROVE ContentInv'
    BY <2>3 DEF JobLost, NoJob
  <2>4. ASSUME NEW h \in Hooks, WebhookFails(h) PROVE ContentInv'
    BY <2>4, UploadBounds DEF WebhookFails, Failure
  <2>5. ASSUME NEW i \in Images, EventLost(i) PROVE ContentInv'
    BY <2>5 DEF EventLost
  <2>6. QED
    BY <1>9, <2>1, <2>2, <2>3, <2>4, <2>5 DEF Fail
<1>10. UNCHANGED vars => ContentInv'
  BY DEF vars
<1>11. QED
  BY <1>1, <1>2, <1>3, <1>4, <1>5, <1>6, <1>7, <1>8, <1>9, <1>10, StepCases

THEOREM ContentInvariance == Spec => []ContentInv
<1>1. Init => ContentInv
  BY NoneIsNoImage
     DEF Init, ContentInv, Untouched, ActiveIsClean, JobInv, NoJob
<1>2. TypeOK /\ ContentInv /\ [Next]_vars => ContentInv'
  BY ContentStep
<1>3. QED
  BY <1>1, <1>2, ImageTypes, PTL DEF Spec

\* What the storefront shows has been re-encoded by a job, unless another upload
\* to the same URL has replaced it.
THEOREM ActiveImagesAreClean == Spec => []ActiveIsClean
<1>1. ContentInv => ActiveIsClean
  BY DEF ContentInv
<1>2. QED
  BY <1>1, ContentInvariance, PTL

\* Without a failure of one of its own steps, and without a second upload, no
\* job takes an active image back to FAILED.
THEOREM FailuresUndo == Spec => OnlyFailuresUndo
<1>1. TypeOK /\ ContentInv /\ [Next]_vars =>
        [\A i \in Images :
           UploadedOnce(i) /\ status[i] = "ACTIVE" /\ status'[i] = "FAILED" => failures[i] > 0]_vars
  <2> SUFFICES ASSUME TypeOK, ContentInv, [Next]_vars,
                      NEW i \in Images, UploadedOnce(i),
                      status[i] = "ACTIVE", status'[i] = "FAILED"
               PROVE  failures[i] > 0
    OBVIOUS
  <2>1. PICK w \in Workers : MarkFailed(w) /\ job[w].image = i
    BY DEF Next, vars, Seller, JobStep, Fail, TypeOK, Create, Upload, Delete,
           Webhook, Enqueue, JobStart, Download, Put, Activate, MarkFailed, Finish,
           Failure, StepFails, JobRetried, JobLost, WebhookFails, EventLost
  <2>2. failures[i] # 0
    BY <2>1 DEF ContentInv, ActiveIsClean, JobInv, MarkFailed, Finish
  <2>3. QED
    BY <2>2, UploadBounds DEF TypeOK
<1>2. QED
  BY <1>1, ContentInvariance, ImageTypes, PTL DEF Spec, OnlyFailuresUndo
=============================================================================
