------------------------- MODULE UploadRefinement -------------------------
(***************************************************************************)
(* UploadPipeline implements StoreAndForward: an item is a sequence number *)
(* with its content, a queue is read off the folder and the target's mark, *)
(* and what was stored off the bucket.                                     *)
(***************************************************************************)
EXTENDS UploadPipeline

\* An intact segment on disk that target t does not hold.
QueueOf(t) ==
    {<<s, seg[s]>> : s \in {x \in Waiting(t) : seg[x] = meta[x]}}
StoredBy(t) ==
    {<<s, bucket[t][s]>> : s \in {x \in Seqs : bucket[t][x] # NoFile}}
GivenUp     == kept \cap (evicted \cup spoiled)

Primary == INSTANCE StoreAndForward WITH
    Items <- Seqs \X Contents, accepted <- kept, lost <- GivenUp,
    failures <- crashes, queue <- QueueOf(0), stored <- StoredBy(0)

\* The second bucket, or the primary again when nothing is owed to a second.
Mirror == highest(Owed)
Second == INSTANCE StoreAndForward WITH
    Items <- Seqs \X Contents, accepted <- kept, lost <- GivenUp,
    failures <- crashes, queue <- QueueOf(Mirror), stored <- StoredBy(Mirror)

\* The store-and-forward promise (spool_queue.h): in every step of the encode
\* thread, the upload threads, the publisher, a crash or a resume, a segment
\* leaves the queue of a bucket only once that bucket has it or it was declared
\* lost, and a bucket gets only what was queued for it.
KeepsThePromise == Primary!Spec /\ Second!Spec
=============================================================================
