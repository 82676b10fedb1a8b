--------------------------- MODULE StreamIngestor ---------------------------
(***************************************************************************)
(* StreamIngestor (streaming.rs): cloned senders feed a bounded channel, a *)
(* spawned task stores one chunk after the other in a MemoryEngine and     *)
(* keeps a report, and the owner ends it by shutdown_now (cancel) or by    *)
(* finish (drop the own sender, wait for the channel to close).            *)
(*                                                                         *)
(* The channel is tokio's mpsc as the code uses it: a permit per free      *)
(* slot, permits handed to waiting senders in order, and a receiver that,  *)
(* once dropped, refuses senders and forgets what was queued.              *)
(***************************************************************************)
EXTENDS Naturals, SequencesExt

CONSTANTS
  Handles,   \* IngestorSender values that are ever cloned
  Capacity,  \* buffer_size
  MaxSends,  \* bound: successful sends of one handle
  Panics     \* may the task panic while it stores?

ASSUME StreamAssumption ==
  /\ Capacity \in Nat \ {0}   \* spawn refuses 0
  /\ MaxSends \in Nat
  /\ Panics \in BOOLEAN

VARIABLES
  sender,    \* per handle: what it is doing
  sent,      \* per handle: how many of its sends returned Ok
  waiters,   \* senders waiting for a permit, in order
  free,      \* permits nobody holds
  queue,     \* chunks in the channel
  task,      \* where the spawned task is
  current,   \* the chunk it is storing
  cancelled, \* the CancellationToken
  received, stored, errors,  \* the IngestReport (failed = errors.len())
  persisted, \* chunks that became memories, in order
  late,      \* chunks received after the cancellation (history)
  owner      \* what became of the StreamIngestor value

channel == <<waiters, free, queue>>
report  == <<received, stored, errors, persisted, late>>
ingestVars == <<sender, sent, channel, task, current, cancelled, report, owner>>

\* A chunk is named by its sender and its number there.
IngestChunks  == [from : Handles, n : Nat]
NoChunk == [from |-> "nobody", n |-> 0]

SenderStates == {"none", "idle", "waiting", "granted", "dropped"}
TaskStates   == {"select", "polled", "storing", "done", "panicked"}
OwnerStates  == {"held", "stopping", "finishing", "stopped", "finished", "failed", "gone"}

IngestTypeOK ==
  /\ sender \in [Handles -> SenderStates]
  /\ sent \in [Handles -> Nat]
  /\ waiters \in Seq(Handles)
  /\ free \in Nat
  /\ queue \in Seq(IngestChunks)
  /\ task \in TaskStates
  /\ current \in IngestChunks \cup {NoChunk}
  /\ cancelled \in BOOLEAN
  /\ received \in Nat /\ stored \in Nat /\ late \in Nat
  /\ errors \in Seq(IngestChunks) /\ persisted \in Seq(IngestChunks)
  /\ owner \in OwnerStates

IngestInit ==
  /\ sender = [h \in Handles |-> "none"]
  /\ sent = [h \in Handles |-> 0]
  /\ waiters = <<>> /\ free = Capacity /\ queue = <<>>
  /\ task = "select" /\ current = NoChunk
  /\ cancelled = FALSE
  /\ received = 0 /\ stored = 0 /\ errors = <<>> /\ persisted = <<>> /\ late = 0
  /\ owner = "held"

-----------------------------------------------------------------------------
(* The channel *)

Open(h) == sender[h] \in {"idle", "waiting", "granted"}

\* The ingestor's own sender lives until finish drops it, or the value goes.
OwnSender == owner \in {"held", "stopping"}

NoSenders == ~OwnSender /\ \A h \in Handles : ~Open(h)

TaskEnded == task \in {"done", "panicked"}

\* (mutant: the receiver is shared with the ingestor instead of moved into the task)
ChannelClosed_ReceiverShared == FALSE

\* The receiver was moved into the task and goes with it.
ChannelClosed == TaskEnded

\* The chunk handle h sends next.
NextChunk(h) == [from |-> h, n |-> sent[h] + 1]

\* A permit comes back when the senders are in the states s: the first one
\* waiting gets it.  (A closed channel grants none.)
ReturnPermit(s) ==
  IF waiters = <<>> \/ ChannelClosed
  THEN sender' = s /\ free' = free + 1 /\ UNCHANGED waiters
  ELSE /\ sender' = [s EXCEPT ![Head(waiters)] = "granted"]
       /\ waiters' = Tail(waiters)
       /\ UNCHANGED free

\* h waits no longer.
StopWaiting(h) ==
  \E i \in DOMAIN waiters : waiters[i] = h /\ waiters' = RemoveAt(waiters, i)

-----------------------------------------------------------------------------
(* Senders *)

\* StreamIngestor::sender or IngestorSender::clone_handle.
Clone(h) ==
  /\ sender[h] = "none"
  /\ owner = "held" \/ \E g \in Handles : Open(g)
  /\ sender' = [sender EXCEPT ![h] = "idle"]
  /\ UNCHANGED <<sent, channel, task, current, cancelled, report, owner>>

\* send finds a free slot.  (On a closed channel it is refused at once and
\* changes nothing.)
Send(h) ==
  /\ sender[h] = "idle" /\ sent[h] < MaxSends
  /\ ~ChannelClosed /\ free > 0
  /\ free' = free - 1
  /\ queue' = Append(queue, NextChunk(h))
  /\ sent' = [sent EXCEPT ![h] = @ + 1]
  /\ UNCHANGED <<sender, waiters, task, current, cancelled, report, owner>>

\* send finds the channel full and waits.
Block(h) ==
  /\ sender[h] = "idle" /\ sent[h] < MaxSends
  /\ ~ChannelClosed /\ free = 0
  /\ sender' = [sender EXCEPT ![h] = "waiting"]
  /\ waiters' = Append(waiters, h)
  /\ UNCHANGED <<sent, free, queue, task, current, cancelled, report, owner>>

\* The waiting sender was given a permit.  If the receiver is gone by now the
\* chunk is forgotten, and send still returns Ok.
Push(h) ==
  /\ sender[h] = "granted"
  /\ sender' = [sender EXCEPT ![h] = "idle"]
  /\ sent' = [sent EXCEPT ![h] = @ + 1]
  /\ queue' = IF ChannelClosed THEN queue ELSE Append(queue, NextChunk(h))
  /\ UNCHANGED <<waiters, free, task, current, cancelled, report, owner>>

\* "ingest channel closed"
Refused(h) ==
  /\ sender[h] = "waiting" /\ ChannelClosed
  /\ sender' = [sender EXCEPT ![h] = "idle"]
  /\ StopWaiting(h)
  /\ UNCHANGED <<sent, free, queue, task, current, cancelled, report, owner>>

\* The future of a waiting send is dropped.
AbandonWait(h) ==
  /\ sender[h] = "waiting"
  /\ sender' = [sender EXCEPT ![h] = "idle"]
  /\ StopWaiting(h)
  /\ UNCHANGED <<sent, free, queue, task, current, cancelled, report, owner>>

\* ... or of one that was given a permit and did not run yet.
AbandonGrant(h) ==
  /\ sender[h] = "granted"
  /\ ReturnPermit([sender EXCEPT ![h] = "idle"])
  /\ UNCHANGED <<sent, queue, task, current, cancelled, report, owner>>

DropSender(h) ==
  /\ sender[h] = "idle"
  /\ sender' = [sender EXCEPT ![h] = "dropped"]
  /\ UNCHANGED <<sent, channel, task, current, cancelled, report, owner>>

-----------------------------------------------------------------------------
(* The task *)

\* The biased select looks at the token first ...
SeesCancel ==
  /\ task = "select" /\ cancelled
  /\ task' = "done"
  /\ queue' = <<>>
  /\ UNCHANGED <<sender, sent, waiters, free, current, cancelled, report, owner>>

\* (mutant: select! without biased)
NotCancelled_Unbiased ==
  /\ task = "select"
  /\ task' = "polled"
  /\ UNCHANGED <<sender, sent, channel, current, cancelled, report, owner>>

NotCancelled ==
  /\ task = "select" /\ ~cancelled
  /\ task' = "polled"
  /\ UNCHANGED <<sender, sent, channel, current, cancelled, report, owner>>

\* (mutant: the newest chunk first)
Receive_Newest ==
  /\ task = "polled" /\ queue # <<>>
  /\ task' = "storing"
  /\ current' = Last(queue)
  /\ queue' = Front(queue)
  /\ ReturnPermit(sender)
  /\ received' = received + 1
  /\ late' = IF cancelled THEN late + 1 ELSE late
  /\ UNCHANGED <<sent, cancelled, stored, errors, persisted, owner>>

\* ... then at the channel: another thread may cancel in between.
Receive ==
  /\ task = "polled" /\ queue # <<>>
  /\ task' = "storing"
  /\ current' = Head(queue)
  /\ queue' = Tail(queue)
  /\ ReturnPermit(sender)
  /\ received' = received + 1
  /\ late' = IF cancelled THEN late + 1 ELSE late
  /\ UNCHANGED <<sent, cancelled, stored, errors, persisted, owner>>

\* Nothing to receive: wait for either.
Wait ==
  /\ task = "polled" /\ queue = <<>> /\ ~NoSenders
  /\ task' = "select"
  /\ UNCHANGED <<sender, sent, channel, current, cancelled, report, owner>>

\* Every sender is dropped and the channel is drained.
Drained ==
  /\ task = "polled" /\ queue = <<>> /\ NoSenders
  /\ task' = "done"
  /\ UNCHANGED <<sender, sent, channel, current, cancelled, report, owner>>

StoreOk ==
  /\ task = "storing"
  /\ stored' = stored + 1
  /\ persisted' = Append(persisted, current)
  /\ task' = "select" /\ current' = NoChunk
  /\ UNCHANGED <<sender, sent, channel, cancelled, received, errors, late, owner>>

\* (mutant: the error is only counted as received)
StoreFails_NotRecorded ==
  /\ task = "storing"
  /\ task' = "select" /\ current' = NoChunk
  /\ UNCHANGED <<sender, sent, channel, cancelled, report, owner>>

\* (mutant: `?` instead of recording the error)
StoreFails_EndsTask ==
  /\ task = "storing"
  /\ errors' = Append(errors, current)
  /\ task' = "done" /\ current' = NoChunk
  /\ queue' = <<>>
  /\ UNCHANGED <<sender, sent, waiters, free, cancelled, received, stored,
                 persisted, late, owner>>

StoreFails ==
  /\ task = "storing"
  /\ errors' = Append(errors, current)
  /\ task' = "select" /\ current' = NoChunk
  /\ UNCHANGED <<sender, sent, channel, cancelled, received, stored, persisted,
                 late, owner>>

Panic ==
  /\ Panics
  /\ task = "storing"
  /\ task' = "panicked" /\ current' = NoChunk
  /\ queue' = <<>>
  /\ UNCHANGED <<sender, sent, waiters, free, cancelled, report, owner>>

-----------------------------------------------------------------------------
(* The owner *)

ShutdownNow ==
  /\ owner = "held"
  /\ owner' = "stopping"
  /\ cancelled' = TRUE
  /\ UNCHANGED <<sender, sent, channel, task, current, report>>

\* (mutant: finish awaits the task before its own sender is dropped)
FinishIngest_KeepsSender ==
  /\ owner = "held"
  /\ owner' = "stopping"
  /\ UNCHANGED <<sender, sent, channel, task, current, cancelled, report>>

FinishIngest ==
  /\ owner = "held"
  /\ owner' = "finishing"
  /\ UNCHANGED <<sender, sent, channel, task, current, cancelled, report>>

\* The join ends: the caller gets the report, or Internal after a panic.
Joined ==
  /\ owner \in {"stopping", "finishing"} /\ TaskEnded
  /\ owner' = IF task = "panicked" THEN "failed"
              ELSE IF owner = "stopping" THEN "stopped" ELSE "finished"
  /\ UNCHANGED <<sender, sent, channel, task, current, cancelled, report>>

\* The ingestor, or the future of its shutdown, is dropped: the task runs on.
DropIngestor ==
  /\ owner \in {"held", "stopping", "finishing"}
  /\ owner' = "gone"
  /\ UNCHANGED <<sender, sent, channel, task, current, cancelled, report>>

Task ==
  \/ SeesCancel \/ NotCancelled \/ Receive \/ Wait \/ Drained
  \/ StoreOk \/ StoreFails \/ Panic

IngestNext ==
  \/ Task
  \/ \E h \in Handles : \/ Clone(h) \/ Send(h) \/ Block(h) \/ Push(h)
                        \/ Refused(h) \/ AbandonWait(h) \/ AbandonGrant(h) \/ DropSender(h)
  \/ ShutdownNow \/ FinishIngest \/ Joined \/ DropIngestor

IngestSpec == IngestInit /\ [][IngestNext]_ingestVars

\* Whoever awaits the end of the task or a permit is woken.
Woken ==
  /\ WF_ingestVars(Joined)
  /\ \A h \in Handles : WF_ingestVars(Push(h)) /\ WF_ingestVars(Refused(h))

\* The runtime polls the task, the granted or refused senders and the owner's
\* await; store_with_options returns.  Nobody has to send, stop or drop.
IngestFairSpec == IngestSpec /\ WF_ingestVars(Task) /\ Woken

-----------------------------------------------------------------------------
(* Properties *)

\* The chunks whose send returned Ok.
Accepted == UNION {{[from |-> h, n |-> k] : k \in 1..sent[h]} : h \in Handles}

\* A report that was returned accounts for every chunk received, however
\* stores failed and whenever the task was cancelled.
ReportAddsUp ==
  owner \in {"stopped", "finished"} =>
    /\ received = stored + Len(errors)
    /\ stored = Len(persisted)

\* finish drains: when it has returned the report, every chunk whose send
\* returned Ok is a memory or is listed as failed, whatever clones were made
\* and used while it was waiting.
FinishDrains ==
  owner = "finished" => Accepted = ToSet(persisted) \cup ToSet(errors)

\* The chunks of one sender become memories in the order they were sent, none
\* of them twice, blocked sends and failed stores included.
InOrder ==
  \A i, j \in 1..Len(persisted) :
    i < j /\ persisted[i].from = persisted[j].from => persisted[i].n < persisted[j].n

\* shutdown_now is prompt: once the token is cancelled at most one more chunk
\* is taken from the channel, however full producers keep it.
StopIsPrompt == late <= 1

\* A producer blocked by backpressure is released, with Ok or with an error,
\* even if the ingestor is shut down, abandoned or panics.
SendersReleased ==
  \A h \in Handles : (sender[h] \in {"waiting", "granted"}) ~> (sender[h] \in {"idle", "dropped"})

\* shutdown_now returns; finish returns once every cloned sender is dropped.
OwnerReturns ==
  /\ (owner = "stopping") ~> (owner # "stopping")
  /\ (owner = "finishing" /\ NoSenders) ~> (owner # "finishing")
=============================================================================
