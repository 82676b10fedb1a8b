------------------------ MODULE StreamIngestorProofs ------------------------
(***************************************************************************)
(* Theorems about StreamIngestor, for any number of senders, any capacity  *)
(* and any failures of the stores.                                         *)
(***************************************************************************)
EXTENDS StreamIngestor, SequenceTheorems, TLAPS

-----------------------------------------------------------------------------
(* The inductive invariant *)

\* finish never cancels, and a report is returned by a task that has ended.
Owned ==
  /\ owner \in {"held", "finishing", "finished"} => ~cancelled
  /\ owner \in {"stopped", "finished"} => task = "done"

\* The report at every moment: one chunk may be under way, or lost in a panic.
Counted ==
  /\ stored = Len(persisted)
  /\ task \in {"storing", "panicked"} => received = stored + Len(errors) + 1
  /\ task \notin {"storing", "panicked"} => received = stored + Len(errors)

\* The token is seen before the channel is looked at again.
Prompt ==
  /\ late <= 1
  /\ task = "polled" => late = 0
  /\ late > 0 => cancelled

\* Where the accepted chunks are.
UnderWay == IF task = "storing" THEN {current} ELSE {}
Held == ToSet(persisted) \cup ToSet(errors) \cup ToSet(queue) \cup UnderWay

\* As long as nobody cancels and nothing panics, no accepted chunk is lost.
Kept == ~cancelled /\ task # "panicked" => Accepted = Held

\* A task that ended by itself has drained a channel nobody can send to.
Ended == task = "done" /\ ~cancelled => queue = <<>> /\ NoSenders

Busy == task = "storing" => current \in IngestChunks

\* Of two chunks of one sender, c was sent before d.
Precedes(c, d) == c.from = d.from => c.n < d.n

Sorted(s) == \A i, j \in 1..Len(s) : i < j => Precedes(s[i], s[j])

\* The chunks stay in order all the way from the senders to the database.
Ordered ==
  /\ Sorted(persisted) /\ Sorted(queue)
  /\ \A c \in ToSet(persisted), d \in ToSet(queue) : Precedes(c, d)
  /\ \A c \in UnderWay : /\ \A d \in ToSet(queue) : Precedes(c, d)
                         /\ \A d \in ToSet(persisted) : Precedes(d, c)
  /\ \A c \in ToSet(persisted) \cup ToSet(queue) \cup UnderWay : c.n <= sent[c.from]

IInv == IngestTypeOK /\ Owned /\ Counted /\ Prompt /\ Kept /\ Ended /\ Busy /\ Ordered

-----------------------------------------------------------------------------
(* Sequences *)

\* What Append adds to the set of a sequence.
LEMMA AppendSet ==
  ASSUME NEW S, NEW s \in Seq(S), NEW e \in S
  PROVE  /\ Append(s, e) \in Seq(S)
         /\ Len(Append(s, e)) = Len(s) + 1
         /\ ToSet(Append(s, e)) = ToSet(s) \cup {e}
  BY AppendProperties DEF ToSet

\* What the receiver takes and leaves.
LEMMA TailSet ==
  ASSUME NEW S, NEW s \in Seq(S), s # <<>>
  PROVE  /\ Head(s) \in S /\ Tail(s) \in Seq(S)
         /\ ToSet(s) = {Head(s)} \cup ToSet(Tail(s))
<1>1. /\ Head(s) \in S /\ Head(s) = s[1] /\ Tail(s) \in Seq(S)
      /\ Len(Tail(s)) = Len(s) - 1 /\ Len(s) \in Nat /\ Len(s) > 0
      /\ \A i \in 1..Len(Tail(s)) : Tail(s)[i] = s[i + 1]
  BY HeadTailProperties
<1>2. ASSUME NEW i \in 1..Len(s), i # 1
      PROVE  i - 1 \in 1..Len(Tail(s)) /\ Tail(s)[i - 1] = s[i]
  BY <1>1, <1>2
<1>3. ToSet(s) \subseteq {Head(s)} \cup ToSet(Tail(s))
  <2>1. ASSUME NEW i \in 1..Len(s) PROVE s[i] \in {Head(s)} \cup ToSet(Tail(s))
    <3>1. CASE i = 1
      BY <1>1, <3>1
    <3>2. CASE i # 1
      <4>1. i - 1 \in DOMAIN Tail(s) /\ Tail(s)[i - 1] = s[i]
        BY <1>1, <1>2, <3>2
      <4> QED BY <4>1 DEF ToSet
    <3> QED BY <3>1, <3>2
  <2> QED BY <2>1 DEF ToSet
<1>4. {Head(s)} \cup ToSet(Tail(s)) \subseteq ToSet(s)
  <2>1. \A i \in 1..Len(Tail(s)) : i + 1 \in 1..Len(s)
    BY <1>1
  <2> QED BY <1>1, <2>1 DEF ToSet
<1> QED BY <1>1, <1>3, <1>4

\* A chunk that comes after all others keeps the order at the end ...
LEMMA AppendSorted ==
  ASSUME NEW s \in Seq(IngestChunks), NEW e \in IngestChunks,
         Sorted(s), \A c \in ToSet(s) : Precedes(c, e)
  PROVE  Sorted(Append(s, e))
<1>1. /\ Len(s) \in Nat /\ Len(Append(s, e)) = Len(s) + 1
      /\ \A i \in 1..Len(s) : Append(s, e)[i] = s[i]
      /\ Append(s, e)[Len(s) + 1] = e
  BY AppendProperties
<1>2. \A i \in 1..Len(s) : s[i] \in ToSet(s)
  BY DEF ToSet
<1>3. ASSUME NEW i \in 1..Len(s) + 1, NEW j \in 1..Len(s) + 1, i < j
      PROVE  Precedes(Append(s, e)[i], Append(s, e)[j])
  <2>1. i \in 1..Len(s)
    BY <1>1, <1>3
  <2>2. CASE j = Len(s) + 1
    BY <1>1, <1>2, <2>1, <2>2
  <2>3. CASE j # Len(s) + 1
    BY <1>1, <1>3, <2>1, <2>3 DEF Sorted
  <2> QED BY <2>2, <2>3
<1> QED BY <1>1, <1>3 DEF Sorted

\* ... and the first one comes before the rest.
LEMMA TailSorted ==
  ASSUME NEW s \in Seq(IngestChunks), s # <<>>, Sorted(s)
  PROVE  Sorted(Tail(s)) /\ \A d \in ToSet(Tail(s)) : Precedes(Head(s), d)
<1>1. /\ Head(s) = s[1] /\ Len(s) \in Nat /\ Len(s) > 0
      /\ Len(Tail(s)) = Len(s) - 1 /\ DOMAIN Tail(s) = 1..Len(Tail(s))
      /\ \A i \in 1..Len(Tail(s)) : Tail(s)[i] = s[i + 1] /\ i + 1 \in 1..Len(s)
  BY HeadTailProperties
<1>2. Sorted(Tail(s))
  BY <1>1 DEF Sorted
<1>3. \A i \in 1..Len(Tail(s)) : Precedes(s[1], s[i + 1])
  BY <1>1 DEF Sorted
<1> QED BY <1>1, <1>2, <1>3 DEF ToSet

-----------------------------------------------------------------------------
(* Steps *)

\* The invariant holds initially.
LEMMA InitOK == IngestInit => IInv
<1> SUFFICES ASSUME IngestInit PROVE IInv
  OBVIOUS
<1> USE DEF IngestInit
<1>1. IngestTypeOK
  <2>1. <<>> \in Seq(Handles) /\ <<>> \in Seq(IngestChunks)
    OBVIOUS
  <2>2. sender \in [Handles -> SenderStates] /\ sent \in [Handles -> Nat] /\ free \in Nat
    BY StreamAssumption DEF SenderStates
  <2> QED BY <2>1, <2>2 DEF IngestTypeOK, TaskStates, OwnerStates
<1>2. Owned /\ Counted /\ Prompt /\ Ended /\ Busy
  BY DEF Owned, Counted, Prompt, Ended, Busy
<1>3. ToSet(<<>>) = {} /\ UnderWay = {}
  BY DEF ToSet, UnderWay
<1>4. Kept
  <2>1. Accepted = {}
    BY DEF Accepted
  <2> QED BY <1>3, <2>1 DEF Kept, Held
<1>5. Ordered
  BY <1>3 DEF Ordered, Sorted
<1> QED BY <1>1, <1>2, <1>4, <1>5 DEF IInv

\* A step that moves only senders, permits and the owner keeps what is said of
\* the chunks.
LEMMA ChunksOK ==
  ASSUME IInv,
         UNCHANGED <<sent, queue, task, current, report>>,
         cancelled => cancelled'
  PROVE  Counted' /\ Prompt' /\ Kept' /\ Busy' /\ Ordered'
<1> USE DEF IInv, report
<1>1. Counted' /\ Prompt' /\ Busy'
  BY DEF Counted, Prompt, Busy
<1>2. UnderWay' = UnderWay /\ Accepted' = Accepted
  BY DEF UnderWay, Accepted
<1>3. Kept'
  BY <1>2 DEF Kept, Held
<1>4. Ordered'
  BY <1>2 DEF Ordered, Sorted
<1> QED BY <1>1, <1>3, <1>4

\* What a successful send adds to the accepted chunks.
LEMMA AcceptedGrows ==
  ASSUME IngestTypeOK, NEW h \in Handles, sent' = [sent EXCEPT ![h] = @ + 1]
  PROVE  /\ NextChunk(h) \in IngestChunks
         /\ Accepted' = Accepted \cup {NextChunk(h)}
<1>1. sent \in [Handles -> Nat]
  BY DEF IngestTypeOK
<1>2. NextChunk(h) \in IngestChunks
  BY <1>1 DEF NextChunk, IngestChunks
<1>3. \A c : c \in Accepted <=> \E g \in Handles : \E k \in 1..sent[g] : c = [from |-> g, n |-> k]
  BY DEF Accepted
<1>4. \A c : c \in Accepted' <=> \E g \in Handles : \E k \in 1..sent'[g] : c = [from |-> g, n |-> k]
  BY DEF Accepted
<1>5. \A g \in Handles : 1..sent'[g] = 1..sent[g] \cup (IF g = h THEN {sent[h] + 1} ELSE {})
  BY <1>1
<1>6. \A c : c \in Accepted' <=> c \in Accepted \/ c = NextChunk(h)
  BY <1>3, <1>4, <1>5 DEF NextChunk
<1> QED BY <1>2, <1>6

\* A send that puts its chunk at the end of the channel.
LEMMA SendOK ==
  ASSUME IInv, NEW h \in Handles, Open(h), ~ChannelClosed,
         queue' = Append(queue, NextChunk(h)),
         sent' = [sent EXCEPT ![h] = @ + 1],
         UNCHANGED <<task, current, cancelled, report, owner>>
  PROVE  /\ sent' \in [Handles -> Nat] /\ queue' \in Seq(IngestChunks)
         /\ Owned' /\ Counted' /\ Prompt' /\ Kept' /\ Ended' /\ Busy' /\ Ordered'
<1> DEFINE e == NextChunk(h)
<1>1. /\ sent \in [Handles -> Nat] /\ queue \in Seq(IngestChunks)
      /\ persisted \in Seq(IngestChunks)
  BY DEF IInv, IngestTypeOK
<1>2. e \in IngestChunks /\ Accepted' = Accepted \cup {e}
  BY AcceptedGrows DEF IInv
<1>3. queue' \in Seq(IngestChunks) /\ ToSet(queue') = ToSet(queue) \cup {e}
  BY <1>1, <1>2, AppendSet
<1>4. sent' \in [Handles -> Nat] /\ \A g \in Handles : sent'[g] >= sent[g]
  BY <1>1
<1>5. UnderWay' = UnderWay
  BY DEF UnderWay
<1>6. Owned' /\ Counted' /\ Prompt' /\ Busy' /\ Ended'
  BY DEF IInv, report, Owned, Counted, Prompt, Busy, Ended, ChannelClosed, TaskEnded
<1>7. Kept'
  BY <1>2, <1>3, <1>5 DEF IInv, report, Kept, Held
<1>8. Ordered'
  <2>1. ToSet(queue) \subseteq IngestChunks /\ ToSet(persisted) \subseteq IngestChunks /\ UnderWay \subseteq IngestChunks
    BY <1>1 DEF ToSet, UnderWay, IInv, Busy
  <2>2. \A c \in ToSet(persisted) \cup ToSet(queue) \cup UnderWay :
          c.n <= sent[c.from] /\ c.n \in Nat /\ c.from \in Handles
    BY <2>1 DEF IInv, Ordered, IngestChunks
  <2>3. e.from = h /\ e.n = sent[h] + 1
    BY DEF NextChunk
  <2>4. \A c \in ToSet(persisted) \cup ToSet(queue) \cup UnderWay : Precedes(c, e)
    BY <1>1, <2>2, <2>3 DEF Precedes
  <2>5. Sorted(queue')
    BY <1>1, <1>2, <2>4, AppendSorted DEF IInv, Ordered
  <2>6. \A c \in ToSet(persisted) \cup ToSet(queue') \cup UnderWay : c.n <= sent'[c.from]
    <3>1. ASSUME NEW c \in ToSet(persisted) \cup ToSet(queue) \cup UnderWay
          PROVE  c.n <= sent'[c.from]
      BY <1>1, <1>4, <2>2
    <3>2. e.n <= sent'[e.from]
      BY <1>1, <2>3
    <3> QED BY <1>3, <3>1, <3>2
  <2> QED BY <1>3, <1>5, <2>4, <2>5, <2>6 DEF IInv, report, Ordered
<1> QED BY <1>3, <1>4, <1>6, <1>7, <1>8

\* A step of a sender that is not about chunks.
LEMMA SenderMoves ==
  ASSUME IInv,
         UNCHANGED <<sent, queue, task, current, cancelled, report, owner>>,
         sender' \in [Handles -> SenderStates], waiters' \in Seq(Handles), free' \in Nat,
         NoSenders => NoSenders'
  PROVE  IInv'
<1>1. IngestTypeOK'
  BY DEF IInv, IngestTypeOK, report
<1>2. Owned' /\ Ended'
  BY DEF IInv, Owned, Ended
<1> QED BY <1>1, <1>2, ChunksOK DEF IInv

\* A permit that comes back leaves everything typed, and wakes open senders only.
LEMMA PermitOK ==
  ASSUME IngestTypeOK, NEW s \in [Handles -> SenderStates], ReturnPermit(s)
  PROVE  sender' \in [Handles -> SenderStates] /\ waiters' \in Seq(Handles) /\ free' \in Nat
<1>1. waiters \in Seq(Handles) /\ free \in Nat
  BY DEF IngestTypeOK
<1>2. CASE waiters = <<>> \/ ChannelClosed
  BY <1>1, <1>2 DEF ReturnPermit
<1>3. CASE waiters # <<>> /\ ~ChannelClosed
  <2>1. Head(waiters) \in Handles /\ Tail(waiters) \in Seq(Handles)
    BY <1>1, <1>3, TailSet
  <2> QED BY <1>1, <1>3, <2>1 DEF ReturnPermit, SenderStates
<1> QED BY <1>2, <1>3

\* Every step of a sender keeps the invariant.
LEMMA SenderOK ==
  ASSUME IInv, NEW h \in Handles,
         \/ Clone(h) \/ Send(h) \/ Block(h) \/ Push(h)
         \/ Refused(h) \/ AbandonWait(h) \/ AbandonGrant(h) \/ DropSender(h)
  PROVE  IInv'
<1>1. /\ sender \in [Handles -> SenderStates] /\ sent \in [Handles -> Nat]
      /\ waiters \in Seq(Handles) /\ free \in Nat /\ IngestTypeOK
  BY DEF IInv, IngestTypeOK
<1>2. CASE Clone(h)
  <2>1. ~NoSenders
    BY <1>2 DEF Clone, NoSenders, OwnSender
  <2> QED BY <1>1, <1>2, <2>1, SenderMoves DEF Clone, channel, SenderStates
<1>3. CASE Send(h)
  <2>1. Open(h)
    BY <1>3 DEF Send, Open
  <2>2. /\ sent' \in [Handles -> Nat] /\ queue' \in Seq(IngestChunks)
        /\ Owned' /\ Counted' /\ Prompt' /\ Kept' /\ Ended' /\ Busy' /\ Ordered'
    BY <1>3, <2>1, SendOK DEF Send
  <2>3. IngestTypeOK'
    BY <1>1, <1>3, <2>2 DEF Send, IngestTypeOK, report
  <2> QED BY <2>2, <2>3 DEF IInv
<1>4. CASE Block(h)
  <2>1. sender' \in [Handles -> SenderStates] /\ (NoSenders => NoSenders')
    BY <1>1, <1>4 DEF Block, SenderStates, NoSenders, Open
  <2>2. waiters' \in Seq(Handles)
    BY <1>1, <1>4 DEF Block
  <2> QED BY <1>1, <1>4, <2>1, <2>2, SenderMoves DEF Block
<1>5. CASE Push(h) /\ ~ChannelClosed
  <2>1. Open(h)
    BY <1>5 DEF Push, Open
  <2>2. /\ sent' \in [Handles -> Nat] /\ queue' \in Seq(IngestChunks)
        /\ Owned' /\ Counted' /\ Prompt' /\ Kept' /\ Ended' /\ Busy' /\ Ordered'
    BY <1>5, <2>1, SendOK DEF Push
  <2>3. IngestTypeOK'
    BY <1>1, <1>5, <2>2 DEF Push, IngestTypeOK, report, SenderStates
  <2> QED BY <2>2, <2>3 DEF IInv
<1>6. CASE Push(h) /\ ChannelClosed
  \* The chunk is lost: the task was cancelled or has panicked, since a channel
  \* that was drained has no open sender left.
  <2>1. cancelled \/ task = "panicked"
    BY <1>6 DEF Push, ChannelClosed, TaskEnded, IInv, Ended, NoSenders, Open
  <2>2. IngestTypeOK'
    BY <1>1, <1>6 DEF Push, IngestTypeOK, report, SenderStates
  <2>3. \A g \in Handles : sent'[g] >= sent[g]
    BY <1>1, <1>6 DEF Push
  <2>4. Owned' /\ Counted' /\ Prompt' /\ Kept' /\ Ended' /\ Busy'
    BY <1>6, <2>1 DEF Push, IInv, report, Owned, Counted, Prompt, Kept, Ended, Busy,
                      ChannelClosed, TaskEnded
  <2>5. Ordered'
    <3>1. queue' = queue /\ persisted' = persisted /\ UnderWay' = UnderWay
      BY <1>6 DEF Push, report, UnderWay
    <3>2. ASSUME NEW c \in ToSet(persisted) \cup ToSet(queue) \cup UnderWay
          PROVE  c.n <= sent'[c.from]
      <4>1. c \in IngestChunks
        BY DEF IInv, IngestTypeOK, Busy, UnderWay, ToSet
      <4>2. c.n <= sent[c.from] /\ c.from \in Handles /\ c.n \in Nat
        BY <4>1 DEF IInv, Ordered, IngestChunks
      <4>3. sent[c.from] \in Nat /\ sent'[c.from] \in Nat /\ sent'[c.from] >= sent[c.from]
        BY <2>2, <2>3, <4>2 DEF IInv, IngestTypeOK
      <4> QED BY <4>2, <4>3
    <3> QED BY <3>1, <3>2 DEF IInv, Ordered, Sorted
  <2> QED BY <2>2, <2>4, <2>5 DEF IInv
<1>7. CASE Refused(h) \/ AbandonWait(h)
  <2>1. sender' \in [Handles -> SenderStates] /\ (NoSenders => NoSenders')
    BY <1>1, <1>7 DEF Refused, AbandonWait, SenderStates, NoSenders, Open
  <2>2. waiters' \in Seq(Handles)
    <3>1. PICK i \in 1..Len(waiters) : waiters' = RemoveAt(waiters, i)
      BY <1>1, <1>7 DEF Refused, AbandonWait, StopWaiting
    <3> QED BY <1>1, <3>1 DEF RemoveAt
  <2> QED BY <1>1, <1>7, <2>1, <2>2, SenderMoves DEF Refused, AbandonWait
<1>8. CASE AbandonGrant(h)
  <2>1. [sender EXCEPT ![h] = "idle"] \in [Handles -> SenderStates]
    BY <1>1 DEF SenderStates
  <2>2. sender' \in [Handles -> SenderStates] /\ waiters' \in Seq(Handles) /\ free' \in Nat
    BY <1>1, <1>8, <2>1, PermitOK DEF AbandonGrant
  <2>3. ~NoSenders
    BY <1>8 DEF AbandonGrant, NoSenders, Open
  <2> QED BY <1>8, <2>2, <2>3, SenderMoves DEF AbandonGrant
<1>9. CASE DropSender(h)
  <2>1. sender' \in [Handles -> SenderStates] /\ (NoSenders => NoSenders')
    BY <1>1, <1>9 DEF DropSender, SenderStates, NoSenders, Open, OwnSender
  <2> QED BY <1>1, <1>9, <2>1, SenderMoves DEF DropSender, channel
<1> QED BY <1>2, <1>3, <1>4, <1>5, <1>6, <1>7, <1>8, <1>9

\* Every step of the owner keeps the invariant.
LEMMA OwnerOK ==
  ASSUME IInv, ShutdownNow \/ FinishIngest \/ Joined \/ DropIngestor
  PROVE  IInv'
<1> USE DEF ShutdownNow, FinishIngest, Joined, DropIngestor, channel, report
<1>1. IngestTypeOK'
  BY DEF IInv, IngestTypeOK, OwnerStates
<1>2. Owned'
  BY DEF IInv, Owned, TaskEnded
<1>3. Ended'
  BY DEF IInv, Ended, NoSenders, OwnSender, Open, Owned
<1>4. UNCHANGED <<sent, queue, task, current, report>> /\ (cancelled => cancelled')
  OBVIOUS
<1> QED BY <1>1, <1>2, <1>3, <1>4, ChunksOK DEF IInv

\* Every step of the task keeps the invariant.
LEMMA TaskOK ==
  ASSUME IInv, Task
  PROVE  IInv'
<1>1. /\ sender \in [Handles -> SenderStates] /\ sent \in [Handles -> Nat]
      /\ queue \in Seq(IngestChunks) /\ persisted \in Seq(IngestChunks) /\ errors \in Seq(IngestChunks)
      /\ received \in Nat /\ stored \in Nat /\ late \in Nat
      /\ ToSet(<<>>) = {} /\ IngestTypeOK
  BY DEF IInv, IngestTypeOK, ToSet
<1>2. CASE SeesCancel
  <2> USE <1>2 DEF SeesCancel, report
  <2>1. IngestTypeOK'
    BY DEF IInv, IngestTypeOK, TaskStates
  <2>2. Owned' /\ Counted' /\ Prompt' /\ Kept' /\ Ended' /\ Busy'
    BY DEF IInv, Owned, Counted, Prompt, Kept, Ended, Busy
  <2>3. Ordered'
    BY <1>1 DEF IInv, Ordered, Sorted, UnderWay
  <2> QED BY <2>1, <2>2, <2>3 DEF IInv
<1>3. CASE NotCancelled
  <2> USE <1>3 DEF NotCancelled, report, channel
  <2>1. IngestTypeOK'
    BY DEF IInv, IngestTypeOK, TaskStates
  <2>2. Owned' /\ Counted' /\ Prompt' /\ Ended' /\ Busy'
    BY <1>1 DEF IInv, Owned, Counted, Prompt, Ended, Busy
  <2>3. Kept' /\ Ordered'
    BY DEF IInv, Kept, Accepted, Held, Ordered, Sorted, UnderWay
  <2> QED BY <2>1, <2>2, <2>3 DEF IInv
<1>4. CASE Receive
  <2>1. /\ task = "polled" /\ queue # <<>> /\ task' = "storing"
        /\ current' = Head(queue) /\ queue' = Tail(queue)
        /\ received' = received + 1
        /\ late' = IF cancelled THEN late + 1 ELSE late
        /\ UNCHANGED <<sent, cancelled, stored, errors, persisted, owner>>
        /\ ReturnPermit(sender)
    BY <1>4 DEF Receive
  <2>2. /\ Head(queue) \in IngestChunks /\ Tail(queue) \in Seq(IngestChunks)
        /\ ToSet(queue) = {Head(queue)} \cup ToSet(Tail(queue))
    BY <1>1, <2>1, TailSet
  <2>3. sender' \in [Handles -> SenderStates] /\ waiters' \in Seq(Handles) /\ free' \in Nat
    BY <1>1, <2>1, PermitOK
  <2>4. IngestTypeOK'
    BY <1>1, <2>1, <2>2, <2>3 DEF IngestTypeOK, TaskStates
  <2>5. Owned' /\ Counted' /\ Prompt' /\ Ended' /\ Busy'
    BY <1>1, <2>1, <2>2 DEF IInv, Owned, Counted, Prompt, Ended, Busy
  <2>6. UnderWay = {} /\ UnderWay' = {Head(queue)}
    BY <2>1 DEF UnderWay
  <2>7. Kept'
    BY <2>1, <2>2, <2>6 DEF IInv, Kept, Accepted, Held
  <2>8. Sorted(Tail(queue)) /\ \A d \in ToSet(Tail(queue)) : Precedes(Head(queue), d)
    BY <1>1, <2>1, TailSorted DEF IInv, Ordered
  <2>9. Ordered'
    <3>1. Sorted(persisted') /\ Sorted(queue')
      BY <2>1, <2>8 DEF IInv, Ordered, Sorted
    <3>2. \A c \in ToSet(persisted'), d \in ToSet(queue') : Precedes(c, d)
      BY <2>1, <2>2 DEF IInv, Ordered
    <3>3. \A c \in UnderWay' : /\ \A d \in ToSet(queue') : Precedes(c, d)
                               /\ \A d \in ToSet(persisted') : Precedes(d, c)
      BY <2>1, <2>2, <2>6, <2>8 DEF IInv, Ordered
    <3>4. \A c \in ToSet(persisted') \cup ToSet(queue') \cup UnderWay' : c.n <= sent'[c.from]
      BY <2>1, <2>2, <2>6 DEF IInv, Ordered
    <3> QED BY <3>1, <3>2, <3>3, <3>4 DEF Ordered
  <2> QED BY <2>4, <2>5, <2>7, <2>9 DEF IInv
<1>5. CASE Wait
  <2> USE <1>5 DEF Wait, report, channel
  <2>1. IngestTypeOK'
    BY DEF IInv, IngestTypeOK, TaskStates
  <2>2. Owned' /\ Counted' /\ Prompt' /\ Ended' /\ Busy'
    BY <1>1 DEF IInv, Owned, Counted, Prompt, Ended, Busy
  <2>3. Kept' /\ Ordered'
    BY DEF IInv, Kept, Accepted, Held, Ordered, Sorted, UnderWay
  <2> QED BY <2>1, <2>2, <2>3 DEF IInv
<1>6. CASE Drained
  <2> USE <1>6 DEF Drained, report, channel
  <2>1. IngestTypeOK'
    BY DEF IInv, IngestTypeOK, TaskStates
  <2>2. Owned' /\ Counted' /\ Prompt' /\ Busy'
    BY <1>1 DEF IInv, Owned, Counted, Prompt, Busy
  <2>3. Ended'
    BY DEF Ended, NoSenders, OwnSender, Open
  <2>4. Kept' /\ Ordered'
    BY DEF IInv, Kept, Accepted, Held, Ordered, Sorted, UnderWay
  <2> QED BY <2>1, <2>2, <2>3, <2>4 DEF IInv
<1>7. CASE StoreOk
  <2>1. /\ task = "storing" /\ task' = "select" /\ current' = NoChunk
        /\ stored' = stored + 1 /\ persisted' = Append(persisted, current)
        /\ UNCHANGED <<sender, sent, channel, cancelled, received, errors, late, owner>>
    BY <1>7 DEF StoreOk
  <2>2. current \in IngestChunks /\ UnderWay = {current} /\ UnderWay' = {}
    BY <2>1 DEF IInv, Busy, UnderWay
  <2>3. /\ persisted' \in Seq(IngestChunks) /\ Len(persisted') = Len(persisted) + 1
        /\ ToSet(persisted') = ToSet(persisted) \cup {current}
    BY <1>1, <2>1, <2>2, AppendSet
  <2>4. IngestTypeOK'
    BY <1>1, <2>1, <2>3 DEF IngestTypeOK, TaskStates, channel
  <2>5. Owned' /\ Counted' /\ Prompt' /\ Ended' /\ Busy'
    BY <1>1, <2>1, <2>3 DEF IInv, Owned, Counted, Prompt, Ended, Busy
  <2>6. Kept'
    BY <2>1, <2>2, <2>3 DEF IInv, Kept, Accepted, Held, channel
  <2>7. Ordered'
    <3>1. \A d \in ToSet(persisted) : Precedes(d, current)
      BY <2>2 DEF IInv, Ordered
    <3>2. Sorted(persisted')
      BY <1>1, <2>1, <2>2, <3>1, AppendSorted DEF IInv, Ordered
    <3> QED BY <2>1, <2>2, <2>3, <3>2 DEF IInv, Ordered, channel
  <2> QED BY <2>4, <2>5, <2>6, <2>7 DEF IInv
<1>8. CASE StoreFails
  <2>1. /\ task = "storing" /\ task' = "select" /\ current' = NoChunk
        /\ errors' = Append(errors, current)
        /\ UNCHANGED <<sender, sent, channel, cancelled, received, stored, persisted, late, owner>>
    BY <1>8 DEF StoreFails
  <2>2. current \in IngestChunks /\ UnderWay = {current} /\ UnderWay' = {}
    BY <2>1 DEF IInv, Busy, UnderWay
  <2>3. /\ errors' \in Seq(IngestChunks) /\ Len(errors') = Len(errors) + 1
        /\ ToSet(errors') = ToSet(errors) \cup {current}
    BY <1>1, <2>1, <2>2, AppendSet
  <2>4. IngestTypeOK'
    BY <1>1, <2>1, <2>3 DEF IngestTypeOK, TaskStates, channel
  <2>5. Owned' /\ Counted' /\ Prompt' /\ Ended' /\ Busy'
    BY <1>1, <2>1, <2>3 DEF IInv, Owned, Counted, Prompt, Ended, Busy
  <2>6. Kept'
    BY <2>1, <2>2, <2>3 DEF IInv, Kept, Accepted, Held, channel
  <2>7. Ordered'
    BY <2>1, <2>2 DEF IInv, Ordered, Sorted, channel
  <2> QED BY <2>4, <2>5, <2>6, <2>7 DEF IInv
<1>9. CASE Panic
  <2> USE <1>9 DEF Panic, report
  <2>1. IngestTypeOK'
    BY DEF IInv, IngestTypeOK, TaskStates
  <2>2. Owned' /\ Counted' /\ Prompt' /\ Kept' /\ Ended' /\ Busy'
    BY DEF IInv, Owned, Counted, Prompt, Kept, Ended, Busy
  <2>3. Ordered'
    BY <1>1 DEF IInv, Ordered, Sorted, UnderWay
  <2> QED BY <2>1, <2>2, <2>3 DEF IInv
<1> QED BY <1>2, <1>3, <1>4, <1>5, <1>6, <1>7, <1>8, <1>9 DEF Task

\* Every step keeps the invariant.
LEMMA StepOK == IInv /\ [IngestNext]_ingestVars => IInv'
<1> SUFFICES ASSUME IInv, [IngestNext]_ingestVars PROVE IInv'
  OBVIOUS
<1>1. CASE IngestNext
  BY <1>1, TaskOK, SenderOK, OwnerOK DEF IngestNext
<1>2. CASE UNCHANGED ingestVars
  <2> USE <1>2 DEF ingestVars, channel, report
  <2>1. IngestTypeOK'
    BY DEF IInv, IngestTypeOK
  <2>2. Owned' /\ Ended'
    BY DEF IInv, Owned, Ended, NoSenders, OwnSender, Open
  <2> QED BY <2>1, <2>2, ChunksOK DEF IInv
<1> QED BY <1>1, <1>2

-----------------------------------------------------------------------------
(* Theorems *)

\* The invariant holds in every behaviour.
THEOREM Invariance == IngestSpec => []IInv
<1> QED BY InitOK, StepOK, PTL DEF IngestSpec

\* The report that shutdown_now or finish returns accounts for every chunk
\* received (streaming.rs 52-63).
THEOREM ReportAdds == IngestSpec => []ReportAddsUp
<1>1. IInv => ReportAddsUp
  BY DEF IInv, Owned, Counted, ReportAddsUp
<1> QED BY <1>1, Invariance, PTL

\* finish returns only when every chunk accepted by a send has been stored or
\* reported as failed (streaming.rs 235-245).
THEOREM FinishIsComplete == IngestSpec => []FinishDrains
<1>1. ASSUME IInv, owner = "finished"
      PROVE  Accepted = ToSet(persisted) \cup ToSet(errors)
  <2>1. ~cancelled /\ task = "done"
    BY <1>1 DEF IInv, Owned
  <2>2. queue = <<>> /\ ToSet(<<>>) = {} /\ UnderWay = {}
    BY <1>1, <2>1 DEF IInv, Ended, UnderWay, ToSet
  <2> QED BY <1>1, <2>1, <2>2 DEF IInv, Kept, Held
<1>2. IInv => FinishDrains
  BY <1>1 DEF FinishDrains
<1> QED BY <1>2, Invariance, PTL

\* The chunks of one sender are stored in the order they were sent, and none
\* twice (streaming.rs 192-200).
THEOREM StoredInOrder == IngestSpec => []InOrder
<1>1. IInv => InOrder
  BY DEF IInv, Ordered, Sorted, Precedes, InOrder
<1> QED BY <1>1, Invariance, PTL

\* After the cancellation at most one more chunk is received (streaming.rs
\* 183-192).
THEOREM PromptStop == IngestSpec => []StopIsPrompt
<1>1. IInv => StopIsPrompt
  BY DEF IInv, Prompt, StopIsPrompt
<1> QED BY <1>1, Invariance, PTL
=============================================================================
