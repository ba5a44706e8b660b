---------------------------- MODULE DispatchSafety ----------------------------
(***************************************************************************)
(* Proofs about the dispatch.  First every state has its type, from what   *)
(* each step does to the job stream: it changes one entry in place, or     *)
(* appends the replacement of a pending one; every retry, bounce, route    *)
(* and recovery is one of these.  Then DispatchInv is inductive, and with  *)
(* it the safety properties.  The argument: a step has an effect on one    *)
(* entry, which only the acting connection holds, so the others keep what  *)
(* they know of theirs; only the reclaimer reaches past a holder, and that *)
(* is recorded in recovered.  Last, UnlostInv is inductive beside it: until *)
(* a connection is lost no job is left without a delivery or a closer.     *)
(***************************************************************************)
EXTENDS DispatchProps, SequenceTheorems, TLAPS

USE StreamAssumption, SocketAssumption

\* One entry of the stream takes another value.
LEMMA EditTyped ==
    ASSUME NEW s \in Seq(Entries), NEW k \in DOMAIN s, NEW e \in Entries
    PROVE  /\ [s EXCEPT ![k] = e] \in Seq(Entries)
           /\ DOMAIN [s EXCEPT ![k] = e] = DOMAIN s
           /\ Len([s EXCEPT ![k] = e]) = Len(s)
OBVIOUS

LEMMA AppendTyped ==
    ASSUME NEW s \in Seq(Entries), NEW e \in Entries
    PROVE  /\ Append(s, e) \in Seq(Entries)
           /\ DOMAIN Append(s, e) = DOMAIN s \cup {Len(s) + 1}
           /\ \A k \in DOMAIN s : Append(s, e)[k] = s[k]
           /\ Append(s, e)[Len(s) + 1] = e
           /\ Len(s) + 1 \notin DOMAIN s
OBVIOUS

\* The entry a handler names, edited field by field.
LEMMA EntryTyped ==
    ASSUME StreamTypeOK, NEW k \in Ids
    PROVE  /\ stream[k] \in Entries
           /\ stream[k].job \in Jobs /\ stream[k].state \in {"new", "pending", "acked", "expired"}
           /\ stream[k].owner \in Workers \cup {NoWorker, Reclaimer}
           /\ stream[k].hint \in Workers \cup {NoWorker}
           /\ stream[k].routed \in BOOLEAN /\ stream[k].late \in BOOLEAN
           /\ stream[k].requeues \in Nat /\ stream[k].passes \in Nat /\ stream[k].failures \in Nat
           /\ k \in Nat /\ k # None
<1>1. stream[k] \in Entries /\ k \in Nat /\ k >= 1
  BY DEF StreamTypeOK, Ids
<1> QED
  BY <1>1 DEF Entries, None

-----------------------------------------------------------------------------
\* Entry k changes in place: its job and its counters stay.
Edited(k) ==
    /\ stream' \in Seq(Entries) /\ DOMAIN stream' = DOMAIN stream
    /\ \A n \in Ids : n # k => stream'[n] = stream[n]
    /\ stream'[k].job = stream[k].job /\ stream'[k].passes = stream[k].passes
    /\ stream'[k].requeues = stream[k].requeues /\ stream'[k].failures = stream[k].failures
    /\ UNCHANGED <<sent, recovered>>

Becoming(k, how, h) == stream'[k].state = how /\ stream'[k].hint = h

LEMMA EditIs ==
    ASSUME StreamTypeOK, NEW k \in Ids, NEW e \in Entries,
           stream' = [stream EXCEPT ![k] = e], UNCHANGED <<sent, recovered>>,
           e.job = stream[k].job, e.passes = stream[k].passes,
           e.requeues = stream[k].requeues, e.failures = stream[k].failures
    PROVE  Edited(k) /\ Becoming(k, e.state, e.hint)
<1>1. stream \in Seq(Entries)
  BY DEF StreamTypeOK
<1> QED
  BY <1>1, EditTyped DEF Edited, Becoming, Ids

LEMMA ReadStep ==
    ASSUME StreamTypeOK, NEW k \in Ids, NEW w \in Workers, ReadNew(k, w)
    PROVE  Edited(k) /\ stream[k].state = "new" /\ Becoming(k, "pending", stream[k].hint)
<1> DEFINE e == [stream[k] EXCEPT !.state = "pending", !.owner = w]
<1>1. stream' = [stream EXCEPT ![k] = e]
  BY ZenonT(60) DEF ReadNew, StreamTypeOK
<1>2. e \in Entries /\ e.state = "pending" /\ e.hint = stream[k].hint
  <2>1. stream[k] \in Entries /\ "pending" \in {"new", "pending", "acked", "expired"}
    BY EntryTyped
  <2>2. w \in Workers \cup {NoWorker, Reclaimer}
    OBVIOUS
  <2>3. e.state = "pending" /\ e.hint = stream[k].hint
    BY <2>1 DEF Entries
  <2>4. e \in Entries
    BY <2>1, <2>2, ZenonT(60) DEF Entries
  <2> QED
    BY <2>3, <2>4
<1>3. e.job = stream[k].job /\ e.passes = stream[k].passes
      /\ e.requeues = stream[k].requeues /\ e.failures = stream[k].failures
  BY EntryTyped DEF Entries
<1> HIDE DEF e
<1> QED
  BY <1>1, <1>2, <1>3, EditIs, ZenonT(60) DEF ReadNew

LEMMA GoneStep ==
    ASSUME StreamTypeOK, NEW k \in Ids, NEW how \in {"acked", "expired"},
           stream' = Gone(k, how), UNCHANGED <<sent, recovered>>
    PROVE  Edited(k) /\ Becoming(k, how, NoWorker)
<1> DEFINE e == [stream[k] EXCEPT !.state = how, !.owner = NoWorker, !.hint = NoWorker]
<1>1. stream' = [stream EXCEPT ![k] = e]
  BY DEF Gone, StreamTypeOK
<1>2. e \in Entries /\ e.state = how /\ e.hint = NoWorker
  BY EntryTyped DEF Entries
<1>3. e.job = stream[k].job /\ e.passes = stream[k].passes
      /\ e.requeues = stream[k].requeues /\ e.failures = stream[k].failures
  BY EntryTyped DEF Entries
<1> HIDE DEF e
<1> QED
  BY <1>1, <1>2, <1>3, EditIs

LEMMA TakeStep ==
    ASSUME StreamTypeOK, NEW k \in Ids, NEW w \in Workers, TakeRouted(k, w)
    PROVE  /\ Edited(k) /\ Owned(k, w) /\ stream[k].hint = w
           /\ Becoming(k, "pending", NoWorker) \/ Becoming(k, "expired", NoWorker)
<1>1. CASE stream[k].late
  <2>1. stream' = Gone(k, "expired")
    BY <1>1 DEF TakeRouted
  <2> QED
    BY <2>1, GoneStep DEF TakeRouted
<1>2. CASE ~stream[k].late
  <2> DEFINE e == [stream[k] EXCEPT !.hint = NoWorker, !.routed = TRUE]
  <2>1. stream' = [stream EXCEPT ![k] = e]
    BY <1>2 DEF TakeRouted, StreamTypeOK
  <2>2. e \in Entries /\ e.state = stream[k].state /\ e.hint = NoWorker
    BY EntryTyped DEF Entries
  <2>3. e.job = stream[k].job /\ e.passes = stream[k].passes
        /\ e.requeues = stream[k].requeues /\ e.failures = stream[k].failures
    BY EntryTyped DEF Entries
  <2> HIDE DEF e
  <2> QED
    BY <2>1, <2>2, <2>3, EditIs DEF TakeRouted, Owned, Pending, Becoming
<1> QED
  BY <1>1, <1>2

LEMMA AckStep ==
    ASSUME StreamTypeOK, NEW k \in Ids, Ack(k)
    PROVE  \/ Pending(k) /\ Edited(k) /\ Becoming(k, "acked", NoWorker)
           \/ ~Pending(k) /\ UNCHANGED streamVars
BY GoneStep DEF Ack, Acked, streamVars

LEMMA RouteStep ==
    ASSUME StreamTypeOK, NEW k \in Ids, NEW w \in Workers, RouteEntry(k, w)
    PROVE  Edited(k) /\ Becoming(k, stream[k].state, w)
<1> DEFINE e == [stream[k] EXCEPT !.hint = w, !.owner = w]
<1>1. stream' = [stream EXCEPT ![k] = e]
  BY DEF RouteEntry, StreamTypeOK
<1>2. e \in Entries /\ e.state = stream[k].state /\ e.hint = w
  BY EntryTyped DEF Entries
<1>3. e.job = stream[k].job /\ e.passes = stream[k].passes
      /\ e.requeues = stream[k].requeues /\ e.failures = stream[k].failures
  BY EntryTyped DEF Entries
<1> HIDE DEF e
<1> QED
  BY <1>1, <1>2, <1>3, EditIs DEF RouteEntry

LEMMA ClaimStep ==
    ASSUME StreamTypeOK, NEW k \in Ids, ClaimStale(k)
    PROVE  Edited(k) /\ Becoming(k, stream[k].state, stream[k].hint)
<1> DEFINE e == [stream[k] EXCEPT !.owner = Reclaimer]
<1>1. stream' = [stream EXCEPT ![k] = e]
  BY DEF ClaimStale, StreamTypeOK
<1>2. e \in Entries /\ e.state = stream[k].state /\ e.hint = stream[k].hint
  BY EntryTyped DEF Entries
<1>3. e.job = stream[k].job /\ e.passes = stream[k].passes
      /\ e.requeues = stream[k].requeues /\ e.failures = stream[k].failures
  BY EntryTyped DEF Entries
<1> HIDE DEF e
<1> QED
  BY <1>1, <1>2, <1>3, EditIs DEF ClaimStale

LEMMA LapseStep ==
    ASSUME StreamTypeOK, NEW k \in Ids, Lapse(k)
    PROVE  Edited(k) /\ Becoming(k, stream[k].state, stream[k].hint)
<1> DEFINE e == [stream[k] EXCEPT !.late = TRUE]
<1>1. stream' = [stream EXCEPT ![k] = e]
  BY DEF Lapse, StreamTypeOK
<1>2. e \in Entries
  <2>1. stream[k] \in Entries
    BY EntryTyped
  <2> QED
    BY <2>1 DEF Entries
<1>3. e.job = stream[k].job /\ e.passes = stream[k].passes
      /\ e.requeues = stream[k].requeues /\ e.failures = stream[k].failures
  BY EntryTyped DEF Entries
<1>4. e.state = stream[k].state /\ e.hint = stream[k].hint
  BY EntryTyped DEF Entries
<1> HIDE DEF e
<1> QED
  BY <1>1, <1>2, <1>3, <1>4, EditIs DEF Lapse

-----------------------------------------------------------------------------
\* A new entry at the end of the stream.
NewId == Len(stream) + 1

Appended(e) ==
    /\ stream' \in Seq(Entries) /\ DOMAIN stream' = DOMAIN stream \cup {NewId}
    /\ NewId \notin DOMAIN stream
    /\ stream'[NewId] = e /\ e \in Entries
    /\ e.state = "new" /\ e.hint = NoWorker

\* The replacement of k, which is acknowledged with it.
Replacing(k, e) ==
    /\ Pending(k)
    /\ Appended(e)
    /\ \A n \in Ids : n # k => stream'[n] = stream[n]
    /\ stream'[k].job = stream[k].job /\ stream'[k].passes = stream[k].passes
    /\ stream'[k].requeues = stream[k].requeues /\ stream'[k].failures = stream[k].failures
    /\ Becoming(k, "acked", NoWorker)
    /\ e.job = stream[k].job
    /\ sent' = [sent EXCEPT ![stream[k].job] = @ + 1]

LEMMA AddStep ==
    ASSUME StreamTypeOK, NEW j \in Jobs, AddJob(j)
    PROVE  /\ Appended(Submitted(j))
           /\ \A n \in Ids : stream'[n] = stream[n]
           /\ Submitted(j).job = j /\ Submitted(j).passes = 0
           /\ Submitted(j).requeues = 0 /\ Submitted(j).failures = 0
<1>1. Submitted(j) \in Entries
  BY DEF Submitted, Entries
<1> QED
  BY <1>1, AppendTyped DEF AddJob, StreamTypeOK, Appended, NewId, Ids, Submitted

LEMMA ReplaceStep ==
    ASSUME StreamTypeOK, NEW k \in Ids, Pending(k), NEW e \in Entries,
           Replace(k, e), e.job = stream[k].job, e.state = "new", e.hint = NoWorker
    PROVE  Replacing(k, e)
<1> DEFINE a == [stream[k] EXCEPT !.state = "acked", !.owner = NoWorker, !.hint = NoWorker]
           t == [stream EXCEPT ![k] = a]
<1>1. Acked(k) = t
  BY DEF Acked, Gone, StreamTypeOK
<1>2. a \in Entries /\ a.state = "acked" /\ a.hint = NoWorker
  BY EntryTyped DEF Entries
<1>3. a.job = stream[k].job /\ a.passes = stream[k].passes
      /\ a.requeues = stream[k].requeues /\ a.failures = stream[k].failures
  BY EntryTyped DEF Entries
<1> HIDE DEF a
<1>4. t \in Seq(Entries) /\ DOMAIN t = DOMAIN stream /\ Len(t) = Len(stream)
      /\ t[k] = a /\ \A n \in DOMAIN stream : n # k => t[n] = stream[n]
  BY <1>2, EditTyped DEF StreamTypeOK, Ids
<1> HIDE DEF t
<1>5. stream' = Append(t, e) /\ sent' = [sent EXCEPT ![stream[k].job] = @ + 1]
  BY <1>1 DEF Replace, Replaced
<1>6. /\ stream' \in Seq(Entries) /\ DOMAIN stream' = DOMAIN stream \cup {NewId}
      /\ \A n \in DOMAIN stream : stream'[n] = t[n]
      /\ stream'[NewId] = e /\ NewId \notin DOMAIN stream
  BY <1>4, <1>5, AppendTyped DEF NewId
<1> QED
  BY <1>2, <1>3, <1>4, <1>5, <1>6 DEF Replacing, Appended, Becoming, Ids

-----------------------------------------------------------------------------
\* The four retries of the handoff, with what each does to the counters.
Recounted(k, e, p, r, f) ==
    /\ e.passes = stream[k].passes + p
    /\ e.requeues = stream[k].requeues + r
    /\ e.failures = stream[k].failures + f

Saved(k) == recovered' = [recovered EXCEPT ![stream[k].job] = @ + 1]

Retried(k, e) ==
    /\ Replacing(k, e)
    /\ \/ stream[k].passes < MaxAffinity /\ Recounted(k, e, 1, 0, 0) /\ UNCHANGED recovered
       \/ stream[k].requeues < MaxRequeue /\ Recounted(k, e, 0, 1, 0) /\ UNCHANGED recovered
       \/ stream[k].failures < MaxRequeue /\ Recounted(k, e, 0, 1, 1) /\ UNCHANGED recovered
       \/ Recounted(k, e, 0, 0, 0) /\ Saved(k)

LEMMA RequeuedTyped ==
    ASSUME StreamTypeOK, NEW k \in Ids
    PROVE  /\ Requeued(k) \in Entries
           /\ Requeued(k).job = stream[k].job /\ Requeued(k).state = "new"
           /\ Requeued(k).hint = NoWorker /\ Recounted(k, Requeued(k), 0, 0, 0)
<1>1. stream[k] \in Entries
  BY EntryTyped
<1>2. Requeued(k) \in Entries
  BY <1>1 DEF Requeued, Entries
<1>3. Requeued(k).job = stream[k].job /\ Requeued(k).state = "new" /\ Requeued(k).hint = NoWorker
  BY <1>1 DEF Requeued, Entries
<1>4. Requeued(k).passes = stream[k].passes /\ Requeued(k).requeues = stream[k].requeues
      /\ Requeued(k).failures = stream[k].failures
  BY <1>1 DEF Requeued, Entries
<1> QED
  BY <1>2, <1>3, <1>4, EntryTyped DEF Recounted

LEMMA BounceStep ==
    ASSUME StreamTypeOK, NEW k \in Ids, Pending(k), stream[k].passes < MaxAffinity, BounceEntry(k)
    PROVE  \E e \in Entries : Retried(k, e)
<1> DEFINE q == Requeued(k)
           e == [q EXCEPT !.passes = @ + 1]
<1>1. q \in Entries /\ q.job = stream[k].job /\ q.state = "new" /\ q.hint = NoWorker
      /\ Recounted(k, q, 0, 0, 0)
  BY RequeuedTyped
<1>2. Replace(k, e) /\ UNCHANGED recovered
  BY DEF BounceEntry
<1> HIDE DEF q
<1>3. e \in Entries
  BY <1>1 DEF Entries
<1>4. e.job = stream[k].job /\ e.state = "new" /\ e.hint = NoWorker
  BY <1>1 DEF Entries
<1>5. Recounted(k, e, 1, 0, 0)
  BY <1>1, EntryTyped DEF Recounted, Entries
<1> HIDE DEF e
<1> QED
  BY <1>2, <1>3, <1>4, <1>5, ReplaceStep DEF Retried

LEMMA MismatchStep ==
    ASSUME StreamTypeOK, NEW k \in Ids, Pending(k), stream[k].requeues < MaxRequeue, MismatchEntry(k)
    PROVE  \E e \in Entries : Retried(k, e)
<1> DEFINE q == Requeued(k)
           e == [q EXCEPT !.requeues = @ + 1]
<1>1. q \in Entries /\ q.job = stream[k].job /\ q.state = "new" /\ q.hint = NoWorker
      /\ Recounted(k, q, 0, 0, 0)
  BY RequeuedTyped
<1>2. Replace(k, e) /\ UNCHANGED recovered
  BY DEF MismatchEntry
<1> HIDE DEF q
<1>3. e \in Entries
  BY <1>1 DEF Entries
<1>4. e.job = stream[k].job /\ e.state = "new" /\ e.hint = NoWorker
  BY <1>1 DEF Entries
<1>5. Recounted(k, e, 0, 1, 0)
  BY <1>1, EntryTyped DEF Recounted, Entries
<1> HIDE DEF e
<1> QED
  BY <1>2, <1>3, <1>4, <1>5, ReplaceStep DEF Retried

LEMMA RetryStep ==
    ASSUME StreamTypeOK, NEW k \in Ids, Pending(k), stream[k].failures < MaxRequeue, RetryEntry(k)
    PROVE  \E e \in Entries : Retried(k, e)
<1> DEFINE q == Requeued(k)
           e == [q EXCEPT !.failures = @ + 1, !.requeues = @ + 1, !.late = FALSE]
<1>1. q \in Entries /\ q.job = stream[k].job /\ q.state = "new" /\ q.hint = NoWorker
      /\ Recounted(k, q, 0, 0, 0)
  BY RequeuedTyped
<1>2. Replace(k, e) /\ UNCHANGED recovered
  BY DEF RetryEntry
<1> HIDE DEF q
<1>3. e \in Entries
  <2> DEFINE a == [q EXCEPT !.failures = @ + 1]
             b == [a EXCEPT !.requeues = @ + 1]
             d == [b EXCEPT !.late = FALSE]
  <2>1. a \in Entries
    BY <1>1 DEF Entries
  <2>2. e = d
    BY <1>1 DEF Entries
  <2> HIDE DEF a
  <2>3. b \in Entries
    BY <2>1 DEF Entries
  <2> HIDE DEF b, e
  <2>4. d \in Entries
    BY <2>3 DEF Entries
  <2> QED
    BY <2>2, <2>4
<1>4. e.job = stream[k].job /\ e.state = "new" /\ e.hint = NoWorker
  BY <1>1 DEF Entries
<1>5. Recounted(k, e, 0, 1, 1)
  BY <1>1, EntryTyped DEF Recounted, Entries
<1> HIDE DEF e
<1> QED
  BY <1>2, <1>3, <1>4, <1>5, ReplaceStep DEF Retried

LEMMA RecoverStep ==
    ASSUME StreamTypeOK, NEW k \in Ids, Pending(k), RecoverEntry(k)
    PROVE  \E e \in Entries : Retried(k, e) /\ Saved(k)
BY RequeuedTyped, ReplaceStep DEF RecoverEntry, Retried, Saved

-----------------------------------------------------------------------------
\* The ways an entry changes in place: it is read, taken from an inbox,
\* acknowledged, routed, claimed or overtaken by its deadline.
EditedAs(k) ==
    /\ Edited(k)
    /\ \/ stream[k].state = "new" /\ Becoming(k, "pending", stream[k].hint)
       \/ Pending(k) /\ stream[k].hint # NoWorker
             /\ (Becoming(k, "pending", NoWorker) \/ Becoming(k, "expired", NoWorker))
       \/ Pending(k) /\ Becoming(k, "acked", NoWorker)
       \/ Pending(k) /\ \E w \in Workers : Becoming(k, "pending", w)
       \/ Live(k) /\ Becoming(k, stream[k].state, stream[k].hint)

Effect(k) ==
    \/ UNCHANGED streamVars
    \/ EditedAs(k)
    \/ \E e \in Entries : Retried(k, e)

\* No step gives an entry another job or revives a dead one.
Stable ==
    /\ \A n \in Ids : n \in Ids' /\ stream'[n].job = stream[n].job
    /\ \A j \in Jobs : sent[j] > 0 /\ Dead(j) => Dead(j)'
    /\ \A j \in Jobs : recovered[j] > 0 => recovered'[j] > 0

LEMMA AddKeeps ==
    ASSUME StreamTypeOK, StreamInv, NEW j \in Jobs, AddJob(j)
    PROVE  StreamTypeOK' /\ StreamInv' /\ Stable
<1> DEFINE e == Submitted(j)
<1>0. PICK m : m = NewId
  OBVIOUS
<1>1. /\ Appended(e) /\ \A n \in Ids : stream'[n] = stream[n]
      /\ e.job = j /\ e.passes = 0 /\ e.requeues = 0 /\ e.failures = 0
  BY AddStep
<1> HIDE DEF e
<1>2. sent[j] = 0 /\ sent' = [sent EXCEPT ![j] = 1] /\ recovered' = recovered
  BY DEF AddJob
<1>3. StreamTypeOK'
  BY <1>1, <1>2 DEF StreamTypeOK, Appended
<1>4. /\ sent \in [Jobs -> Nat] /\ recovered \in [Jobs -> Nat]
      /\ Ids' = Ids \cup {m} /\ m \notin Ids /\ stream'[m] = e
      /\ \A n \in Ids : stream[n].job \in Jobs /\ stream[n].job # j
  BY <1>0, <1>1, <1>2, EntryTyped DEF StreamTypeOK, Appended, Ids, StreamInv, Job
<1>5. \A n \in Ids : Live(n)' = Live(n) /\ Job(n)' = Job(n)
  BY <1>1 DEF Live, Job
<1>6. Job(m)' = j /\ e.state = "new" /\ e.hint = NoWorker
  BY <1>1, <1>4 DEF Job, Appended
<1>7. OneLiveDelivery'
  BY <1>4, <1>5, <1>6 DEF OneLiveDelivery, StreamInv, Job
<1>8. \A n \in Ids' : Counted(n)'
  <2>1. ASSUME NEW n \in Ids PROVE Counted(n)'
    BY <2>1, <1>1, <1>2, <1>4, <1>5 DEF Counted, StreamInv, Job
  <2>2. Counted(m)'
    BY <1>1, <1>2, <1>4, <1>6 DEF Counted, StreamInv
  <2> QED
    BY <2>1, <2>2, <1>4
<1>9. RetryBudget'
  BY <1>2, <1>4 DEF StreamInv, RetryBudget
<1>10. \A i \in Jobs : sent'[i] = 0 => recovered'[i] = 0 /\ \A n \in Ids' : Job(n)' # i
  BY <1>2, <1>4, <1>5, <1>6 DEF StreamInv
<1>11. \A i \in Jobs : i # j /\ Dead(i) => Dead(i)'
  BY <1>4, <1>5, <1>6 DEF Dead
<1>12. \A n \in Ids' : stream'[n].state = "expired" => Dead(Job(n))'
  <2>1. ASSUME NEW n \in Ids, stream'[n].state = "expired" PROVE Dead(Job(n))'
    <3>1. Job(n) # j /\ Job(n) \in Jobs /\ Dead(Job(n)) /\ Job(n)' = Job(n)
      BY <1>1, <1>4, <1>5, <2>1 DEF StreamInv, Job
    <3> QED
      BY <3>1, <1>11
  <2> QED
    BY <2>1, <1>4, <1>6
<1>13. \A n \in Ids' : stream'[n].state = "new" => stream'[n].hint = NoWorker
  BY <1>1, <1>4, <1>6 DEF StreamInv
<1>14. Stable
  BY <1>1, <1>2, <1>4, <1>11 DEF Stable, Job
<1> QED
  BY <1>3, <1>7, <1>8, <1>9, <1>10, <1>12, <1>13, <1>14 DEF StreamInv

LEMMA EditKeeps ==
    ASSUME StreamTypeOK, StreamInv, NEW k \in Ids, EditedAs(k)
    PROVE  StreamTypeOK' /\ StreamInv' /\ Stable
<1>1. /\ stream' \in Seq(Entries) /\ Ids' = Ids /\ sent' = sent /\ recovered' = recovered
      /\ \A n \in Ids : n # k => stream'[n] = stream[n]
      /\ stream'[k].job = stream[k].job /\ stream'[k].passes = stream[k].passes
      /\ stream'[k].requeues = stream[k].requeues /\ stream'[k].failures = stream[k].failures
  BY DEF EditedAs, Edited, Ids
<1>2. StreamTypeOK'
  BY <1>1 DEF StreamTypeOK
<1>3. \A n \in Ids : Job(n)' = Job(n) /\ Job(n) \in Jobs
  BY <1>1, EntryTyped DEF Job
<1>4. Live(k) /\ \A n \in Ids : Live(n)' => Live(n)
  BY <1>1 DEF EditedAs, Becoming, Live, Pending
<1>5. OneLiveDelivery' /\ RetryBudget'
  BY <1>1, <1>3, <1>4 DEF StreamInv, OneLiveDelivery, RetryBudget
<1>6. \A n \in Ids' : Counted(n)'
  <2>1. \A n \in Ids : n # k => Counted(n)'
    BY <1>1, <1>3, <1>4 DEF StreamInv, Counted
  <2>2. Counted(k)'
    BY <1>1, <1>3, <1>4 DEF StreamInv, Counted
  <2> QED
    BY <2>1, <2>2, <1>1
<1>7. \A i \in Jobs : sent'[i] = 0 => recovered'[i] = 0 /\ \A n \in Ids' : Job(n)' # i
  BY <1>1, <1>3 DEF StreamInv
<1>8. \A i \in Jobs : Dead(i) => Dead(i)'
  BY <1>1, <1>3, <1>4 DEF Dead
<1>9. \A n \in Ids' : stream'[n].state = "expired" => Dead(Job(n))'
  <2>1. ASSUME NEW n \in Ids, n # k, stream'[n].state = "expired" PROVE Dead(Job(n))'
    BY <1>1, <1>3, <1>8, <2>1 DEF StreamInv
  <2>2. ASSUME stream'[k].state = "expired" PROVE Dead(Job(k))'
    <3>1. ~Live(k)'
      BY <2>2 DEF Live
    <3>2. \A n \in Ids : Job(n) = Job(k) /\ Live(n) => n = k
      BY <1>4 DEF StreamInv, OneLiveDelivery
    <3> QED
      BY <3>1, <3>2, <1>1, <1>3, <1>4 DEF Dead
  <2> QED
    BY <2>1, <2>2, <1>1
<1>10. \A n \in Ids' : stream'[n].state = "new" => stream'[n].hint = NoWorker
  BY <1>1 DEF StreamInv, EditedAs, Becoming, Pending, Live
<1>11. Stable
  BY <1>1, <1>8 DEF Stable
<1> QED
  BY <1>2, <1>5, <1>6, <1>7, <1>9, <1>10, <1>11 DEF StreamInv

LEMMA RetryKeeps ==
    ASSUME StreamTypeOK, StreamInv, NEW k \in Ids, NEW e \in Entries, Retried(k, e)
    PROVE  StreamTypeOK' /\ StreamInv' /\ Stable
<1>0. PICK j, m : j = Job(k) /\ m = NewId
  OBVIOUS
<1>1. /\ Pending(k) /\ Replacing(k, e) /\ j \in Jobs /\ e.job = j
      /\ stream' \in Seq(Entries) /\ Ids' = Ids \cup {m} /\ m \notin Ids
      /\ stream'[m] = e /\ e.state = "new" /\ e.hint = NoWorker
      /\ \A n \in Ids : n # k => stream'[n] = stream[n]
      /\ sent' = [sent EXCEPT ![j] = @ + 1]
  BY <1>0, EntryTyped DEF Retried, Replacing, Appended, Ids, Job
<1>2. /\ stream'[k].job = stream[k].job /\ stream'[k].passes = stream[k].passes
      /\ stream'[k].requeues = stream[k].requeues /\ stream'[k].failures = stream[k].failures
      /\ stream'[k].state = "acked"
  BY <1>1 DEF Replacing, Becoming
<1>3. sent \in [Jobs -> Nat] /\ recovered \in [Jobs -> Nat]
  BY DEF StreamTypeOK
<1>4. recovered' = recovered \/ recovered' = [recovered EXCEPT ![j] = @ + 1]
  BY <1>0 DEF Retried, Saved, Job
<1>5. StreamTypeOK' /\ \A i \in Jobs : recovered[i] > 0 => recovered'[i] > 0
  <2>1. sent' \in [Jobs -> Nat]
    BY <1>1, <1>3
  <2>2. CASE recovered' = recovered
    BY <1>1, <1>3, <2>1, <2>2 DEF StreamTypeOK
  <2>3. CASE recovered' = [recovered EXCEPT ![j] = @ + 1]
    <3>1. recovered' \in [Jobs -> Nat] /\ recovered'[j] = recovered[j] + 1
          /\ \A i \in Jobs : i # j => recovered'[i] = recovered[i]
      BY <1>1, <1>3, <2>3
    <3>2. StreamTypeOK'
      BY <1>1, <2>1, <3>1 DEF StreamTypeOK
    <3>3. recovered[j] \in Nat
      BY <1>1, <1>3
    <3>4. \A i \in Jobs : recovered[i] > 0 => recovered'[i] > 0
      BY <3>1, <3>3
    <3> QED
      BY <3>2, <3>4
  <2> QED
    BY <1>4, <2>2, <2>3
<1>6. /\ \A n \in Ids : Job(n)' = Job(n) /\ Job(n) \in Jobs
      /\ Job(m)' = j
  BY <1>0, <1>1, <1>2, EntryTyped DEF Job
<1>7. Live(k) /\ ~Live(k)' /\ Live(m)' /\ \A n \in Ids : Live(n)' => Live(n)
  BY <1>1, <1>2 DEF Live, Pending
<1>8. \A n \in Ids : Job(n) = j => ~Live(n)'
  BY <1>0, <1>1, <1>7 DEF StreamInv, OneLiveDelivery
<1>9. OneLiveDelivery'
  BY <1>1, <1>6, <1>7, <1>8 DEF StreamInv, OneLiveDelivery
<1>10. Counted(k) /\ stream[k].passes \in Nat /\ stream[k].requeues \in Nat /\ stream[k].failures \in Nat
  BY EntryTyped DEF StreamInv
<1>11. sent[j] = 1 + recovered[j] + stream[k].passes + stream[k].requeues
  BY <1>0, <1>7, <1>10 DEF Counted
<1>12. /\ e.passes <= MaxAffinity /\ e.failures <= MaxRequeue
       /\ e.requeues <= MaxRequeue + e.failures
       /\ sent'[j] = 1 + recovered'[j] + e.passes + e.requeues
       /\ e.passes \in Nat /\ e.requeues \in Nat /\ e.failures \in Nat
       /\ recovered'[j] \in Nat
  <2>1. sent'[j] = sent[j] + 1
    BY <1>1, <1>3
  <2>2. /\ stream[k].passes <= MaxAffinity /\ stream[k].failures <= MaxRequeue
        /\ stream[k].requeues <= MaxRequeue + stream[k].failures
    BY <1>10 DEF Counted
  <2>3. recovered[j] \in Nat /\ sent[j] \in Nat /\ recovered'[j] \in Nat
    BY <1>1, <1>3, <1>5 DEF StreamTypeOK
  <2>4. e.passes \in Nat /\ e.requeues \in Nat /\ e.failures \in Nat
    BY DEF Entries
  <2>5. CASE stream[k].passes < MaxAffinity /\ Recounted(k, e, 1, 0, 0) /\ UNCHANGED recovered
    BY <1>10, <1>11, <2>1, <2>2, <2>3, <2>4, <2>5 DEF Recounted
  <2>6. CASE stream[k].requeues < MaxRequeue /\ Recounted(k, e, 0, 1, 0) /\ UNCHANGED recovered
    BY <1>10, <1>11, <2>1, <2>2, <2>3, <2>4, <2>6 DEF Recounted
  <2>7. CASE stream[k].failures < MaxRequeue /\ Recounted(k, e, 0, 1, 1) /\ UNCHANGED recovered
    BY <1>10, <1>11, <2>1, <2>2, <2>3, <2>4, <2>7 DEF Recounted
  <2>8. CASE Recounted(k, e, 0, 0, 0) /\ Saved(k)
    <3>1. recovered'[j] = recovered[j] + 1
      BY <1>0, <1>1, <1>3, <2>8 DEF Saved, Job
    <3> QED
      BY <1>10, <1>11, <2>1, <2>2, <2>3, <2>4, <2>8, <3>1 DEF Recounted
  <2> QED
    BY <2>5, <2>6, <2>7, <2>8 DEF Retried
<1>13. \A n \in Ids' : Counted(n)'
  <2>1. ASSUME NEW n \in Ids, n # k PROVE Counted(n)'
    <3>1. stream'[n] = stream[n] /\ Counted(n) /\ Job(n)' = Job(n) /\ Job(n) \in Jobs
      BY <1>1, <1>6, <2>1 DEF StreamInv
    <3>2. CASE Job(n) = j
      BY <1>8, <3>1, <3>2 DEF Counted
    <3>3. CASE Job(n) # j
      <4>1. sent'[Job(n)] = sent[Job(n)] /\ recovered'[Job(n)] = recovered[Job(n)]
        BY <1>1, <1>3, <1>4, <3>1, <3>3
      <4> QED
        BY <1>7, <3>1, <4>1, <2>1 DEF Counted
    <3> QED
      BY <3>2, <3>3
  <2>2. Counted(k)'
    BY <1>2, <1>7, <1>10 DEF Counted
  <2>3. Counted(m)'
    BY <1>1, <1>6, <1>12 DEF Counted
  <2> QED
    BY <2>1, <2>2, <2>3, <1>1
<1>14. RetryBudget'
  <2>1. ASSUME NEW i \in Jobs, i # j
        PROVE  sent'[i] <= 1 + recovered'[i] + MaxAffinity + 2 * MaxRequeue
    BY <1>1, <1>3, <1>4, <2>1 DEF StreamInv, RetryBudget
  <2>2. sent'[j] <= 1 + recovered'[j] + MaxAffinity + 2 * MaxRequeue
    BY <1>12
  <2> QED
    BY <2>1, <2>2 DEF RetryBudget
<1>15. \A i \in Jobs : sent'[i] = 0 => recovered'[i] = 0 /\ \A n \in Ids' : Job(n)' # i
  <2>1. sent'[j] # 0
    BY <1>12
  <2> QED
    BY <2>1, <1>1, <1>3, <1>4, <1>6 DEF StreamInv
<1>16. \A i \in Jobs : Dead(i) => Dead(i)'
  <2>1. ~Dead(j)
    BY <1>0, <1>7 DEF Dead
  <2> QED
    BY <2>1, <1>1, <1>6, <1>7 DEF Dead
<1>17. \A n \in Ids' : stream'[n].state = "expired" => Dead(Job(n))'
  <2>1. ASSUME NEW n \in Ids, n # k, stream'[n].state = "expired" PROVE Dead(Job(n))'
    BY <1>1, <1>6, <1>16, <2>1 DEF StreamInv
  <2> QED
    BY <2>1, <1>1, <1>2
<1>18. \A n \in Ids' : stream'[n].state = "new" => stream'[n].hint = NoWorker
  BY <1>1, <1>2 DEF StreamInv
<1>19. Stable
  BY <1>1, <1>2, <1>5, <1>16 DEF Stable
<1> QED
  BY <1>5, <1>9, <1>13, <1>14, <1>15, <1>17, <1>18, <1>19 DEF StreamInv

LEMMA EffectKeeps ==
    ASSUME StreamTypeOK, StreamInv, NEW k \in Ids, Effect(k)
    PROVE  StreamTypeOK' /\ StreamInv' /\ Stable
<1>1. CASE UNCHANGED streamVars
  BY <1>1 DEF streamVars, StreamTypeOK, StreamInv, Stable, OneLiveDelivery, RetryBudget, Counted,
              Dead, Live, Job, Ids
<1> QED
  BY <1>1, EditKeeps, RetryKeeps DEF Effect

-----------------------------------------------------------------------------
HeldBy(r) == {r.job, r.current, r.slot, r.poller} \ {None}

\* What a step may do to an entry that another connection holds.
Kept(n) ==
    /\ stream'[n].state # "new" /\ stream'[n].hint = NoWorker
    /\ stream'[n].state = stream[n].state \/ recovered'[Job(n)] > 0

LEMMA HandlerTyped ==
    ASSUME TypeOK, NEW c \in Conns
    PROVE  /\ conn[c] \in Handlers
           /\ conn[c].step \in {"off"} \cup Loop \cup Cleanup
           /\ conn[c].job \in Nat /\ conn[c].current \in Nat
           /\ conn[c].slot \in Nat /\ conn[c].poller \in Nat
           /\ conn[c].peers \subseteq Workers
BY DEF TypeOK, Handlers

LEMMA BecomesTyped ==
    ASSUME TypeOK, NEW c \in Conns, NEW r \in Handlers, Becomes(c, r)
    PROVE  /\ conn' \in [Conns -> Handlers] /\ conn'[c] = r
           /\ \A d \in Conns : d # c => conn'[d] = conn[d]
BY DEF TypeOK, Becomes

LEMMA OtherKept ==
    ASSUME StreamTypeOK, StreamInv, NEW d \in Conns, ConnInv(d), StreamTypeOK', Stable,
           conn'[d] = conn[d], \A n \in Holding(d) : Kept(n)
    PROVE  ConnInv(d)'
<1>1. /\ Holding(d)' = Holding(d) /\ \A s : At(d, s)' <=> At(d, s)
      /\ Holding(d) \subseteq Ids
  BY DEF Holding, At, ConnInv, PlacesInv
<1>2. \A n \in Ids : n \in Ids' /\ Job(n)' = Job(n) /\ Job(n) \in Jobs /\ sent[Job(n)] > 0
  <2>1. \A n \in Ids : Job(n) \in Jobs /\ sent[Job(n)] \in Nat
    BY EntryTyped DEF Job, StreamTypeOK
  <2> QED
    BY <2>1 DEF Stable, StreamInv, Job
<1>3. PlacesInv(d)'
  BY <1>1, <1>2 DEF ConnInv, PlacesInv
<1>4. HeldInv(d)'
  BY <1>1 DEF HeldInv, Kept
<1>5. \A n \in Holding(d) : Unrecovered(n)' => Unrecovered(n) /\ stream'[n].state = stream[n].state
  <2>1. \A n \in Holding(d) : recovered[Job(n)] \in Nat
    BY <1>1, <1>2 DEF StreamTypeOK
  <2> QED
    BY <1>1, <1>2, <2>1 DEF Unrecovered, Kept, Stable
<1>6. WorkInv(d)'
  <2>1. WorkInv(d)
    BY DEF ConnInv
  <2>2. \A n \in {conn[d].slot, conn[d].poller} \ {None} : n \in Holding(d)
    BY DEF Holding
  <2>3. conn[d].step \in Before \cup After => conn[d].job \in Holding(d)
    BY DEF ConnInv, PlacesInv, Holding
  <2>4. \A n \in {conn'[d].slot, conn'[d].poller} \ {None} :
          Unrecovered(n)' /\ ~At(d, "closingSlot")' => stream'[n].state \in {"pending", "expired"}
    BY <1>1, <1>5, <2>1, <2>2 DEF WorkInv
  <2>5. At(d, "fetched")' /\ Unrecovered(conn[d].job)' =>
          stream'[conn[d].job].state \in {"pending", "expired"}
    BY <1>1, <1>5, <2>1, <2>3 DEF WorkInv, At, Before
  <2>6. conn[d].step \in Chosen \cup {"running"} /\ Unrecovered(conn[d].job)' => Pending(conn[d].job)'
    BY <1>1, <1>5, <2>1, <2>3 DEF WorkInv, Before, Chosen, After, Pending
  <2> QED
    BY <2>4, <2>5, <2>6 DEF WorkInv, Unrecovered
<1>7. \A n \in Ids : Dead(Job(n)) => Dead(Job(n))'
  BY <1>2 DEF Stable
<1>8. LastWord(d)'
  BY <1>1, <1>2, <1>7 DEF LastWord, ConnInv, PlacesInv, At, After
<1> QED
  BY <1>3, <1>4, <1>6, <1>8 DEF ConnInv

-----------------------------------------------------------------------------
\* The effects of what connections do to an entry.  Outlives(k): a reader of
\* the entry still finds it read and in no inbox.
Outlives(k) == stream[k].state # "new" /\ stream[k].hint = NoWorker
                  => stream'[k].state # "new" /\ stream'[k].hint = NoWorker

LEMMA RetriedEffect ==
    ASSUME NEW k \in Ids, NEW e \in Entries, Retried(k, e)
    PROVE  Effect(k) /\ Outlives(k) /\ stream'[k].state = "acked" /\ stream'[k].hint = NoWorker
BY DEF Effect, Outlives, Retried, Replacing, Becoming

LEMMA EditedDies ==
    ASSUME StreamTypeOK, StreamInv, NEW k \in Ids, Pending(k), Edited(k), ~Live(k)'
    PROVE  Dead(Job(k))'
<1>1. Ids' = Ids /\ Job(k)' = Job(k) /\ \A n \in Ids : n # k => stream'[n] = stream[n]
  BY DEF Edited, Ids, Job
<1>2. \A n \in Ids : Job(n) = Job(k) /\ Live(n) => n = k
  BY DEF StreamInv, OneLiveDelivery, Live, Pending
<1> QED
  BY <1>1, <1>2 DEF Dead, Job, Live

LEMMA AckEffect ==
    ASSUME StreamTypeOK, StreamInv, NEW k \in Ids, Ack(k)
    PROVE  Effect(k) /\ Outlives(k) /\ (Pending(k) => Dead(Job(k))')
<1>1. CASE Pending(k) /\ Edited(k) /\ Becoming(k, "acked", NoWorker)
  <2>1. ~Live(k)'
    BY <1>1 DEF Becoming, Live
  <2> QED
    BY <1>1, <2>1, EditedDies DEF Effect, EditedAs, Outlives, Becoming
<1>2. CASE ~Pending(k) /\ UNCHANGED streamVars
  BY <1>2 DEF Effect, Outlives, streamVars
<1> QED
  BY <1>1, <1>2, AckStep

LEMMA ReadEffect ==
    ASSUME StreamTypeOK, NEW k \in Ids, NEW w \in Workers, ReadNew(k, w)
    PROVE  Effect(k) /\ stream[k].state = "new" /\ Becoming(k, "pending", stream[k].hint)
BY ReadStep DEF Effect, EditedAs

LEMMA TakeEffect ==
    ASSUME StreamTypeOK, NEW k \in Ids, NEW w \in Workers, TakeRouted(k, w)
    PROVE  /\ Effect(k) /\ stream[k].hint # NoWorker
           /\ Becoming(k, "pending", NoWorker) \/ Becoming(k, "expired", NoWorker)
BY TakeStep DEF Effect, EditedAs, Owned

LEMMA RouteEffect ==
    ASSUME StreamTypeOK, NEW k \in Ids, NEW w \in Workers, Pending(k), RouteEntry(k, w)
    PROVE  Effect(k)
BY RouteStep DEF Effect, EditedAs, Pending, Becoming

\* The reclaimer and the clock leave an entry to its holder, except for a
\* recovery, which counts.
LEMMA BackgroundKept ==
    ASSUME TypeOK, NEW d \in Conns, HeldInv(d), NEW n \in Holding(d), NEW k \in Ids, n \in Ids,
           ClaimStale(k) \/ Lapse(k) \/ (Pending(k) /\ RecoverEntry(k))
    PROVE  Effect(k) /\ Kept(n)
<1> StreamTypeOK
  BY DEF TypeOK
<1>1. stream[n].state # "new" /\ stream[n].hint = NoWorker
  BY DEF HeldInv
<1>2. CASE ClaimStale(k) \/ Lapse(k)
  <2>1. Edited(k) /\ Becoming(k, stream[k].state, stream[k].hint) /\ Live(k)
    BY <1>2, ClaimStep, LapseStep DEF ClaimStale, Lapse, Live, Pending
  <2> QED
    BY <1>1, <2>1 DEF Effect, EditedAs, Edited, Becoming, Kept
<1>3. CASE Pending(k) /\ RecoverEntry(k)
  <2>1. PICK e \in Entries : Retried(k, e) /\ Saved(k)
    BY <1>3, RecoverStep
  <2>2. CASE n = k
    <3>1. Job(k) \in Jobs /\ recovered[Job(k)] \in Nat
      BY EntryTyped DEF Job, StreamTypeOK
    <3>2. recovered'[Job(k)] = recovered[Job(k)] + 1
      BY <2>1, <3>1 DEF Saved, Job, StreamTypeOK
    <3> QED
      BY <2>1, <2>2, <3>1, <3>2, RetriedEffect DEF Kept
  <2>3. CASE n # k
    BY <1>1, <2>1, <2>3, RetriedEffect DEF Retried, Replacing, Kept
  <2> QED
    BY <2>2, <2>3
<1> QED
  BY <1>2, <1>3

\* An effect on an entry nobody else holds spares what the others hold.
LEMMA EffectSpares ==
    ASSUME TypeOK, NEW d \in Conns, HeldInv(d), NEW n \in Holding(d), NEW k \in Ids, n \in Ids,
           n # k, Effect(k)
    PROVE  Kept(n) /\ stream'[n] = stream[n]
<1>1. stream'[n] = stream[n]
  BY DEF Effect, EditedAs, Edited, Retried, Replacing, streamVars
<1> QED
  BY <1>1 DEF HeldInv, Kept

-----------------------------------------------------------------------------
\* A step of connection c, with an effect on k or none, leaves the others'
\* part of the invariant alone.
OwnMove(c, k, r) ==
    /\ r \in Handlers /\ Becomes(c, r)
    /\ UNCHANGED streamVars \/ (k \in Ids /\ Effect(k))
    /\ \A d \in Conns \ {c} : k \notin Holding(d)
    /\ HeldBy(r) \subseteq Holding(c) \cup {k}

LEMMA OwnStep ==
    ASSUME DispatchInv, NEW c \in Conns, NEW k, NEW r, OwnMove(c, k, r)
    PROVE  /\ StreamTypeOK' /\ StreamInv' /\ Stable /\ HeldOnce'
           /\ conn' \in [Conns -> Handlers] /\ conn'[c] = r
           /\ \A d \in Conns \ {c} : ConnInv(d)'
           /\ \A n \in Holding(c) : n # k => stream'[n] = stream[n]
<1>1. TypeOK /\ StreamTypeOK /\ StreamInv /\ HeldOnce /\ \A d \in Conns : ConnInv(d)
  BY DEF DispatchInv, TypeOK
<1>2. StreamTypeOK' /\ StreamInv' /\ Stable
  <2>1. CASE UNCHANGED streamVars
    BY <1>1, <2>1 DEF streamVars, StreamTypeOK, StreamInv, Stable, OneLiveDelivery, RetryBudget,
                      Counted, Dead, Live, Job, Ids
  <2>2. CASE k \in Ids /\ Effect(k)
    BY <1>1, <2>2, EffectKeeps
  <2> QED
    BY <2>1, <2>2 DEF OwnMove
<1>3. conn' \in [Conns -> Handlers] /\ conn'[c] = r /\ \A d \in Conns : d # c => conn'[d] = conn[d]
  BY <1>1, BecomesTyped DEF OwnMove
<1>4. Holding(c)' = HeldBy(r) /\ \A d \in Conns : d # c => Holding(d)' = Holding(d)
  BY <1>3 DEF Holding, HeldBy
<1>5. HeldOnce'
  BY <1>1, <1>4 DEF HeldOnce, OwnMove
<1>6. \A d \in Conns : HeldInv(d) /\ Holding(d) \subseteq Ids
  BY <1>1 DEF ConnInv, PlacesInv, Holding
<1>7. \A d \in Conns : \A n \in Holding(d) : n # k => Kept(n) /\ stream'[n] = stream[n]
  <2>1. CASE UNCHANGED streamVars
    BY <1>6, <2>1 DEF streamVars, HeldInv, Kept
  <2>2. CASE k \in Ids /\ Effect(k)
    BY <1>1, <1>6, <2>2, EffectSpares
  <2> QED
    BY <2>1, <2>2 DEF OwnMove
<1>8. ASSUME NEW d \in Conns \ {c} PROVE ConnInv(d)'
  <2>1. \A n \in Holding(d) : Kept(n)
    BY <1>7 DEF OwnMove
  <2> QED
    BY <1>1, <1>2, <1>3, <2>1, OtherKept
<1> QED
  BY <1>2, <1>3, <1>5, <1>7, <1>8

-----------------------------------------------------------------------------
ProtocolInv ==
    /\ StreamTypeOK /\ StreamInv /\ HeldOnce /\ conn \in [Conns -> Handlers]
    /\ \A d \in Conns : ConnInv(d)

LEMMA OwnDone ==
    ASSUME DispatchInv, NEW c \in Conns, NEW k, NEW r, OwnMove(c, k, r), ConnInv(c)'
    PROVE  ProtocolInv'
BY OwnStep DEF ProtocolInv

\* Steps that only rearrange what the connection holds.
Rearranged(c, r) ==
    /\ UNCHANGED streamVars /\ Becomes(c, r) /\ r \in Handlers
    /\ HeldBy(r) \subseteq Holding(c)

LEMMA RearrangedMove ==
    ASSUME DispatchInv, NEW c \in Conns, NEW r, Rearranged(c, r)
    PROVE  /\ OwnMove(c, None, r) /\ stream' = stream /\ recovered' = recovered
           /\ conn'[c] = r /\ HeldInv(c)' /\ ConnInv(c)
BY OwnStep, ZenonT(60) DEF Rearranged, OwnMove, Holding, HeldBy, HeldInv, streamVars, DispatchInv, ConnInv

LEMMA PrefetchSafe ==
    ASSUME DispatchInv, NEW c \in Conns, Prefetch(c)
    PROVE  ProtocolInv'
<1> DEFINE h == conn[c]
           r == [h EXCEPT !.slot = h.poller, !.poller = None]
<1>1. h \in Handlers /\ ConnInv(c) /\ h.step \in Loop
  BY HandlerTyped DEF DispatchInv, Prefetch
<1>2. r \in Handlers /\ r.step = h.step /\ r.job = h.job /\ r.current = h.current
      /\ r.slot = h.poller /\ r.poller = None /\ h.poller # None
  BY <1>1 DEF Handlers, None, Prefetch
<1>3. Becomes(c, r) /\ UNCHANGED streamVars
  BY DEF Prefetch
<1> HIDE DEF r
<1>4. Rearranged(c, r)
  BY <1>2, <1>3 DEF Rearranged, HeldBy, Holding
<1>5. conn'[c] = r /\ stream' = stream /\ recovered' = recovered /\ HeldInv(c)' /\ OwnMove(c, None, r)
  BY <1>4, RearrangedMove
<1>6. PlacesInv(c)'
  BY <1>1, <1>2, <1>5 DEF ConnInv, PlacesInv, At, Holding, Ids
<1>7. WorkInv(c)'
  BY <1>1, <1>2, <1>5 DEF ConnInv, WorkInv, At, Unrecovered, Pending, Job, Loop
<1>8. LastWord(c)'
  BY <1>1, <1>2, <1>5 DEF ConnInv, LastWord, At, Dead, Live, Job, Ids, Loop
<1> QED
  BY <1>5, <1>6, <1>7, <1>8, OwnDone DEF ConnInv

LEMMA TakeSafe ==
    ASSUME DispatchInv, NEW c \in Conns, Take(c)
    PROVE  ProtocolInv'
<1> DEFINE h == conn[c]
           r == [h EXCEPT !.step = "fetched", !.job = h.slot, !.slot = None]
<1>1. h \in Handlers /\ ConnInv(c) /\ h.step = "idle" /\ h.slot # None
  BY HandlerTyped DEF DispatchInv, Take, At
<1>2. r \in Handlers /\ r.step = "fetched" /\ r.job = h.slot /\ r.current = h.current
      /\ r.slot = None /\ r.poller = h.poller
  BY <1>1 DEF Handlers, None, Loop
<1>3. Becomes(c, r) /\ UNCHANGED streamVars
  BY DEF Take
<1> HIDE DEF r
<1>4. Rearranged(c, r)
  BY <1>2, <1>3 DEF Rearranged, HeldBy, Holding
<1>5. conn'[c] = r /\ stream' = stream /\ recovered' = recovered /\ HeldInv(c)' /\ OwnMove(c, None, r)
  BY <1>4, RearrangedMove
<1>6. PlacesInv(c)'
  BY <1>1, <1>2, <1>5 DEF ConnInv, PlacesInv, At, Holding, Ids, Before, After
<1>7. WorkInv(c)'
  BY <1>1, <1>2, <1>5 DEF ConnInv, WorkInv, At, Unrecovered, Pending, Job, Chosen, Before
<1>8. LastWord(c)'
  BY <1>1, <1>2, <1>5 DEF ConnInv, LastWord, At
<1> QED
  BY <1>5, <1>6, <1>7, <1>8, OwnDone DEF ConnInv

-----------------------------------------------------------------------------
\* The ways the loop moves on with the delivery it took, k = conn[c].job.
LEMMA JobHeld ==
    ASSUME DispatchInv, NEW c \in Conns, conn[c].step \in Before \cup After
    PROVE  /\ conn[c].job \in Holding(c) /\ conn[c].job \in Ids
           /\ stream[conn[c].job].state # "new" /\ stream[conn[c].job].hint = NoWorker
           /\ \A d \in Conns \ {c} : conn[c].job \notin Holding(d)
           /\ conn[c].slot # conn[c].job /\ conn[c].poller # conn[c].job
           /\ StreamTypeOK /\ StreamInv /\ ConnInv(c) /\ conn[c] \in Handlers /\ TypeOK
<1>1. TypeOK /\ StreamInv /\ HeldOnce /\ ConnInv(c) /\ StreamTypeOK
  BY DEF DispatchInv, TypeOK
<1>2. conn[c].job # None /\ conn[c].job \in Holding(c)
  BY <1>1 DEF ConnInv, PlacesInv, Holding
<1> QED
  BY <1>1, <1>2, HandlerTyped DEF ConnInv, PlacesInv, HeldInv, HeldOnce

\* What a connection holds keeps its job, and recoveries are not forgotten.
LEMMA LoopFacts ==
    ASSUME DispatchInv, NEW c \in Conns, Stable, StreamTypeOK', NEW n \in Holding(c)
    PROVE  /\ n \in Ids /\ n \in Ids' /\ Job(n)' = Job(n) /\ Job(n) \in Jobs
           /\ (Unrecovered(n)' => Unrecovered(n))
           /\ (Dead(Job(n)) => Dead(Job(n))')
<1>1. TypeOK /\ StreamTypeOK /\ StreamInv /\ ConnInv(c)
  BY DEF DispatchInv, TypeOK
<1>2. n \in Ids
  BY <1>1 DEF ConnInv, PlacesInv, Holding
<1>3. Job(n) \in Jobs /\ n \in Ids' /\ Job(n)' = Job(n)
  BY <1>1, <1>2, EntryTyped DEF Job, Stable
<1>4. sent[Job(n)] \in Nat /\ recovered[Job(n)] \in Nat /\ sent[Job(n)] # 0
  BY <1>1, <1>2, <1>3 DEF StreamTypeOK, StreamInv
<1>5. Dead(Job(n)) => Dead(Job(n))'
  BY <1>3, <1>4 DEF Stable
<1> QED
  BY <1>2, <1>3, <1>4, <1>5 DEF Stable, Unrecovered

\* It puts the delivery away.
LEMMA PutAwaySafe ==
    ASSUME DispatchInv, NEW c \in Conns, conn[c].step \in Before \cup After,
           NEW r \in Handlers, Becomes(c, r), r.step = "idle", r.job = None,
           r.current \in {conn[c].current, None}, r.slot = conn[c].slot, r.poller = conn[c].poller,
           \/ UNCHANGED streamVars
           \/ Effect(conn[c].job) /\ (Outlives(conn[c].job) \/ conn[c].step \in Before)
    PROVE  ProtocolInv'
<1> DEFINE h == conn[c]
           k == conn[c].job
<1>1. /\ k \in Holding(c) /\ k \in Ids /\ stream[k].state # "new" /\ stream[k].hint = NoWorker
      /\ \A d \in Conns \ {c} : k \notin Holding(d)
      /\ h.slot # k /\ h.poller # k /\ ConnInv(c) /\ h \in Handlers
  BY JobHeld
<1>2. h.step \in Before => h.current # k
  BY <1>1 DEF ConnInv, PlacesInv
<1>4. OwnMove(c, k, r)
  BY <1>1 DEF OwnMove, HeldBy, Holding
<1>5. /\ conn'[c] = r /\ Stable /\ StreamTypeOK'
      /\ \A n \in Holding(c) : n # k => stream'[n] = stream[n]
  BY <1>4, OwnStep
<1>6. r.current = k => stream'[k].state # "new" /\ stream'[k].hint = NoWorker
  BY <1>1, <1>2 DEF Outlives, streamVars, Holding
<1>7. PlacesInv(c)'
  BY <1>1, <1>5 DEF ConnInv, PlacesInv, At, Holding, Stable, Before, After, Cleanup
<1>8. HeldInv(c)'
  BY <1>1, <1>5, <1>6 DEF ConnInv, HeldInv, Holding
<1>9. \A n \in Holding(c) : Unrecovered(n)' => Unrecovered(n)
  BY <1>5, LoopFacts
<1>10. WorkInv(c)'
  BY <1>1, <1>5, <1>9 DEF ConnInv, WorkInv, At, Holding, Chosen, Before, After
<1>11. LastWord(c)'
  BY <1>5 DEF LastWord, At
<1> QED
  BY <1>4, <1>7, <1>8, <1>10, <1>11, OwnDone DEF ConnInv

LEMMA FinishSafe ==
    ASSUME DispatchInv, NEW c \in Conns, conn[c].step \in Before \cup After, Finish(c),
           \/ UNCHANGED streamVars
           \/ Effect(conn[c].job) /\ (Outlives(conn[c].job) \/ conn[c].step \in Before)
    PROVE  ProtocolInv'
<1> DEFINE r == [conn[c] EXCEPT !.step = "idle", !.job = None, !.peers = {}]
<1>1. conn[c] \in Handlers
  BY JobHeld
<1>2. r \in Handlers /\ r.step = "idle" /\ r.job = None /\ r.current = conn[c].current
      /\ r.slot = conn[c].slot /\ r.poller = conn[c].poller
  BY <1>1 DEF Handlers, None, Loop
<1>3. Becomes(c, r)
  BY DEF Finish
<1> HIDE DEF r
<1> QED
  BY <1>2, <1>3, PutAwaySafe

\* It ends it, by a verdict or without one.
LEMMA EndSafe ==
    ASSUME DispatchInv, NEW c \in Conns, conn[c].step \in Before \cup {"running"},
           NEW s \in {"closing", "failing"}, GoTo(c, s),
           UNCHANGED streamVars \/ (Effect(conn[c].job) /\ Outlives(conn[c].job)),
           s = "closing" => Dead(Job(conn[c].job))'
    PROVE  ProtocolInv'
<1> DEFINE h == conn[c]
           k == conn[c].job
           r == [h EXCEPT !.step = s]
<1>1. /\ k \in Holding(c) /\ k \in Ids /\ stream[k].state # "new" /\ stream[k].hint = NoWorker
      /\ \A d \in Conns \ {c} : k \notin Holding(d)
      /\ h.slot # k /\ h.poller # k /\ ConnInv(c) /\ h \in Handlers
  BY JobHeld DEF After
<1>2. r \in Handlers /\ r.step = s /\ r.job = k /\ r.current = h.current
      /\ r.slot = h.slot /\ r.poller = h.poller
  BY <1>1 DEF Handlers, None, Loop
<1>3. Becomes(c, r)
  BY DEF GoTo
<1> HIDE DEF r
<1>4. OwnMove(c, k, r)
  BY <1>1, <1>2, <1>3 DEF OwnMove, HeldBy, Holding
<1>5. /\ conn'[c] = r /\ Stable /\ StreamTypeOK'
      /\ \A n \in Holding(c) : n # k => stream'[n] = stream[n]
  BY <1>4, OwnStep
<1>6. stream'[k].state # "new" /\ stream'[k].hint = NoWorker
  BY <1>1 DEF Outlives, streamVars
<1>7. PlacesInv(c)'
  BY <1>1, <1>2, <1>5 DEF ConnInv, PlacesInv, At, Holding, Stable, Before, After, Cleanup
<1>8. HeldInv(c)'
  BY <1>1, <1>2, <1>5, <1>6 DEF ConnInv, HeldInv, Holding
<1>9. \A n \in Holding(c) : Unrecovered(n)' => Unrecovered(n)
  BY <1>5, LoopFacts
<1>10. WorkInv(c)'
  BY <1>1, <1>2, <1>5, <1>9 DEF ConnInv, WorkInv, At, Holding, Chosen, Before, After
<1>11. LastWord(c)'
  BY <1>2, <1>5 DEF LastWord, At
<1> QED
  BY <1>4, <1>7, <1>8, <1>10, <1>11, OwnDone DEF ConnInv

\* It turns to the next question about it.
LEMMA TurnSafe ==
    ASSUME DispatchInv, NEW c \in Conns, conn[c].step \in Before, UNCHANGED streamVars,
           NEW r \in Handlers, Becomes(c, r), r.step \in Chosen, r.job = conn[c].job,
           r.current = conn[c].current, r.slot = conn[c].slot, r.poller = conn[c].poller,
           Unrecovered(conn[c].job) => Pending(conn[c].job)
    PROVE  ProtocolInv'
<1>1. ConnInv(c)
  BY DEF DispatchInv
<1>2. Rearranged(c, r)
  BY DEF Rearranged, HeldBy, Holding
<1>3. /\ conn'[c] = r /\ stream' = stream /\ recovered' = recovered /\ HeldInv(c)'
      /\ OwnMove(c, None, r)
  BY <1>2, RearrangedMove
<1>4. PlacesInv(c)'
  BY <1>1, <1>3 DEF ConnInv, PlacesInv, At, Holding, Ids, Chosen, Before, After
<1>5. WorkInv(c)'
  BY <1>1, <1>3 DEF ConnInv, WorkInv, At, Unrecovered, Pending, Job, Chosen, Before
<1>6. LastWord(c)'
  BY <1>3 DEF LastWord, At, Chosen, Before
<1> QED
  BY <1>3, <1>4, <1>5, <1>6, OwnDone DEF ConnInv

LEMMA GoSafe ==
    ASSUME DispatchInv, NEW c \in Conns, conn[c].step \in Before, UNCHANGED streamVars,
           NEW s \in Chosen, GoTo(c, s), Unrecovered(conn[c].job) => Pending(conn[c].job)
    PROVE  ProtocolInv'
<1> DEFINE r == [conn[c] EXCEPT !.step = s]
<1>1. conn[c] \in Handlers
  BY HandlerTyped DEF DispatchInv
<1>2. r \in Handlers /\ r.step = s /\ r.job = conn[c].job /\ r.current = conn[c].current
      /\ r.slot = conn[c].slot /\ r.poller = conn[c].poller
  BY <1>1 DEF Handlers, Chosen, Before, Loop
<1> HIDE DEF r
<1> QED
  BY <1>2, TurnSafe DEF GoTo, r

\* It sends the delivery to its worker, or finds that the worker cannot run it.
LEMMA DispatchSafe ==
    ASSUME DispatchInv, NEW c \in Conns, conn[c].step \in Chosen, UNCHANGED streamVars, Dispatch(c)
    PROVE  ProtocolInv'
<1> DEFINE h == conn[c]
           k == conn[c].job
           r == [h EXCEPT !.step = "running", !.current = k]
<1>1. /\ k \in Holding(c) /\ h.slot # k /\ h.poller # k /\ ConnInv(c) /\ h \in Handlers
  BY JobHeld DEF Chosen
<1>2. Unrecovered(k) => Pending(k)
  BY <1>1 DEF ConnInv, WorkInv
<1>3. CASE GoTo(c, "mismatched")
  BY <1>2, <1>3, GoSafe DEF Chosen, Before
<1>4. CASE Becomes(c, r)
  <2>1. r \in Handlers /\ r.step = "running" /\ r.job = k /\ r.current = k
        /\ r.slot = h.slot /\ r.poller = h.poller
    BY <1>1 DEF Handlers, Loop
  <2> HIDE DEF r
  <2>2. Rearranged(c, r)
    BY <1>4, <2>1 DEF Rearranged, HeldBy, Holding
  <2>3. /\ conn'[c] = r /\ stream' = stream /\ recovered' = recovered /\ HeldInv(c)'
        /\ OwnMove(c, None, r)
    BY <2>2, RearrangedMove
  <2>4. PlacesInv(c)'
    BY <1>1, <2>1, <2>3 DEF ConnInv, PlacesInv, At, Holding, Ids, Chosen, Before, After
  <2>5. WorkInv(c)'
    BY <1>1, <1>2, <2>1, <2>3 DEF ConnInv, WorkInv, At, Unrecovered, Pending, Job, Chosen, Before
  <2>6. LastWord(c)'
    BY <2>1, <2>3 DEF LastWord, At
  <2> QED
    BY <2>3, <2>4, <2>5, <2>6, OwnDone DEF ConnInv
<1> QED
  BY <1>3, <1>4 DEF Dispatch
-----------------------------------------------------------------------------
\* The steps of the loop.
LEMMA WorkFacts ==
    ASSUME DispatchInv, NEW c \in Conns, conn[c].step \in Chosen \cup {"running"},
           Unrecovered(conn[c].job)
    PROVE  Pending(conn[c].job)
BY DEF DispatchInv, ConnInv, WorkInv

\* The two ways an own delivery changes under its handler.
LEMMA OwnEffects ==
    ASSUME DispatchInv, NEW k \in Ids
    PROVE  /\ Ack(k) => Effect(k) /\ Outlives(k) /\ (Pending(k) => Dead(Job(k))')
           /\ Pending(k) /\ stream[k].passes < MaxAffinity /\ BounceEntry(k) => Effect(k) /\ Outlives(k)
           /\ Pending(k) /\ stream[k].requeues < MaxRequeue /\ MismatchEntry(k) => Effect(k) /\ Outlives(k)
           /\ Pending(k) /\ stream[k].failures < MaxRequeue /\ RetryEntry(k) => Effect(k) /\ Outlives(k)
<1>1. StreamTypeOK /\ StreamInv
  BY DEF DispatchInv, TypeOK
<1> QED
  BY <1>1, AckEffect, BounceStep, MismatchStep, RetryStep, RetriedEffect

LEMMA RecheckSafe ==
    ASSUME DispatchInv, NEW c \in Conns, Recheck(c)
    PROVE  ProtocolInv'
<1> DEFINE k == conn[c].job
<1>1. conn[c].step = "fetched" /\ conn[c].step \in Before
  BY DEF Recheck, At, Before
<1>2. k \in Ids /\ StreamTypeOK /\ StreamInv /\ ConnInv(c) /\ conn[c] \in Handlers
  BY <1>1, JobHeld
<1>3. CASE stream[k].state = "expired" /\ GoTo(c, "closing") /\ UNCHANGED streamVars
  <2>1. Dead(Job(k))
    BY <1>2, <1>3 DEF StreamInv
  <2>2. conn'[c].job = k
    BY <1>2, <1>3, HandlerTyped DEF GoTo, Becomes, DispatchInv, TypeOK, Handlers
  <2>3. Dead(Job(k))'
    BY <2>1, <2>2, <1>3 DEF Dead, Job, Live, Ids, streamVars
  <2> QED
    BY <1>1, <1>3, <2>3, EndSafe
<1>4. CASE stream[k].state # "expired" /\ GoTo(c, "targeting") /\ UNCHANGED streamVars
  <2>1. Unrecovered(k) => Pending(k)
    BY <1>1, <1>2, <1>4 DEF ConnInv, WorkInv, At, Pending
  <2> QED
    BY <1>1, <1>4, <2>1, GoSafe DEF Chosen, Before
<1>5. CASE Finish(c) /\ UNCHANGED streamVars
  BY <1>1, <1>5, FinishSafe
<1>6. CASE Owned(k, WorkerOf[c]) /\ Ack(k) /\ GoTo(c, "closing")
  <2>1. conn'[c].job = k
    BY <1>2, <1>6 DEF GoTo, Becomes, DispatchInv, TypeOK, Handlers
  <2>2. Effect(k) /\ Outlives(k) /\ Dead(Job(k))'
    BY <1>2, <1>6, <2>1, OwnEffects DEF Owned
  <2> QED
    BY <1>1, <1>6, <2>2, EndSafe
<1> QED
  BY <1>3, <1>4, <1>5, <1>6 DEF Recheck

LEMMA ChooseSafe ==
    ASSUME DispatchInv, NEW c \in Conns, Choose(c)
    PROVE  ProtocolInv'
<1>1. conn[c].step \in Before /\ conn[c].step \in Chosen
  BY DEF Choose, At, Chosen, Before
<1>2. Unrecovered(conn[c].job) => Pending(conn[c].job)
  BY <1>1, WorkFacts
<1>3. UNCHANGED streamVars
  BY DEF Choose
<1>4. ASSUME NEW s \in {"bouncing", "unserved"}, GoTo(c, s) PROVE ProtocolInv'
  BY <1>1, <1>2, <1>3, <1>4, GoSafe DEF Chosen, Before
<1> QED
  BY <1>1, <1>3, <1>4, DispatchSafe DEF Choose

LEMMA BounceSafe ==
    ASSUME DispatchInv, NEW c \in Conns, Bounce(c)
    PROVE  ProtocolInv'
<1> DEFINE k == conn[c].job
<1>1. conn[c].step \in Before /\ conn[c].step \in Chosen /\ k \in Ids
  <2>1. conn[c].step \in Before /\ conn[c].step \in Chosen
    BY DEF Bounce, At, Chosen, Before
  <2> QED
    BY <2>1, JobHeld
<1>2. Unrecovered(k) => Pending(k)
  BY <1>1, WorkFacts
<1>3. CASE Finish(c) /\ UNCHANGED streamVars
  BY <1>1, <1>3, FinishSafe
<1>4. CASE Pending(k) /\ stream[k].passes < MaxAffinity /\ BounceEntry(k) /\ Finish(c)
  BY <1>1, <1>4, FinishSafe, OwnEffects
<1>5. CASE UNCHANGED streamVars /\ GoTo(c, "unserved")
  BY <1>1, <1>2, <1>5, GoSafe DEF Chosen, Before
<1>6. CASE UNCHANGED streamVars /\ Dispatch(c)
  BY <1>1, <1>6, DispatchSafe
<1> QED
  BY <1>3, <1>4, <1>5, <1>6 DEF Bounce, Owned

LEMMA UnservedSafe ==
    ASSUME DispatchInv, NEW c \in Conns, Unserved(c) \/ FailsVisibly(c)
    PROVE  ProtocolInv'
<1>1. conn[c].step \in Before \cup {"running"} /\ conn[c].job \in Ids
  <2>1. conn[c].step \in Before \cup {"running"}
    BY DEF Unserved, FailsVisibly, At, Before
  <2> QED
    BY <2>1, JobHeld DEF After
<1>2. Ack(conn[c].job) /\ GoTo(c, "failing")
  BY DEF Unserved, FailsVisibly
<1> QED
  BY <1>1, <1>2, OwnEffects, EndSafe

LEMMA FindPeersSafe ==
    ASSUME DispatchInv, NEW c \in Conns, FindPeers(c)
    PROVE  ProtocolInv'
<1> DEFINE r == [conn[c] EXCEPT !.step = "routing", !.peers = {w \in online : Compatible(c, w)}]
<1>1. conn[c] \in Handlers /\ online \subseteq Workers
  BY HandlerTyped DEF DispatchInv, TypeOK
<1>2. r \in Handlers /\ r.step = "routing" /\ r.job = conn[c].job /\ r.current = conn[c].current
      /\ r.slot = conn[c].slot /\ r.poller = conn[c].poller
  BY <1>1 DEF Handlers, Loop
<1>3. Becomes(c, r) /\ UNCHANGED streamVars /\ conn[c].step = "mismatched"
  BY DEF FindPeers, At
<1> HIDE DEF r
<1> QED
  BY <1>2, <1>3, WorkFacts, TurnSafe DEF Chosen, Before

\* A verdict on a pending delivery ends it.
LEMMA VerdictSafe ==
    ASSUME DispatchInv, NEW c \in Conns, conn[c].step \in Before \cup {"running"},
           Pending(conn[c].job), Ack(conn[c].job), GoTo(c, "closing")
    PROVE  ProtocolInv'
<1> DEFINE k == conn[c].job
<1>1. k \in Ids
  BY JobHeld DEF After
<1>2. conn'[c].job = k
  BY HandlerTyped DEF GoTo, Becomes, DispatchInv, TypeOK, Handlers
<1>3. Effect(k) /\ Outlives(k) /\ Dead(Job(k))'
  BY <1>1, <1>2, OwnEffects
<1> QED
  BY <1>3, EndSafe

LEMMA RouteSafe ==
    ASSUME DispatchInv, NEW c \in Conns, NEW w \in Workers, RouteTo(c, w)
    PROVE  ProtocolInv'
<1> DEFINE k == conn[c].job
<1>1. conn[c].step = "routing" /\ conn[c].step \in Before /\ conn[c].step \in Chosen
      /\ w \in conn[c].peers
  BY DEF RouteTo, At, Chosen, Before
<1>2. k \in Ids /\ StreamTypeOK /\ conn[c] \in Handlers
  BY <1>1, JobHeld
<1>3. CASE Finish(c) /\ UNCHANGED streamVars
  BY <1>1, <1>3, FinishSafe
<1>4. CASE Owned(k, WorkerOf[c]) /\ Ack(k) /\ GoTo(c, "closing")
  BY <1>1, <1>4, VerdictSafe DEF Owned
<1>5. CASE Owned(k, WorkerOf[c]) /\ RouteEntry(k, w) /\ Finish(c)
  BY <1>1, <1>2, <1>5, RouteEffect, FinishSafe DEF Owned
<1>6. CASE Becomes(c, [conn[c] EXCEPT !.peers = @ \ {w}]) /\ UNCHANGED streamVars
  <2> DEFINE r == [conn[c] EXCEPT !.peers = @ \ {w}]
  <2>1. r \in Handlers /\ r.step = "routing" /\ r.job = k /\ r.current = conn[c].current
        /\ r.slot = conn[c].slot /\ r.poller = conn[c].poller
    BY <1>1, <1>2 DEF Handlers
  <2>2. Becomes(c, r)
    BY <1>6
  <2> HIDE DEF r
  <2> QED
    BY <1>1, <1>6, <2>1, <2>2, WorkFacts, TurnSafe
<1> QED
  BY <1>3, <1>4, <1>5, <1>6 DEF RouteTo

LEMMA MismatchSafe ==
    ASSUME DispatchInv, NEW c \in Conns, Mismatch(c)
    PROVE  ProtocolInv'
<1> DEFINE k == conn[c].job
<1>1. conn[c].step \in Before
  BY DEF Mismatch, At, Before
<1>2. k \in Ids
  BY <1>1, JobHeld
<1>3. CASE Finish(c) /\ UNCHANGED streamVars
  BY <1>1, <1>3, FinishSafe
<1>4. CASE Pending(k) /\ stream[k].requeues < MaxRequeue /\ MismatchEntry(k) /\ Finish(c)
  BY <1>1, <1>2, <1>4, OwnEffects, FinishSafe
<1>5. CASE Pending(k) /\ Ack(k) /\ GoTo(c, "closing")
  BY <1>1, <1>5, VerdictSafe
<1> QED
  BY <1>3, <1>4, <1>5 DEF Mismatch, Owned

LEMMA SucceedsSafe ==
    ASSUME DispatchInv, NEW c \in Conns, Succeeds(c)
    PROVE  ProtocolInv'
<1> DEFINE h == conn[c]
           r == [h EXCEPT !.step = "acking", !.current = None]
<1>1. h.step = "running" /\ ConnInv(c) /\ h \in Handlers /\ Becomes(c, r) /\ UNCHANGED streamVars
  BY HandlerTyped DEF DispatchInv, Succeeds, At
<1>2. r \in Handlers /\ r.step = "acking" /\ r.job = h.job /\ r.current = None
      /\ r.slot = h.slot /\ r.poller = h.poller
  BY <1>1 DEF Handlers, None, Loop
<1> HIDE DEF r
<1>3. Rearranged(c, r)
  BY <1>1, <1>2 DEF Rearranged, HeldBy, Holding
<1>4. conn'[c] = r /\ stream' = stream /\ recovered' = recovered /\ HeldInv(c)' /\ OwnMove(c, None, r)
  BY <1>3, RearrangedMove
<1>5. PlacesInv(c)'
  BY <1>1, <1>2, <1>4 DEF ConnInv, PlacesInv, At, Holding, Ids, Before, After
<1>6. WorkInv(c)'
  BY <1>1, <1>2, <1>4 DEF ConnInv, WorkInv, At, Unrecovered, Job, Chosen, Before
<1>7. LastWord(c)'
  BY <1>2, <1>4 DEF LastWord, At
<1> QED
  BY <1>4, <1>5, <1>6, <1>7, OwnDone DEF ConnInv

LEMMA SettleFailsSafe ==
    ASSUME DispatchInv, NEW c \in Conns, SettleFails(c)
    PROVE  ProtocolInv'
BY FinishSafe DEF SettleFails, At, After

LEMMA AckPaidSafe ==
    ASSUME DispatchInv, NEW c \in Conns, AckPaid(c)
    PROVE  ProtocolInv'
<1>1. conn[c].step \in After
  BY DEF AckPaid, At, After
<1>2. conn[c].job \in Ids
  BY <1>1, JobHeld
<1> QED
  BY <1>1, <1>2, OwnEffects, FinishSafe DEF AckPaid

LEMMA FailsEmptySafe ==
    ASSUME DispatchInv, NEW c \in Conns, FailsEmpty(c)
    PROVE  ProtocolInv'
<1> DEFINE h == conn[c]
           k == conn[c].job
           r == [h EXCEPT !.step = "idle", !.job = None, !.current = None]
<1>1. h.step = "running" /\ h.step \in Before \cup {"running"} /\ h.step \in Before \cup After
  BY DEF FailsEmpty, At, After
<1>2. k \in Ids /\ h \in Handlers /\ StreamTypeOK
  BY <1>1, JobHeld
<1>3. CASE Becomes(c, r) /\ (UNCHANGED streamVars \/ (Effect(k) /\ Outlives(k)))
  <2>1. r \in Handlers /\ r.step = "idle" /\ r.job = None /\ r.current = None
        /\ r.slot = h.slot /\ r.poller = h.poller
    BY <1>2 DEF Handlers, None, Loop
  <2> HIDE DEF r
  <2> QED
    BY <1>1, <1>3, <2>1, PutAwaySafe
<1>4. CASE Pending(k) /\ Ack(k) /\ GoTo(c, "closing")
  BY <1>1, <1>4, VerdictSafe
<1>5. CASE Pending(k) /\ stream[k].failures < MaxGeneration /\ RetryEntry(k) /\ Becomes(c, r)
  <2>1. stream[k].failures < MaxRequeue
    BY <1>2, <1>5, EntryTyped
  <2> QED
    BY <1>2, <1>3, <1>5, <2>1, OwnEffects
<1> QED
  BY <1>3, <1>4, <1>5 DEF FailsEmpty

LEMMA ReleaseSafe ==
    ASSUME DispatchInv, NEW c \in Conns, Release(c)
    PROVE  ProtocolInv'
<1> DEFINE h == conn[c]
           n == IF h.current = h.job THEN None ELSE h.current
           r == [h EXCEPT !.step = "idle", !.job = None, !.peers = {}, !.current = n]
<1>1. h.step \in After
  BY DEF Release, After
<1>2. h \in Handlers
  BY <1>1, JobHeld
<1>3. Becomes(c, r) /\ UNCHANGED streamVars
  BY <1>2 DEF Release, Handlers
<1>4. n \in Nat /\ n \in {h.current, None}
  BY <1>2 DEF Handlers, None
<1> HIDE DEF n
<1>5. r \in Handlers /\ r.step = "idle" /\ r.job = None /\ r.current = n
      /\ r.slot = h.slot /\ r.poller = h.poller
  BY <1>2, <1>4 DEF Handlers, None, Loop
<1> HIDE DEF r
<1> QED
  BY <1>1, <1>3, <1>4, <1>5, PutAwaySafe

-----------------------------------------------------------------------------
\* The poller, and the ends of a connection.
LEMMA ConnectSafe ==
    ASSUME DispatchInv, NEW c \in Conns, Connect(c)
    PROVE  ProtocolInv'
<1> DEFINE h == conn[c]
           r == [h EXCEPT !.step = "idle"]
<1>1. h.step = "off" /\ ConnInv(c) /\ h \in Handlers /\ Becomes(c, r) /\ UNCHANGED streamVars
  BY HandlerTyped DEF DispatchInv, Connect, At, GoTo
<1>2. r \in Handlers /\ r.step = "idle" /\ r.job = h.job /\ r.current = h.current
      /\ r.slot = h.slot /\ r.poller = h.poller
  BY <1>1 DEF Handlers, Loop
<1> HIDE DEF r
<1>3. h.job = None /\ h.current = None /\ h.slot = None /\ h.poller = None
  BY <1>1 DEF ConnInv, PlacesInv, At, Holding
<1>4. Rearranged(c, r)
  BY <1>1, <1>2 DEF Rearranged, HeldBy, Holding
<1>5. conn'[c] = r /\ stream' = stream /\ recovered' = recovered /\ HeldInv(c)' /\ OwnMove(c, None, r)
  BY <1>4, RearrangedMove
<1>6. PlacesInv(c)'
  BY <1>2, <1>3, <1>5 DEF PlacesInv, At, Before, After
<1>7. WorkInv(c)'
  BY <1>2, <1>3, <1>5 DEF WorkInv, At, Chosen, Before
<1>8. LastWord(c)'
  BY <1>2, <1>5 DEF LastWord, At
<1> QED
  BY <1>5, <1>6, <1>7, <1>8, OwnDone DEF ConnInv

LEMMA PollsSafe ==
    ASSUME DispatchInv, NEW c \in Conns, NEW k \in Ids, Polls(c, k)
    PROVE  ProtocolInv'
<1> DEFINE h == conn[c]
           r == [h EXCEPT !.poller = k]
<1>1. /\ h.step \in Loop /\ h.poller = None /\ Becomes(c, r) /\ WorkerOf[c] \in Workers
      /\ TypeOK /\ StreamTypeOK /\ StreamInv /\ h \in Handlers
      /\ \A d \in Conns : ConnInv(d)
  BY HandlerTyped DEF DispatchInv, TypeOK, Polls
<1>2. /\ Effect(k) /\ (stream[k].state = "new" \/ stream[k].hint # NoWorker)
      /\ stream'[k].state \in {"pending", "expired"} /\ stream'[k].hint = NoWorker
  <2>1. CASE ReadNew(k, WorkerOf[c])
    BY <1>1, <2>1, ReadEffect DEF StreamInv, Becoming
  <2>2. CASE TakeRouted(k, WorkerOf[c])
    BY <1>1, <2>2, TakeEffect DEF Becoming
  <2> QED
    BY <2>1, <2>2 DEF Polls
<1>3. \A d \in Conns : k \notin Holding(d)
  BY <1>1, <1>2 DEF ConnInv, HeldInv
<1>4. k \in Nat /\ k # None
  BY <1>1, EntryTyped
<1>5. r \in Handlers /\ r.step = h.step /\ r.job = h.job /\ r.current = h.current
      /\ r.slot = h.slot /\ r.poller = k
  BY <1>1, <1>4 DEF Handlers
<1> HIDE DEF r
<1>6. OwnMove(c, k, r)
  BY <1>1, <1>2, <1>3, <1>5 DEF OwnMove, HeldBy, Holding
<1>7. /\ conn'[c] = r /\ Stable /\ StreamTypeOK'
      /\ \A n \in Holding(c) : stream'[n] = stream[n]
  BY <1>3, <1>6, OwnStep
<1>8. \A n \in Holding(c) : /\ Job(n)' = Job(n) /\ n \in Ids' /\ (Unrecovered(n)' => Unrecovered(n))
                            /\ (Dead(Job(n)) => Dead(Job(n))')
  BY <1>7, LoopFacts
<1>9. k \notin {h.job, h.current, h.slot}
  BY <1>3, <1>4 DEF Holding
<1>10. k \in Ids'
  BY <1>7 DEF Stable
<1>11. PlacesInv(c)'
  BY <1>1, <1>5, <1>7, <1>8, <1>9, <1>10 DEF ConnInv, PlacesInv, At, Holding, Loop, Cleanup
<1>12. HeldInv(c)'
  BY <1>1, <1>2, <1>5, <1>7 DEF ConnInv, HeldInv, Holding
<1>13. WorkInv(c)'
  <2>1. WorkInv(c) /\ (h.step \in Before \cup After => h.job \in Holding(c))
    BY <1>1 DEF ConnInv, PlacesInv, Holding
  <2>2. h.slot # None => h.slot \in Holding(c)
    BY DEF Holding
  <2>3. \A n \in {r.slot, r.poller} \ {None} :
          Unrecovered(n)' /\ r.step # "closingSlot" => stream'[n].state \in {"pending", "expired"}
    BY <1>2, <1>5, <1>7, <1>8, <2>1, <2>2 DEF WorkInv, At
  <2>4. r.step = "fetched" /\ Unrecovered(h.job)' => stream'[r.job].state \in {"pending", "expired"}
    BY <1>5, <1>7, <1>8, <2>1 DEF WorkInv, At, Before
  <2>5. r.step \in Chosen \cup {"running"} /\ Unrecovered(h.job)' => Pending(h.job)'
    BY <1>5, <1>7, <1>8, <2>1 DEF WorkInv, At, Before, After, Chosen, Pending
  <2> QED
    BY <1>5, <1>7, <2>3, <2>4, <2>5 DEF WorkInv, At, Unrecovered, Job, Pending
<1>14. LastWord(c)'
  BY <1>1, <1>5, <1>7, <1>8 DEF ConnInv, PlacesInv, LastWord, At, Holding, Loop, After
<1> QED
  BY <1>6, <1>11, <1>12, <1>13, <1>14, OwnDone DEF ConnInv

LEMMA DisconnectSafe ==
    ASSUME DispatchInv, NEW c \in Conns, Disconnect(c)
    PROVE  ProtocolInv'
<1> DEFINE h == conn[c]
           r == [h EXCEPT !.step = "requeueing", !.job = None, !.poller = None, !.peers = {}]
<1>1. h.step \in Loop /\ ConnInv(c) /\ h \in Handlers /\ Becomes(c, r) /\ UNCHANGED streamVars
  BY HandlerTyped DEF DispatchInv, Disconnect
<1>2. r \in Handlers /\ r.step = "requeueing" /\ r.job = None /\ r.current = h.current
      /\ r.slot = h.slot /\ r.poller = None
  BY <1>1 DEF Handlers, None, Cleanup
<1> HIDE DEF r
<1>3. Rearranged(c, r)
  BY <1>1, <1>2 DEF Rearranged, HeldBy, Holding
<1>4. conn'[c] = r /\ stream' = stream /\ recovered' = recovered /\ HeldInv(c)' /\ OwnMove(c, None, r)
  BY <1>3, RearrangedMove
<1>5. PlacesInv(c)'
  BY <1>1, <1>2, <1>4 DEF ConnInv, PlacesInv, At, Holding, Ids, Before, After
<1>6. WorkInv(c)'
  BY <1>1, <1>2, <1>4 DEF ConnInv, WorkInv, At, Unrecovered, Job, Chosen, Before, Loop
<1>7. LastWord(c)'
  BY <1>2, <1>4 DEF LastWord, At
<1> QED
  BY <1>4, <1>5, <1>6, <1>7, OwnDone DEF ConnInv

\* The cleanup after current_job: nothing is dispatched any more.
LEMMA CleanupFacts ==
    ASSUME DispatchInv, NEW c \in Conns, conn[c].step \in Cleanup
    PROVE  /\ TypeOK /\ StreamTypeOK /\ StreamInv /\ ConnInv(c) /\ conn[c] \in Handlers
           /\ conn[c].job = None
           /\ \A k \in Holding(c) : k \in Ids /\ \A d \in Conns \ {c} : k \notin Holding(d)
<1>1. TypeOK /\ StreamTypeOK /\ StreamInv /\ ConnInv(c) /\ conn[c] \in Handlers /\ HeldOnce
  BY HandlerTyped DEF DispatchInv, TypeOK
<1>2. conn[c].job = None
  BY <1>1 DEF ConnInv, PlacesInv, Cleanup, Before, After
<1> QED
  BY <1>1, <1>2 DEF ConnInv, PlacesInv, Holding, HeldOnce

LEMMA CurrentSafe ==
    ASSUME DispatchInv, NEW c \in Conns, NEW s \in {"draining", "closingCurrent"}, GoTo(c, s),
           conn[c].step \in {"requeueing", "closingCurrent"},
           \/ UNCHANGED streamVars
           \/ conn[c].current # None /\ Effect(conn[c].current) /\ Outlives(conn[c].current),
           s = "closingCurrent" => conn[c].current # None /\ Dead(Job(conn[c].current))'
    PROVE  ProtocolInv'
<1> DEFINE h == conn[c]
           k == conn[c].current
           r == [h EXCEPT !.step = s]
<1>1. /\ ConnInv(c) /\ h \in Handlers /\ h.job = None /\ h.step # "closingSlot"
      /\ \A n \in Holding(c) : n \in Ids /\ \A d \in Conns \ {c} : n \notin Holding(d)
  BY CleanupFacts DEF Cleanup
<1>2. r \in Handlers /\ r.step = s /\ r.job = None /\ r.current = k
      /\ r.slot = h.slot /\ r.poller = h.poller
  BY <1>1 DEF Handlers, Cleanup
<1>3. Becomes(c, r)
  BY DEF GoTo
<1> HIDE DEF r
<1>4. k # None => k \in Holding(c)
  BY DEF Holding
<1>5. OwnMove(c, k, r)
  <2>1. CASE k # None
    BY <1>1, <1>2, <1>3, <1>4, <2>1 DEF OwnMove, HeldBy, Holding
  <2>2. CASE k = None
    BY <1>1, <1>2, <1>3, <2>2 DEF OwnMove, HeldBy, Holding
  <2> QED
    BY <2>1, <2>2
<1>6. /\ conn'[c] = r /\ Stable /\ StreamTypeOK'
      /\ \A n \in Holding(c) : n # k => stream'[n] = stream[n]
  BY <1>5, OwnStep
<1>7. k # None => stream'[k].state # "new" /\ stream'[k].hint = NoWorker
  BY <1>1, <1>4 DEF ConnInv, HeldInv, Outlives, streamVars
<1>8. \A n \in Holding(c) : n \in Ids' /\ (Unrecovered(n)' => Unrecovered(n))
  BY <1>6, LoopFacts
<1>9. PlacesInv(c)'
  BY <1>1, <1>2, <1>6, <1>8 DEF ConnInv, PlacesInv, At, Holding, Before, After, Cleanup
<1>10. HeldInv(c)'
  BY <1>1, <1>2, <1>6, <1>7 DEF ConnInv, HeldInv, Holding
<1>11. \A n \in {h.slot, h.poller} \ {None} : n \in Holding(c) /\ n # k
  BY <1>1 DEF ConnInv, PlacesInv, Holding
<1>12. WorkInv(c)'
  BY <1>1, <1>2, <1>6, <1>8, <1>11 DEF ConnInv, WorkInv, At, Chosen, Before
<1>13. LastWord(c)'
  BY <1>2, <1>6 DEF LastWord, At
<1> QED
  BY <1>5, <1>9, <1>10, <1>12, <1>13, OwnDone DEF ConnInv

LEMMA RequeueCurrentSafe ==
    ASSUME DispatchInv, NEW c \in Conns, RequeueCurrent(c)
    PROVE  ProtocolInv'
<1> DEFINE k == conn[c].current
<1>1. conn[c].step = "requeueing" /\ conn[c].step \in Cleanup
  BY DEF RequeueCurrent, At, Cleanup
<1>2. k # None => k \in Ids
  BY <1>1, CleanupFacts DEF Holding
<1>3. CASE GoTo(c, "draining") /\ UNCHANGED streamVars
  BY <1>1, <1>3, CurrentSafe
<1>4. CASE k # None /\ Pending(k) /\ stream[k].failures < MaxRequeue /\ RetryEntry(k) /\ GoTo(c, "draining")
  BY <1>1, <1>2, <1>4, OwnEffects, CurrentSafe
<1>5. CASE k # None /\ Pending(k) /\ Ack(k) /\ GoTo(c, "closingCurrent")
  <2>1. conn'[c].current = k
    BY <1>5, HandlerTyped DEF GoTo, Becomes, DispatchInv, TypeOK, Handlers
  <2>2. Effect(k) /\ Outlives(k) /\ Dead(Job(k))'
    BY <1>2, <1>5, <2>1, OwnEffects
  <2> QED
    BY <1>1, <1>5, <2>2, CurrentSafe
<1> QED
  BY <1>3, <1>4, <1>5 DEF RequeueCurrent

LEMMA ReleaseCurrentSafe ==
    ASSUME DispatchInv, NEW c \in Conns, ReleaseCurrent(c)
    PROVE  ProtocolInv'
BY CurrentSafe DEF ReleaseCurrent, At

\* Nothing is left in a closed handler.
LEMMA ClosedSafe ==
    ASSUME DispatchInv, NEW c \in Conns, Becomes(c, Closed),
           \/ UNCHANGED streamVars
           \/ conn[c].slot # None /\ Effect(conn[c].slot)
    PROVE  ProtocolInv'
<1> DEFINE k == conn[c].slot
<1>1. /\ Closed \in Handlers /\ Closed.step = "off" /\ Closed.job = None /\ Closed.current = None
      /\ Closed.slot = None /\ Closed.poller = None
  BY DEF Closed, Handlers, None
<1>2. k # None => k \in Ids /\ \A d \in Conns \ {c} : k \notin Holding(d)
  BY DEF DispatchInv, ConnInv, PlacesInv, HeldOnce, Holding
<1>3. OwnMove(c, k, Closed)
  <2>1. CASE k # None
    BY <1>1, <1>2, <2>1 DEF OwnMove, HeldBy
  <2>2. CASE k = None
    BY <1>1, <2>2 DEF OwnMove, HeldBy, Holding
  <2> QED
    BY <2>1, <2>2
<1>4. conn'[c] = Closed
  BY <1>3, OwnStep
<1>5. ConnInv(c)'
  BY <1>1, <1>4 DEF ConnInv, PlacesInv, HeldInv, WorkInv, LastWord, Holding, At, Before, After, Chosen
<1> QED
  BY <1>3, <1>5, OwnDone

LEMMA DrainSafe ==
    ASSUME DispatchInv, NEW c \in Conns, Drain(c)
    PROVE  ProtocolInv'
<1> DEFINE h == conn[c]
           k == conn[c].slot
           r == [h EXCEPT !.step = "closingSlot"]
<1>1. h.step = "draining" /\ h.step \in Cleanup
  BY DEF Drain, At, Cleanup
<1>2. /\ TypeOK /\ ConnInv(c) /\ h \in Handlers /\ h.job = None
      /\ \A n \in Holding(c) : n \in Ids /\ \A d \in Conns \ {c} : n \notin Holding(d)
  BY <1>1, CleanupFacts
<1>3. k # None => k \in Holding(c) /\ k \in Ids
  BY <1>2 DEF Holding
<1>4. CASE Becomes(c, Closed) /\ UNCHANGED streamVars
  BY <1>4, ClosedSafe
<1>5. CASE k # None /\ Pending(k) /\ stream[k].failures < MaxRequeue /\ RetryEntry(k) /\ Becomes(c, Closed)
  BY <1>3, <1>5, OwnEffects, ClosedSafe
<1>6. CASE k # None /\ Pending(k) /\ Ack(k) /\ GoTo(c, "closingSlot")
  <2>1. Effect(k) /\ Outlives(k) /\ Dead(Job(k))'
    <3>1. conn'[c].slot = k
      BY <1>2, <1>6 DEF GoTo, Becomes, TypeOK, Handlers
    <3> QED
      BY <1>3, <1>6, <3>1, OwnEffects
  <2>2. r \in Handlers /\ r.step = "closingSlot" /\ r.job = None /\ r.current = h.current
        /\ r.slot = k /\ r.poller = h.poller
    BY <1>2 DEF Handlers, Cleanup
  <2>3. Becomes(c, r)
    BY <1>6 DEF GoTo
  <2> HIDE DEF r
  <2>4. OwnMove(c, k, r)
    BY <1>2, <1>3, <1>6, <2>1, <2>2, <2>3 DEF OwnMove, HeldBy, Holding
  <2>5. /\ conn'[c] = r /\ Stable /\ StreamTypeOK'
        /\ \A n \in Holding(c) : n # k => stream'[n] = stream[n]
    BY <2>4, OwnStep
  <2>6. stream'[k].state # "new" /\ stream'[k].hint = NoWorker
    BY <1>2, <1>3, <1>6, <2>1 DEF ConnInv, HeldInv, Outlives
  <2>7. \A n \in Holding(c) : n \in Ids' /\ (Unrecovered(n)' => Unrecovered(n))
    BY <2>5, LoopFacts
  <2>8. PlacesInv(c)'
    BY <1>2, <1>6, <2>2, <2>5, <2>7 DEF ConnInv, PlacesInv, At, Holding, Before, After
  <2>9. HeldInv(c)'
    BY <1>2, <2>2, <2>5, <2>6 DEF ConnInv, HeldInv, Holding
  <2>10. WorkInv(c)'
    BY <1>2, <2>2, <2>5 DEF WorkInv, At, Chosen, Before
  <2>11. LastWord(c)'
    BY <2>1, <2>2, <2>5 DEF LastWord, At
  <2> QED
    BY <2>4, <2>8, <2>9, <2>10, <2>11, OwnDone DEF ConnInv
<1> QED
  BY <1>4, <1>5, <1>6 DEF Drain

LEMMA EndsSafe ==
    ASSUME DispatchInv, NEW c \in Conns, ReleaseSlot(c) \/ Crash(c)
    PROVE  ProtocolInv'
BY ClosedSafe DEF ReleaseSlot, Crash

-----------------------------------------------------------------------------
\* Steps that move no connection.
LEMMA OthersDone ==
    ASSUME DispatchInv, UNCHANGED conn, StreamTypeOK', StreamInv', Stable,
           \A d \in Conns : \A n \in Holding(d) : Kept(n)
    PROVE  ProtocolInv'
<1>1. TypeOK /\ StreamTypeOK /\ StreamInv /\ HeldOnce /\ \A d \in Conns : ConnInv(d)
  BY DEF DispatchInv, TypeOK
<1>2. \A d \in Conns : ConnInv(d)'
  BY <1>1, OtherKept
<1>3. HeldOnce' /\ conn' \in [Conns -> Handlers]
  BY <1>1 DEF HeldOnce, Holding, TypeOK
<1> QED
  BY <1>2, <1>3 DEF ProtocolInv

LEMMA HeldFacts ==
    ASSUME DispatchInv, NEW d \in Conns, NEW n \in Holding(d)
    PROVE  n \in Ids /\ HeldInv(d) /\ stream[n].state # "new" /\ stream[n].hint = NoWorker
BY DEF DispatchInv, ConnInv, PlacesInv, HeldInv, Holding

LEMMA QuietSafe ==
    ASSUME DispatchInv, UNCHANGED <<streamVars, conn>>
    PROVE  ProtocolInv'
<1>1. StreamTypeOK /\ StreamInv /\ stream' = stream /\ sent' = sent /\ recovered' = recovered
  BY DEF DispatchInv, TypeOK, streamVars
<1>2. StreamTypeOK' /\ StreamInv' /\ Stable
  BY <1>1 DEF StreamTypeOK, StreamInv, Stable, OneLiveDelivery, RetryBudget, Counted, Dead, Live, Job, Ids
<1>3. \A d \in Conns : \A n \in Holding(d) : Kept(n)
  BY <1>1, HeldFacts DEF Kept
<1> QED
  BY <1>2, <1>3, OthersDone

LEMMA SubmitSafe ==
    ASSUME DispatchInv, NEW j \in Jobs, Submit(j)
    PROVE  ProtocolInv'
<1>1. StreamTypeOK /\ StreamInv
  BY DEF DispatchInv, TypeOK
<1>2. AddJob(j) /\ UNCHANGED conn
  BY DEF Submit, socketVars
<1>3. StreamTypeOK' /\ StreamInv' /\ Stable
  BY <1>1, <1>2, AddKeeps
<1>4. \A n \in Ids : stream'[n] = stream[n]
  BY <1>1, <1>2, AddStep
<1>5. \A d \in Conns : \A n \in Holding(d) : Kept(n)
  BY <1>4, HeldFacts DEF Kept
<1> QED
  BY <1>2, <1>3, <1>5, OthersDone

LEMMA BackgroundSafe ==
    ASSUME DispatchInv, NEW k \in Ids, Claim(k) \/ Recover(k) \/ LapseOne(k)
    PROVE  ProtocolInv'
<1>1. TypeOK /\ StreamTypeOK /\ StreamInv
  BY DEF DispatchInv, TypeOK
<1>2. UNCHANGED conn /\ (ClaimStale(k) \/ Lapse(k) \/ (Pending(k) /\ RecoverEntry(k)))
  BY DEF Claim, Recover, LapseOne, socketVars, Owned
<1>3. Effect(k)
  <2>1. CASE ClaimStale(k) \/ Lapse(k)
    BY <1>1, <2>1, ClaimStep, LapseStep DEF Effect, EditedAs, ClaimStale, Lapse, Live, Pending
  <2>2. CASE Pending(k) /\ RecoverEntry(k)
    BY <1>1, <2>2, RecoverStep DEF Effect
  <2> QED
    BY <1>2, <2>1, <2>2
<1>4. StreamTypeOK' /\ StreamInv' /\ Stable
  BY <1>1, <1>3, EffectKeeps
<1>5. \A d \in Conns : \A n \in Holding(d) : Kept(n)
  BY <1>1, <1>2, HeldFacts, BackgroundKept
<1> QED
  BY <1>2, <1>4, <1>5, OthersDone

-----------------------------------------------------------------------------
\* What is left of the type: the registry, the holds and the bounds.
RestTypeOK ==
    /\ online \subseteq Workers
    /\ hold \in [Jobs -> {"open", "charged", "released"}]
    /\ attempts \in [Jobs -> Nat]
    /\ slow \in Nat /\ outages \in Nat /\ drops \in Nat

LEMMA SettledTyped ==
    ASSUME RestTypeOK, NEW j, NEW how \in {"charged", "released"}
    PROVE  Settled(j, how) \in [Jobs -> {"open", "charged", "released"}]
BY DEF RestTypeOK, Settled

LEMMA AttemptTyped ==
    ASSUME RestTypeOK, NEW c \in Conns, Dispatch(c) \/ UNCHANGED attempts
    PROVE  attempts' \in [Jobs -> Nat]
<1>1. CASE UNCHANGED attempts
  BY <1>1 DEF RestTypeOK
<1>2. ASSUME NEW j, attempts' = [attempts EXCEPT ![j] = @ + 1]
      PROVE  attempts' \in [Jobs -> Nat]
  <2>1. CASE j \in Jobs
    BY <1>2, <2>1 DEF RestTypeOK
  <2>2. CASE j \notin Jobs
    BY <1>2, <2>2 DEF RestTypeOK
  <2> QED
    BY <2>1, <2>2
<1> QED
  BY <1>1, <1>2 DEF Dispatch

LEMMA RestTyped ==
    ASSUME RestTypeOK, Next
    PROVE  RestTypeOK'
<1>1. ASSUME NEW j \in Jobs, Submit(j) PROVE RestTypeOK'
  BY <1>1 DEF Submit, socketVars, RestTypeOK
<1>2. ASSUME NEW c \in Conns, Connect(c) \/ Take(c) \/ Refresh(c) \/ Disconnect(c)
      PROVE  RestTypeOK'
  <2>1. online' \subseteq Workers
    BY <1>2 DEF RestTypeOK, Connect, Take, Refresh, Disconnect
  <2>2. UNCHANGED <<hold, attempts, slow, outages>> /\ drops' \in Nat
    BY <1>2 DEF RestTypeOK, Connect, Take, Refresh, Disconnect
  <2> QED
    BY <2>1, <2>2 DEF RestTypeOK
<1>7. ASSUME NEW c \in Conns, Recheck(c) \/ Unserved(c) \/ FindPeers(c) \/ Prefetch(c)
      PROVE  RestTypeOK'
  BY <1>7 DEF RestTypeOK, Prefetch, Recheck, Unserved, FindPeers
<1>8. ASSUME NEW c \in Conns, NEW w \in Workers, RouteTo(c, w) PROVE RestTypeOK'
  BY <1>8 DEF RestTypeOK, RouteTo
<1>9. ASSUME NEW c \in Conns, NEW k \in Ids, Polls(c, k) PROVE RestTypeOK'
  BY <1>9 DEF RestTypeOK, Polls
<1>10. ASSUME NEW c \in Conns, Mismatch(c) \/ AckPaid(c) \/ FailsVisibly(c) \/ FailsEmpty(c)
      PROVE  RestTypeOK'
  BY <1>10 DEF RestTypeOK, Mismatch, AckPaid, FailsVisibly, FailsEmpty
<1>11. ASSUME NEW c \in Conns, RequeueCurrent(c) \/ Drain(c) \/ SettleFails(c) \/ Crash(c)
      PROVE  RestTypeOK'
  BY <1>11 DEF RestTypeOK, RequeueCurrent, Drain, SettleFails, Crash
<1>3. ASSUME NEW c \in Conns, Choose(c) \/ Bounce(c) PROVE RestTypeOK'
  <2>1. Dispatch(c) \/ UNCHANGED attempts
    BY <1>3 DEF Choose, Bounce
  <2>2. UNCHANGED <<online, hold, slow, outages, drops>>
    BY <1>3 DEF Choose, Bounce
  <2> QED
    BY <2>1, <2>2, AttemptTyped DEF RestTypeOK
<1>4. ASSUME NEW c \in Conns, Succeeds(c) \/ Release(c) \/ ReleaseCurrent(c) \/ ReleaseSlot(c)
      PROVE  RestTypeOK'
  <2>1. hold' \in [Jobs -> {"open", "charged", "released"}]
    BY <1>4, SettledTyped DEF Succeeds, Release, ReleaseCurrent, ReleaseSlot
  <2>2. UNCHANGED <<online, attempts, slow, outages, drops>>
    BY <1>4 DEF Succeeds, Release, ReleaseCurrent, ReleaseSlot
  <2> QED
    BY <2>1, <2>2 DEF RestTypeOK
<1>5. ASSUME NEW w \in Workers, RegistryExpires(w) PROVE RestTypeOK'
  BY <1>5 DEF RegistryExpires, RestTypeOK
<1>6. ASSUME NEW k \in Ids, Claim(k) \/ Recover(k) \/ LapseOne(k) PROVE RestTypeOK'
  BY <1>6 DEF Claim, Recover, LapseOne, socketVars, RestTypeOK
<1> QED
  BY <1>1, <1>2, <1>3, <1>4, <1>5, <1>6, <1>7, <1>8, <1>9, <1>10, <1>11
     DEF Next, ConnStep, LoopStep, CleanupStep

-----------------------------------------------------------------------------
LEMMA InitSafe == Init => DispatchInv
<1> SUFFICES ASSUME Init PROVE DispatchInv
  OBVIOUS
<1>1. /\ stream = <<>> /\ Ids = {} /\ sent = [j \in Jobs |-> 0] /\ recovered = [j \in Jobs |-> 0]
      /\ conn = [c \in Conns |-> Closed] /\ online = {}
      /\ hold = [j \in Jobs |-> "open"] /\ attempts = [j \in Jobs |-> 0]
      /\ slow = 0 /\ outages = 0 /\ drops = 0
  BY DEF Init, StreamInit, Ids
<1>2. /\ Closed \in Handlers /\ Closed.step = "off" /\ Closed.job = None /\ Closed.current = None
      /\ Closed.slot = None /\ Closed.poller = None
  BY DEF Closed, Handlers, None
<1>3. StreamTypeOK
  BY <1>1 DEF StreamTypeOK
<1>4. TypeOK
  BY <1>1, <1>2, <1>3 DEF TypeOK
<1>5. StreamInv
  BY <1>1 DEF StreamInv, OneLiveDelivery, RetryBudget
<1>6. \A c \in Conns : Holding(c) = {}
  BY <1>1, <1>2 DEF Holding
<1>7. ASSUME NEW c \in Conns PROVE ConnInv(c)
  <2>1. conn[c] = Closed
    BY <1>1
  <2> QED
    BY <1>2, <1>6, <2>1 DEF ConnInv, PlacesInv, HeldInv, WorkInv, LastWord, At, Before, After, Chosen
<1> QED
  BY <1>4, <1>5, <1>6, <1>7 DEF DispatchInv, HeldOnce

LEMMA ConnStepSafe ==
    ASSUME DispatchInv, NEW c \in Conns, ConnStep(c)
    PROVE  ProtocolInv'
<1>1. CASE LoopStep(c)
  BY <1>1, PrefetchSafe, TakeSafe, RecheckSafe, ChooseSafe, BounceSafe, UnservedSafe, FindPeersSafe,
     RouteSafe, MismatchSafe, SucceedsSafe, SettleFailsSafe, AckPaidSafe, FailsEmptySafe, ReleaseSafe
     DEF LoopStep
<1>2. CASE CleanupStep(c)
  BY <1>2, RequeueCurrentSafe, ReleaseCurrentSafe, DrainSafe, EndsSafe DEF CleanupStep
<1>3. CASE Refresh(c)
  BY <1>3, QuietSafe DEF Refresh
<1> QED
  BY <1>1, <1>2, <1>3, ConnectSafe, PollsSafe, DisconnectSafe, EndsSafe DEF ConnStep

LEMMA NextSafe == DispatchInv /\ [Next]_vars => DispatchInv'
<1> SUFFICES ASSUME DispatchInv, [Next]_vars PROVE DispatchInv'
  OBVIOUS
<1>1. CASE UNCHANGED vars
  <2>1. ProtocolInv'
    BY <1>1, QuietSafe DEF vars, socketVars
  <2>2. RestTypeOK'
    BY <1>1 DEF DispatchInv, TypeOK, RestTypeOK, vars, socketVars
  <2> QED
    BY <2>1, <2>2 DEF ProtocolInv, RestTypeOK, DispatchInv, TypeOK
<1>2. CASE Next
  <2>1. RestTypeOK'
    BY <1>2, RestTyped DEF DispatchInv, TypeOK, RestTypeOK
  <2>2. ASSUME NEW w \in Workers, RegistryExpires(w) PROVE ProtocolInv'
    BY <2>2, QuietSafe DEF RegistryExpires
  <2>3. ProtocolInv'
    BY <1>2, <2>2, SubmitSafe, ConnStepSafe, BackgroundSafe DEF Next
  <2> QED
    BY <2>1, <2>3 DEF ProtocolInv, RestTypeOK, DispatchInv, TypeOK
<1> QED
  BY <1>1, <1>2

(***************************************************************************)
(* The invariant of the dispatch holds in every reachable state, for any   *)
(* number of jobs, workers and connections and any limits: each handler    *)
(* step of worker_ws.py and each script of job_queue.py preserves it.      *)
(***************************************************************************)
THEOREM DispatchInductive == Spec => []DispatchInv
BY InitSafe, NextSafe, PTL DEF Spec

(***************************************************************************)
(* The type invariant of the stream and of the handlers.                   *)
(***************************************************************************)
THEOREM DispatchTyped == Spec => []TypeOK
<1>1. DispatchInv => TypeOK
  BY DEF DispatchInv
<1> QED
  BY <1>1, DispatchInductive, PTL

(***************************************************************************)
(* At most one delivery of a job is unread or pending, whatever bounces,   *)
(* routes, retries, recoveries and lost connections interleave.            *)
(***************************************************************************)
THEOREM OneDelivery == Spec => []OneLiveDelivery
<1>1. DispatchInv => OneLiveDelivery
  BY DEF DispatchInv, StreamInv
<1> QED
  BY <1>1, DispatchInductive, PTL

(***************************************************************************)
(* No delivery is in the hands of two connections, even of one worker.     *)
(***************************************************************************)
THEOREM NeverSharedDelivery == Spec => []HeldOnce
<1>1. DispatchInv => HeldOnce
  BY DEF DispatchInv
<1> QED
  BY <1>1, DispatchInductive, PTL

(***************************************************************************)
(* Apart from stale recoveries a job is delivered a bounded number of      *)
(* times.                                                                  *)
(***************************************************************************)
THEOREM BoundedRetries == Spec => []RetryBudget
<1>1. DispatchInv => RetryBudget
  BY DEF DispatchInv, StreamInv
<1> QED
  BY <1>1, DispatchInductive, PTL

(***************************************************************************)
(* When a queue verdict closes a job, no delivery of it is left for        *)
(* anybody to run.                                                         *)
(***************************************************************************)
THEOREM VerdictsAreLast == Spec => []VerdictIsLast
<1>1. DispatchInv => VerdictIsLast
  BY DEF DispatchInv, ConnInv, VerdictIsLast
<1> QED
  BY <1>1, DispatchInductive, PTL

(***************************************************************************)
(* Two connections run one job together only after a stale recovery of it. *)
(***************************************************************************)
THEOREM OnlyRecoveryDoubles == Spec => []SoleRunner
<1>1. DispatchInv => SoleRunner
  <2> SUFFICES ASSUME DispatchInv, NEW c \in Conns, NEW d \in Conns, c # d,
                      At(c, "running"), At(d, "running"), Job(conn[c].job) = Job(conn[d].job),
                      ~(recovered[Job(conn[c].job)] > 0)
               PROVE  FALSE
    BY DEF SoleRunner
  <2>1. /\ conn[c].job \in Ids /\ conn[c].job \in Holding(c) /\ conn[d].job \in Ids
        /\ conn[d].job \in Holding(d) /\ conn[c].job \notin Holding(d)
        /\ StreamTypeOK /\ StreamInv
    BY JobHeld DEF At, After
  <2>2. Job(conn[c].job) \in Jobs /\ recovered[Job(conn[c].job)] \in Nat
    BY <2>1, EntryTyped DEF Job, StreamTypeOK
  <2>3. Pending(conn[c].job) /\ Pending(conn[d].job)
    BY <2>2, WorkFacts DEF Unrecovered, At
  <2> QED
    BY <2>1, <2>3 DEF StreamInv, OneLiveDelivery, Live, Pending
<1> QED
  BY <1>1, DispatchInductive, PTL

-----------------------------------------------------------------------------
(***************************************************************************)
(* NeverStranded.  UnlostInv is inductive beside DispatchInv: in every     *)
(* step the entry that loses its life is passed on.  The acting connection *)
(* is the only one that holds it, so the deliveries that make the other    *)
(* jobs cared for are left as they were.                                   *)
(***************************************************************************)
\* Settling a hold opens none.
Closing == \A j \in Jobs : hold'[j] = "open" => hold[j] = "open"

\* Entry k is in the hands of a connection that closes its job, or another
\* delivery of the job is left, or nothing is left to do for it.
PassedOn(k) ==
    \/ hold'[Job(k)] # "open"
    \/ \E c \in Conns : conn'[c].step \in {"closing", "failing"} /\ conn'[c].job = k
    \/ \E c \in Conns : k \in Holding(c)' /\ stream'[k].state = "expired"
    \/ \E n \in Ids' : stream'[n].job = Job(k) /\ stream'[n].state \in {"new", "pending"}

\* Entry k does not die in this step.
LivesOn(k) == Live(k) => stream'[k].state \in {"new", "pending"}

LEMMA LiveStays ==
    ASSUME UNCHANGED streamVars, NEW k
    PROVE  LivesOn(k)
<1>1. stream' = stream
  BY DEF streamVars
<1> QED
  BY <1>1 DEF LivesOn, Live

\* What an effect leaves of the entries.
LEMMA EffectIs ==
    ASSUME DispatchInv, NEW k, UNCHANGED streamVars \/ (k \in Ids /\ Effect(k))
    PROVE  /\ \A n \in Ids : n \in Ids' /\ Job(n)' = Job(n) /\ Job(n) \in Jobs
           /\ \A n \in Ids : n # k => stream'[n] = stream[n]
           /\ \A n \in Ids : ~Live(n) => stream'[n].state = stream[n].state
           /\ \A n \in Ids : stream[n].hint = NoWorker /\ stream[n].state # "expired"
                                => stream'[n].state # "expired"
           /\ \A j \in Jobs : sent'[j] > 0 => sent[j] > 0
<1>1. TypeOK /\ StreamTypeOK /\ StreamInv
  BY DEF DispatchInv, TypeOK
<1>2. \A n \in Ids : Job(n) \in Jobs /\ sent[Job(n)] \in Nat /\ sent[Job(n)] # 0
  BY <1>1, EntryTyped DEF Job, StreamTypeOK, StreamInv
<1>3. CASE UNCHANGED streamVars
  BY <1>2, <1>3 DEF streamVars, Job, Ids, Live
<1>4. CASE k \in Ids /\ EditedAs(k)
  BY <1>2, <1>4 DEF EditedAs, Edited, Becoming, Job, Ids, Live, Pending
<1>5. ASSUME k \in Ids, NEW e \in Entries, Retried(k, e)
      PROVE  /\ \A n \in Ids : n \in Ids' /\ Job(n)' = Job(n)
             /\ \A n \in Ids : n # k => stream'[n] = stream[n]
             /\ stream'[k].state = "acked" /\ Live(k)
             /\ \A j \in Jobs : sent'[j] > 0 => sent[j] > 0
  <2>1. Replacing(k, e)
    BY <1>5 DEF Retried
  <2>2. /\ \A n \in Ids : n \in Ids' /\ Job(n)' = Job(n)
        /\ \A n \in Ids : n # k => stream'[n] = stream[n]
        /\ stream'[k].state = "acked" /\ Live(k)
    BY <2>1 DEF Replacing, Appended, Becoming, Job, Ids, Live, Pending
  <2>3. sent' = [sent EXCEPT ![stream[k].job] = @ + 1] /\ sent \in [Jobs -> Nat] /\ stream[k].job = Job(k)
    BY <1>1, <2>1 DEF Replacing, StreamTypeOK, Job
  <2>4. \A j \in Jobs : sent'[j] > 0 => sent[j] > 0
    BY <1>2, <1>5, <2>3
  <2> QED
    BY <2>2, <2>4
<1>6. CASE k \in Ids /\ \E e \in Entries : Retried(k, e)
  BY <1>2, <1>5, <1>6
<1> QED
  BY <1>3, <1>4, <1>6 DEF Effect

LEMMA LiveCared ==
    ASSUME NEW j, \E m \in Ids' : stream'[m].job = j /\ stream'[m].state \in {"new", "pending"}
    PROVE  Cared(j)'
BY DEF Cared, Live, Job

LEMMA CloserCares ==
    ASSUME NEW j, NEW c \in Conns, Closer(c, j)'
    PROVE  Cared(j)'
BY DEF Cared, Closer

\* The general step of one connection.
LEMMA Unlost ==
    ASSUME DispatchInv, UnlostInv, drops = 0, NEW c \in Conns, NEW k,
           UNCHANGED streamVars \/ (k \in Ids /\ Effect(k)),
           \A d \in Conns \ {c} : conn'[d] = conn[d] /\ k \notin Holding(d),
           Closing, WholeInv(c)',
           LivesOn(k) \/ PassedOn(k),
           \A n \in Holding(c) : stream[n].state = "expired" => PassedOn(n),
           conn[c].step \in {"closing", "failing"} => PassedOn(conn[c].job)
    PROVE  UnlostInv'
<1>1. TypeOK /\ StreamTypeOK /\ StreamInv /\ \A d \in Conns : ConnInv(d)
  BY DEF DispatchInv, TypeOK
<1>2. /\ \A n \in Ids : n \in Ids' /\ Job(n)' = Job(n) /\ Job(n) \in Jobs
      /\ \A n \in Ids : n # k => stream'[n] = stream[n]
      /\ \A n \in Ids : ~Live(n) => stream'[n].state = stream[n].state
      /\ \A j \in Jobs : sent'[j] > 0 => sent[j] > 0
  BY EffectIs
<1>3. \A d \in Conns : Holding(d) \subseteq Ids
  BY <1>1 DEF ConnInv, PlacesInv, Holding
<1>4. ASSUME NEW n \in Ids, PassedOn(n), NEW j, Job(n) = j, hold'[j] = "open" PROVE Cared(j)'
  <2>0. n \in Ids' /\ stream'[n].job = j
    BY <1>2, <1>4 DEF Job
  <2>1. CASE \E d \in Conns : conn'[d].step \in {"closing", "failing"} /\ conn'[d].job = n
    <3> PICK d \in Conns : conn'[d].step \in {"closing", "failing"} /\ conn'[d].job = n
      BY <2>1
    <3>1. Closer(d, j)'
      BY <2>0 DEF Closer, Job
    <3> QED
      BY <3>1, CloserCares
  <2>2. CASE \E d \in Conns : n \in Holding(d)' /\ stream'[n].state = "expired"
    <3> PICK d \in Conns : n \in Holding(d)' /\ stream'[n].state = "expired"
      BY <2>2
    <3>1. Closer(d, j)'
      BY <2>0 DEF Closer, Job
    <3> QED
      BY <3>1, CloserCares
  <2>3. CASE \E m \in Ids' : stream'[m].job = Job(n) /\ stream'[m].state \in {"new", "pending"}
    BY <1>4, <2>3, LiveCared
  <2> QED
    BY <1>4, <2>1, <2>2, <2>3 DEF PassedOn
<1>5. ASSUME NEW j \in Jobs, sent'[j] > 0, hold'[j] = "open" PROVE Cared(j)'
  <2>1. Cared(j)
    BY <1>2, <1>5 DEF Closing, UnlostInv
  <2>2. CASE \E n \in Ids : Live(n) /\ Job(n) = j
    <3> PICK n \in Ids : Live(n) /\ Job(n) = j
      BY <2>2
    <3>1. n \in Ids' /\ stream'[n].job = j
      BY <1>2 DEF Job
    <3>2. CASE stream'[n].state \in {"new", "pending"}
      BY <3>1, <3>2, LiveCared
    <3>3. CASE stream'[n].state \notin {"new", "pending"}
      <4>1. n = k
        BY <1>2, <3>3 DEF Live
      <4>2. PassedOn(n)
        BY <3>3, <4>1 DEF LivesOn
      <4> QED
        BY <1>4, <1>5, <4>2
    <3> QED
      BY <3>2, <3>3
  <2>3. ASSUME NEW d \in Conns, conn[d].step \in {"closing", "failing"}, Job(conn[d].job) = j PROVE Cared(j)'
    <3>1. conn[d].job \in Ids
      BY <2>3, JobHeld DEF After
    <3>2. CASE d = c
      BY <1>4, <1>5, <2>3, <3>1, <3>2
    <3>3. CASE d # c
      <4>1. conn'[d] = conn[d] /\ stream'[conn[d].job].job = j
        BY <1>2, <2>3, <3>1, <3>3 DEF Job
      <4>2. Closer(d, j)'
        BY <2>3, <4>1 DEF Closer, Job
      <4> QED
        BY <4>2, CloserCares
    <3> QED
      BY <3>2, <3>3
  <2>4. ASSUME NEW d \in Conns, NEW n \in Holding(d), stream[n].state = "expired", Job(n) = j PROVE Cared(j)'
    <3>1. n \in Ids
      BY <1>3
    <3>2. CASE d = c
      BY <1>4, <1>5, <2>4, <3>1, <3>2
    <3>3. CASE d # c
      <4>1. n \in Holding(d)'
        BY <2>4, <3>3 DEF Holding
      <4>2. stream'[n] = stream[n]
        BY <1>2, <2>4, <3>1, <3>3
      <4>3. Closer(d, j)'
        BY <2>4, <4>1, <4>2 DEF Closer, Job
      <4> QED
        BY <4>3, CloserCares
    <3> QED
      BY <3>2, <3>3
  <2> QED
    BY <2>1, <2>2, <2>3, <2>4 DEF Cared, Closer
<1>6. ASSUME NEW d \in Conns, d # c PROVE WholeInv(d)'
  <2>1. conn'[d] = conn[d] /\ k \notin Holding(d) /\ WholeInv(d)
    BY <1>6 DEF UnlostInv
  <2>2. conn[d].step \in Chosen \cup {"running", "acking"} => conn[d].job \in Holding(d) /\ conn[d].job \in Ids
    BY JobHeld DEF Chosen, Before, After
  <2>3. conn[d].current # None => conn[d].current \in Holding(d) /\ conn[d].current \in Ids
    BY <1>3 DEF Holding
  <2>4. \A n \in Holding(d) : stream'[n] = stream[n] /\ Job(n)' = Job(n) /\ Job(n) \in Jobs
    BY <1>2, <1>3, <2>1
  <2>5. conn'[d].step \notin Cleanup
    BY <2>1 DEF WholeInv
  <2>6. conn'[d].step \in Chosen \cup {"running"} => stream'[conn'[d].job].state # "expired"
    BY <2>1, <2>2, <2>4 DEF WholeInv
  <2>7. conn'[d].current # None => stream'[conn'[d].current].state # "expired"
    BY <2>1, <2>3, <2>4 DEF WholeInv
  <2>8. conn'[d].step = "acking" => hold'[stream'[conn'[d].job].job] # "open"
    BY <2>1, <2>2, <2>4 DEF WholeInv, At, Closing, Job
  <2> QED
    BY <2>5, <2>6, <2>7, <2>8 DEF WholeInv, At, Job
<1> QED
  BY <1>5, <1>6 DEF UnlostInv

\* Steps of the loop with the delivery it took, k = conn[c].job.
LEMMA LoopUnlost ==
    ASSUME DispatchInv, UnlostInv, drops = 0, NEW c \in Conns, conn[c].step \in Before \cup After,
           UNCHANGED streamVars \/ Effect(conn[c].job),
           \A d \in Conns \ {c} : conn'[d] = conn[d],
           conn'[c].slot = conn[c].slot, conn'[c].poller = conn[c].poller,
           conn'[c].step \notin Cleanup,
           \/ conn'[c].current \in {conn[c].current, None}
           \/ conn'[c].current = conn[c].job /\ stream[conn[c].job].state # "expired",
           conn'[c].step \in Chosen \cup {"running"} =>
                conn'[c].job = conn[c].job /\ stream[conn[c].job].state # "expired",
           conn'[c].step = "acking" => conn'[c].job = conn[c].job /\ hold'[Job(conn[c].job)] # "open",
           Closing,
           \/ PassedOn(conn[c].job)
           \/ /\ conn[c].step \notin {"closing", "failing"} /\ stream[conn[c].job].state # "expired"
              /\ LivesOn(conn[c].job)
    PROVE  UnlostInv'
<1> DEFINE k == conn[c].job
<1>1. /\ k \in Holding(c) /\ k \in Ids /\ stream[k].hint = NoWorker
      /\ \A d \in Conns \ {c} : k \notin Holding(d)
      /\ StreamTypeOK /\ StreamInv /\ ConnInv(c)
  BY JobHeld
<1>2. Holding(c) \subseteq Ids /\ HeldInv(c) /\ WholeInv(c)
  BY <1>1 DEF ConnInv, PlacesInv, Holding, UnlostInv
<1>3. /\ \A n \in Ids : n \in Ids' /\ Job(n)' = Job(n) /\ Job(n) \in Jobs
      /\ \A n \in Ids : n # k => stream'[n] = stream[n]
      /\ \A n \in Holding(c) : stream[n].state # "expired" => stream'[n].state # "expired"
  BY <1>1, <1>2, EffectIs DEF HeldInv
<1>4. WholeInv(c)'
  <2>1. conn'[c].step \in Chosen \cup {"running"} => stream'[conn'[c].job].state # "expired"
    BY <1>1, <1>3
  <2>2. conn'[c].current # None => stream'[conn'[c].current].state # "expired"
    <3>1. conn[c].current # None => conn[c].current \in Holding(c) /\ stream[conn[c].current].state # "expired"
      BY <1>2 DEF Holding, WholeInv
    <3> QED
      BY <1>1, <1>3, <3>1
  <2>3. conn'[c].step = "acking" => hold'[stream'[conn'[c].job].job] # "open"
    BY <1>1, <1>3 DEF Job
  <2> QED
    BY <2>1, <2>2, <2>3 DEF WholeInv, At, Job
<1>5. ASSUME NEW n \in Holding(c), stream[n].state = "expired" PROVE PassedOn(n)
  <2>1. CASE n = k
    BY <1>5, <2>1
  <2>2. CASE n # k
    <3>1. n # conn[c].current
      BY <1>2, <1>5 DEF WholeInv, Holding
    <3>2. n \in Holding(c)' /\ stream'[n].state = "expired"
      BY <1>2, <1>3, <1>5, <2>2, <3>1 DEF Holding
    <3> QED
      BY <3>2 DEF PassedOn
  <2> QED
    BY <2>1, <2>2
<1>6. LivesOn(k) \/ PassedOn(k)
  OBVIOUS
<1>7. conn[c].step \in {"closing", "failing"} => PassedOn(conn[c].job)
  OBVIOUS
<1> QED
  BY <1>1, <1>4, <1>5, <1>6, <1>7, Unlost

\* A new place for the record of one connection.
LEMMA MoveIs ==
    ASSUME DispatchInv, NEW c \in Conns, NEW s \in {"off"} \cup Loop \cup Cleanup
    PROVE  /\ \A d \in Conns \ {c} : \A r : Becomes(c, r) => conn'[d] = conn[d]
           /\ GoTo(c, s) => /\ conn'[c].step = s /\ conn'[c].job = conn[c].job
                            /\ conn'[c].current = conn[c].current
                            /\ conn'[c].slot = conn[c].slot /\ conn'[c].poller = conn[c].poller
           /\ Finish(c) => /\ conn'[c].step = "idle" /\ conn'[c].current = conn[c].current
                           /\ conn'[c].slot = conn[c].slot /\ conn'[c].poller = conn[c].poller
<1>1. conn \in [Conns -> Handlers] /\ conn[c] \in Handlers
  BY HandlerTyped DEF DispatchInv, TypeOK
<1>2. \A d \in Conns \ {c} : \A r : Becomes(c, r) => conn'[d] = conn[d]
  BY <1>1 DEF Becomes
<1>3. \A r : Becomes(c, r) => conn'[c] = r
  BY <1>1 DEF Becomes
<1> QED
  BY <1>1, <1>2, <1>3 DEF GoTo, Finish, Handlers

LEMMA HoldStays == hold' = hold => Closing
BY DEF Closing

\* The loop turns to another step with its delivery.
LEMMA TurnUnlost ==
    ASSUME DispatchInv, UnlostInv, drops = 0, NEW c \in Conns, conn[c].step \in Before,
           NEW s \in Chosen, GoTo(c, s), UNCHANGED <<streamVars, hold>>,
           stream[conn[c].job].state # "expired"
    PROVE  UnlostInv'
<1>1. /\ conn'[c].step = s /\ conn'[c].job = conn[c].job /\ conn'[c].current = conn[c].current
      /\ conn'[c].slot = conn[c].slot /\ conn'[c].poller = conn[c].poller
      /\ \A d \in Conns \ {c} : conn'[d] = conn[d]
  <2>1. s \in {"off"} \cup Loop \cup Cleanup
    BY DEF Chosen, Before, Loop
  <2> QED
    BY <2>1, MoveIs DEF GoTo
<1>2. LivesOn(conn[c].job)
  BY LiveStays
<1>3. Closing /\ conn[c].step \notin {"closing", "failing"} /\ s \notin Cleanup /\ s # "acking"
  BY DEF Closing, Before, Chosen, Cleanup
<1> QED
  BY <1>1, <1>2, <1>3, LoopUnlost

\* The loop ends the job: from here on it is its closer.
LEMMA EndUnlost ==
    ASSUME DispatchInv, UnlostInv, drops = 0, NEW c \in Conns, conn[c].step \in Before \cup After,
           NEW s \in {"closing", "failing"}, GoTo(c, s), hold' = hold,
           UNCHANGED streamVars \/ Effect(conn[c].job)
    PROVE  UnlostInv'
<1>1. /\ conn'[c].step = s /\ conn'[c].job = conn[c].job /\ conn'[c].current = conn[c].current
      /\ conn'[c].slot = conn[c].slot /\ conn'[c].poller = conn[c].poller
      /\ \A d \in Conns \ {c} : conn'[d] = conn[d]
  <2>1. s \in {"off"} \cup Loop \cup Cleanup
    BY DEF Loop
  <2> QED
    BY <2>1, MoveIs DEF GoTo
<1>2. PassedOn(conn[c].job)
  BY <1>1 DEF PassedOn
<1>3. Closing /\ s \notin Cleanup /\ s # "acking" /\ s \notin Chosen \cup {"running"}
  BY DEF Closing, Before, Chosen, Cleanup
<1> QED
  BY <1>1, <1>2, <1>3, LoopUnlost

\* The loop puts the delivery away, and a delivery of the job is left.
LEMMA LeaveUnlost ==
    ASSUME DispatchInv, UnlostInv, drops = 0, NEW c \in Conns, conn[c].step \in Before \cup After,
           conn'[c].step = "idle", conn'[c].current \in {conn[c].current, None},
           conn'[c].slot = conn[c].slot, conn'[c].poller = conn[c].poller,
           \A d \in Conns \ {c} : conn'[d] = conn[d],
           UNCHANGED streamVars \/ Effect(conn[c].job), Closing,
           \/ PassedOn(conn[c].job)
           \/ /\ conn[c].step \notin {"closing", "failing"} /\ stream[conn[c].job].state # "expired"
              /\ LivesOn(conn[c].job)
    PROVE  UnlostInv'
<1>1. conn'[c].step \notin Cleanup /\ conn'[c].step \notin Chosen \cup {"running"} /\ conn'[c].step # "acking"
  BY DEF Chosen, Before, Cleanup
<1> QED
  BY <1>1, LoopUnlost

LEMMA FinishUnlost ==
    ASSUME DispatchInv, UnlostInv, drops = 0, NEW c \in Conns, conn[c].step \in Before \cup {"running"},
           Finish(c), UNCHANGED streamVars \/ Effect(conn[c].job), hold' = hold,
           stream[conn[c].job].state # "expired",
           PassedOn(conn[c].job) \/ LivesOn(conn[c].job)
    PROVE  UnlostInv'
<1>1. /\ conn'[c].step = "idle" /\ conn'[c].current = conn[c].current
      /\ conn'[c].slot = conn[c].slot /\ conn'[c].poller = conn[c].poller
      /\ \A d \in Conns \ {c} : conn'[d] = conn[d]
  BY MoveIs DEF Finish, Loop
<1>2. Closing /\ conn[c].step \notin {"closing", "failing"} /\ conn[c].step \in Before \cup After
  BY DEF Closing, Before, After
<1> QED
  BY <1>1, <1>2, LeaveUnlost

LEMMA DispatchUnlost ==
    ASSUME DispatchInv, UnlostInv, drops = 0, NEW c \in Conns, conn[c].step \in Before,
           Dispatch(c), UNCHANGED <<streamVars, hold>>, stream[conn[c].job].state # "expired"
    PROVE  UnlostInv'
<1> DEFINE k == conn[c].job
<1>1. CASE Job(k) \in Serves[WorkerOf[c]]
  <2>1. conn[c] \in Handlers /\ conn \in [Conns -> Handlers]
    BY HandlerTyped DEF DispatchInv, TypeOK
  <2>2. conn' = [conn EXCEPT ![c] = [conn[c] EXCEPT !.step = "running", !.current = k]]
    BY <1>1 DEF Dispatch, Becomes
  <2>3. /\ conn'[c].step = "running" /\ conn'[c].job = k /\ conn'[c].current = k
        /\ conn'[c].slot = conn[c].slot /\ conn'[c].poller = conn[c].poller
        /\ \A d \in Conns \ {c} : conn'[d] = conn[d]
    BY <2>1, <2>2 DEF Handlers
  <2>4. LivesOn(k)
    BY LiveStays
  <2>5. Closing /\ conn[c].step \notin {"closing", "failing"} /\ "running" \notin Cleanup
    BY DEF Closing, Before, Cleanup
  <2> QED
    BY <2>3, <2>4, <2>5, LoopUnlost
<1>2. CASE Job(k) \notin Serves[WorkerOf[c]]
  <2>1. GoTo(c, "mismatched") /\ "mismatched" \in Chosen
    BY <1>2 DEF Dispatch, Chosen, Before
  <2> QED
    BY <2>1, TurnUnlost
<1> QED
  BY <1>1, <1>2

\* A retry leaves another delivery of the job.
LEMMA RetryPassesOn ==
    ASSUME DispatchInv, NEW k \in Ids, Pending(k),
           \/ stream[k].passes < MaxAffinity /\ BounceEntry(k)
           \/ stream[k].requeues < MaxRequeue /\ MismatchEntry(k)
           \/ stream[k].failures < MaxRequeue /\ RetryEntry(k)
           \/ RecoverEntry(k)
    PROVE  Effect(k) /\ PassedOn(k)
<1>1. StreamTypeOK
  BY DEF DispatchInv, TypeOK
<1> PICK e \in Entries : Retried(k, e)
  BY <1>1, BounceStep, MismatchStep, RetryStep, RecoverStep
<1>2. NewId \in Ids' /\ stream'[NewId].job = Job(k) /\ stream'[NewId].state = "new"
  BY DEF Retried, Replacing, Appended, Ids, Job
<1> QED
  BY <1>2, RetriedEffect DEF PassedOn

LEMMA LoopStepUnlost ==
    ASSUME DispatchInv, UnlostInv, drops = 0, NEW c \in Conns,
           \/ Recheck(c) \/ Choose(c) \/ Bounce(c) \/ Unserved(c) \/ FindPeers(c)
           \/ (\E w \in Workers : RouteTo(c, w)) \/ Mismatch(c)
    PROVE  UnlostInv'
<1> DEFINE k == conn[c].job
<1>1. /\ conn[c].step \in Before /\ hold' = hold
      /\ At(c, "fetched") \/ conn[c].step \in Chosen
  BY DEF Recheck, Choose, Bounce, Unserved, FindPeers, RouteTo, Mismatch, At, Before, Chosen
<1>2. /\ k \in Ids /\ StreamTypeOK /\ StreamInv /\ WholeInv(c) /\ stream[k].hint = NoWorker
      /\ conn[c].step \in Before \cup After /\ conn[c].step \in Before \cup {"running"}
  BY <1>1, JobHeld DEF UnlostInv
<1>3. conn[c].step \in Chosen => stream[k].state # "expired"
  BY <1>2 DEF WholeInv
<1>4. UNCHANGED streamVars => LivesOn(k)
  BY LiveStays
<1>5. Ack(k) => Effect(k)
  BY <1>2, OwnEffects
<1>6. CASE Recheck(c)
  <2>1. CASE GoTo(c, "closing") /\ (UNCHANGED streamVars \/ Ack(k))
    BY <1>1, <1>2, <1>5, <2>1, EndUnlost
  <2>2. CASE stream[k].state # "expired" /\ GoTo(c, "targeting") /\ UNCHANGED streamVars
    <3>1. "targeting" \in Chosen
      BY DEF Chosen, Before
    <3> QED
      BY <1>1, <2>2, <3>1, TurnUnlost
  <2>3. CASE stream[k].state # "expired" /\ Finish(c) /\ UNCHANGED streamVars
    BY <1>1, <1>2, <1>4, <2>3, FinishUnlost
  <2> QED
    BY <1>6, <2>1, <2>2, <2>3 DEF Recheck
<1>7. CASE Choose(c)
  <2>1. conn[c].step \in Chosen /\ UNCHANGED streamVars
    BY <1>7 DEF Choose, At, Chosen, Before
  <2>2. ASSUME NEW s \in {"bouncing", "unserved"}, GoTo(c, s) PROVE UnlostInv'
    <3>1. s \in Chosen
      BY DEF Chosen, Before
    <3> QED
      BY <1>1, <1>3, <2>1, <2>2, <3>1, TurnUnlost
  <2>3. CASE Dispatch(c)
    BY <1>1, <1>3, <2>1, <2>3, DispatchUnlost
  <2> QED
    BY <1>7, <2>2, <2>3 DEF Choose
<1>8. CASE Bounce(c)
  <2>1. conn[c].step \in Chosen
    BY <1>8 DEF Bounce, At, Chosen, Before
  <2>2. CASE Finish(c) /\ UNCHANGED streamVars
    BY <1>1, <1>2, <1>3, <1>4, <2>1, <2>2, FinishUnlost
  <2>3. CASE Pending(k) /\ stream[k].passes < MaxAffinity /\ BounceEntry(k) /\ Finish(c)
    BY <1>1, <1>2, <1>3, <2>1, <2>3, RetryPassesOn, FinishUnlost
  <2>4. CASE UNCHANGED streamVars /\ GoTo(c, "unserved")
    <3>1. "unserved" \in Chosen
      BY DEF Chosen, Before
    <3> QED
      BY <1>1, <1>3, <2>1, <2>4, <3>1, TurnUnlost
  <2>5. CASE UNCHANGED streamVars /\ Dispatch(c)
    BY <1>1, <1>3, <2>1, <2>5, DispatchUnlost
  <2> QED
    BY <1>8, <2>2, <2>3, <2>4, <2>5 DEF Bounce, Owned
<1>9. CASE Unserved(c)
  BY <1>1, <1>2, <1>5, <1>9, EndUnlost DEF Unserved
<1>10. CASE FindPeers(c)
  <2>1. conn[c] \in Handlers /\ conn \in [Conns -> Handlers] /\ At(c, "mismatched") /\ UNCHANGED streamVars
    BY <1>10, HandlerTyped DEF DispatchInv, TypeOK, FindPeers
  <2>2. /\ conn'[c].step = "routing" /\ conn'[c].job = k /\ conn'[c].current = conn[c].current
        /\ conn'[c].slot = conn[c].slot /\ conn'[c].poller = conn[c].poller
        /\ \A d \in Conns \ {c} : conn'[d] = conn[d]
    BY <1>10, <2>1 DEF FindPeers, Becomes, Handlers
  <2>3. Closing /\ conn[c].step \notin {"closing", "failing"} /\ "routing" \notin Cleanup /\ stream[k].state # "expired"
    BY <1>1, <1>3, <2>1 DEF Closing, Before, Cleanup, At, Chosen
  <2> QED
    BY <1>2, <1>4, <2>1, <2>2, <2>3, LoopUnlost
<1>11. ASSUME NEW w \in Workers, RouteTo(c, w) PROVE UnlostInv'
  <2>1. conn[c].step = "routing" /\ conn[c].step \in Chosen
    BY <1>11 DEF RouteTo, At, Chosen, Before
  <2>2. CASE Finish(c) /\ UNCHANGED streamVars
    BY <1>1, <1>2, <1>3, <1>4, <2>1, <2>2, FinishUnlost
  <2>3. CASE Ack(k) /\ GoTo(c, "closing")
    BY <1>1, <1>2, <1>5, <2>3, EndUnlost
  <2>4. CASE Owned(k, WorkerOf[c]) /\ RouteEntry(k, w) /\ Finish(c)
    <3>1. Effect(k) /\ LivesOn(k)
      BY <1>2, <2>4, RouteEffect, RouteStep DEF Owned, Pending, Becoming, LivesOn
    <3> QED
      BY <1>1, <1>2, <1>3, <2>1, <2>4, <3>1, FinishUnlost
  <2>5. CASE Becomes(c, [conn[c] EXCEPT !.peers = @ \ {w}]) /\ UNCHANGED streamVars
    <3>1. conn[c] \in Handlers /\ conn \in [Conns -> Handlers]
      BY HandlerTyped DEF DispatchInv, TypeOK
    <3>2. /\ conn'[c].step = "routing" /\ conn'[c].job = k /\ conn'[c].current = conn[c].current
          /\ conn'[c].slot = conn[c].slot /\ conn'[c].poller = conn[c].poller
          /\ \A d \in Conns \ {c} : conn'[d] = conn[d]
      BY <2>1, <2>5, <3>1 DEF Becomes, Handlers
    <3>3. Closing /\ conn[c].step \notin {"closing", "failing"} /\ "routing" \notin Cleanup /\ stream[k].state # "expired"
      BY <1>1, <1>3, <2>1 DEF Closing, Before, Cleanup
    <3> QED
      BY <1>2, <1>4, <2>5, <3>2, <3>3, LoopUnlost
  <2> QED
    BY <1>11, <2>2, <2>3, <2>4, <2>5 DEF RouteTo
<1>12. CASE Mismatch(c)
  <2>1. conn[c].step \in Chosen
    BY <1>12 DEF Mismatch, At, Chosen, Before
  <2>2. CASE Finish(c) /\ UNCHANGED streamVars
    BY <1>1, <1>2, <1>3, <1>4, <2>1, <2>2, FinishUnlost
  <2>3. CASE Pending(k) /\ stream[k].requeues < MaxRequeue /\ MismatchEntry(k) /\ Finish(c)
    BY <1>1, <1>2, <1>3, <2>1, <2>3, RetryPassesOn, FinishUnlost
  <2>4. CASE Ack(k) /\ GoTo(c, "closing")
    BY <1>1, <1>2, <1>5, <2>4, EndUnlost
  <2> QED
    BY <1>12, <2>2, <2>3, <2>4 DEF Mismatch, Owned
<1> QED
  BY <1>6, <1>7, <1>8, <1>9, <1>10, <1>11, <1>12

\* The end of a generation, and of a job.
LEMMA EndingsUnlost ==
    ASSUME DispatchInv, UnlostInv, drops = 0, NEW c \in Conns,
           \/ Succeeds(c) \/ SettleFails(c) \/ AckPaid(c) \/ FailsVisibly(c) \/ FailsEmpty(c) \/ Release(c)
    PROVE  UnlostInv'
<1> DEFINE k == conn[c].job
<1>1. /\ conn[c].step \in After
      /\ hold \in [Jobs -> {"open", "charged", "released"}] /\ conn \in [Conns -> Handlers]
  BY DEF Succeeds, SettleFails, AckPaid, FailsVisibly, FailsEmpty, Release, At, After, DispatchInv, TypeOK
<1>2. /\ k \in Ids /\ StreamTypeOK /\ StreamInv /\ WholeInv(c) /\ conn[c] \in Handlers /\ Job(k) \in Jobs
      /\ conn[c].step \in Before \cup After
  <2>1. k \in Ids /\ StreamTypeOK /\ StreamInv /\ conn[c] \in Handlers
    BY <1>1, JobHeld
  <2> QED
    BY <1>1, <2>1, EntryTyped DEF UnlostInv, Job
<1>3. At(c, "running") => conn[c].step \in Before \cup {"running"} /\ stream[k].state # "expired"
  BY <1>2 DEF WholeInv, At
<1>4. UNCHANGED streamVars => LivesOn(k)
  BY LiveStays
<1>5. Ack(k) => Effect(k)
  BY <1>2, OwnEffects
<1>6. \A how \in {"charged", "released"} : hold' = Settled(Job(k), how) => Closing /\ hold'[Job(k)] # "open"
  BY <1>1, <1>2 DEF Settled, Closing
<1>7. CASE Succeeds(c)
  <2>1. /\ conn'[c].step = "acking" /\ conn'[c].job = k /\ conn'[c].current = None
        /\ conn'[c].slot = conn[c].slot /\ conn'[c].poller = conn[c].poller
        /\ \A d \in Conns \ {c} : conn'[d] = conn[d] /\ UNCHANGED streamVars
    BY <1>1, <1>2, <1>7 DEF Succeeds, Becomes, Handlers
  <2>2. Closing /\ hold'[Job(k)] # "open" /\ UNCHANGED streamVars
    BY <1>6, <1>7 DEF Succeeds
  <2>3. PassedOn(k) /\ "acking" \notin Cleanup /\ "acking" \notin Chosen \cup {"running"}
    BY <2>2 DEF PassedOn, Cleanup, Chosen, Before
  <2> QED
    BY <1>2, <2>1, <2>2, <2>3, LoopUnlost
<1>8. CASE SettleFails(c)
  BY <1>2, <1>3, <1>4, <1>8, FinishUnlost DEF SettleFails
<1>9. CASE AckPaid(c)
  <2>1. hold[Job(k)] # "open" /\ hold' = hold /\ Finish(c) /\ Ack(k)
    BY <1>2, <1>9 DEF AckPaid, WholeInv
  <2>2. PassedOn(k) /\ Closing
    BY <2>1 DEF PassedOn, Closing
  <2>3. /\ conn'[c].step = "idle" /\ conn'[c].current = conn[c].current
        /\ conn'[c].slot = conn[c].slot /\ conn'[c].poller = conn[c].poller
        /\ \A d \in Conns \ {c} : conn'[d] = conn[d]
    BY <2>1, MoveIs DEF Finish, Loop
  <2> QED
    BY <1>2, <1>5, <2>1, <2>2, <2>3, LeaveUnlost
<1>10. CASE FailsVisibly(c)
  BY <1>2, <1>5, <1>10, EndUnlost DEF FailsVisibly
<1>11. CASE FailsEmpty(c)
  <2>1. At(c, "running") /\ hold' = hold
    BY <1>11 DEF FailsEmpty
  <2>2. CASE Ack(k) /\ GoTo(c, "closing")
    BY <1>2, <1>5, <2>1, <2>2, EndUnlost
  <2>3. CASE ~ (Ack(k) /\ GoTo(c, "closing"))
    <3>1. /\ Becomes(c, [conn[c] EXCEPT !.step = "idle", !.job = None, !.current = None])
          /\ (Pending(k) /\ stream[k].failures < MaxGeneration /\ RetryEntry(k)) \/ UNCHANGED streamVars
      BY <1>11, <2>3 DEF FailsEmpty
    <3>2. /\ conn'[c].step = "idle" /\ conn'[c].current = None
          /\ conn'[c].slot = conn[c].slot /\ conn'[c].poller = conn[c].poller
          /\ \A d \in Conns \ {c} : conn'[d] = conn[d]
      BY <1>1, <1>2, <3>1 DEF Becomes, Handlers
    <3>3. Closing /\ conn[c].step \notin {"closing", "failing"}
      BY <2>1 DEF Closing, At
    <3>4. CASE Pending(k) /\ stream[k].failures < MaxGeneration /\ RetryEntry(k)
      <4>1. stream[k].failures < MaxRequeue
        BY <1>2, <3>4, EntryTyped
      <4>2. Effect(k) /\ PassedOn(k)
        BY <1>2, <3>4, <4>1, RetryPassesOn
      <4> QED
        BY <1>2, <3>2, <3>3, <4>2, LeaveUnlost
    <3>5. CASE UNCHANGED streamVars
      BY <1>2, <1>3, <1>4, <2>1, <3>2, <3>3, <3>5, LeaveUnlost
    <3> QED
      BY <3>1, <3>4, <3>5
  <2> QED
    BY <2>2, <2>3
<1>12. CASE Release(c)
  <2>1. /\ conn'[c].step = "idle" /\ conn'[c].current \in {conn[c].current, None}
        /\ conn'[c].slot = conn[c].slot /\ conn'[c].poller = conn[c].poller
        /\ \A d \in Conns \ {c} : conn'[d] = conn[d]
    BY <1>1, <1>2, <1>12 DEF Release, Becomes, Handlers
  <2>2. Closing /\ hold'[Job(k)] # "open" /\ UNCHANGED streamVars
    BY <1>6, <1>12 DEF Release
  <2>3. PassedOn(k)
    BY <2>2 DEF PassedOn
  <2> QED
    BY <1>2, <2>1, <2>2, <2>3, LeaveUnlost
<1> QED
  BY <1>7, <1>8, <1>9, <1>10, <1>11, <1>12

\* The steps that fetch a delivery.
LEMMA FetchingUnlost ==
    ASSUME DispatchInv, UnlostInv, drops = 0, NEW c \in Conns,
           \/ (\E k \in Ids : Polls(c, k)) \/ Prefetch(c) \/ Take(c) \/ Connect(c)
    PROVE  UnlostInv'
<1>1. /\ conn[c] \in Handlers /\ conn \in [Conns -> Handlers] /\ hold' = hold /\ WholeInv(c) /\ ConnInv(c)
      /\ StreamTypeOK /\ StreamInv /\ \A d \in Conns : HeldInv(d) /\ Holding(d) \subseteq Ids
  <2>1. \A d \in Conns : ConnInv(d) /\ Holding(d) \subseteq Ids
    BY DEF DispatchInv, ConnInv, PlacesInv, Holding
  <2> QED
    BY <2>1, HandlerTyped DEF DispatchInv, TypeOK, Polls, Prefetch, Take, Connect, UnlostInv, ConnInv
<1>2. Closing
  BY <1>1 DEF Closing
<1>3. ASSUME UNCHANGED streamVars, conn'[c].current = conn[c].current,
             Holding(c) \subseteq Holding(c)',
             \A d \in Conns \ {c} : conn'[d] = conn[d],
             \/ conn'[c].step = conn[c].step /\ conn'[c].job = conn[c].job
             \/ conn[c].step \in {"idle", "off"} /\ conn'[c].step \in {"fetched", "idle"}
      PROVE  UnlostInv'
  <2>1. stream' = stream
    BY <1>3 DEF streamVars
  <2>2. conn[c].step \in {"closing", "failing"} => PassedOn(conn[c].job)
    BY <1>3 DEF PassedOn
  <2>3. \A n \in Holding(c) : stream[n].state = "expired" => PassedOn(n)
    BY <1>3, <2>1 DEF PassedOn
  <2>4. WholeInv(c)'
    BY <1>1, <1>3, <2>1 DEF WholeInv, At, Job, Cleanup, Chosen, Before
  <2>5. \A d \in Conns : None \notin Holding(d)
    BY DEF Holding
  <2>6. LivesOn(None)
    BY <1>3, LiveStays
  <2> QED
    BY <1>2, <1>3, <2>2, <2>3, <2>4, <2>5, <2>6, Unlost
<1>5. CASE Prefetch(c)
  <2>1. /\ conn'[c].step = conn[c].step /\ conn'[c].job = conn[c].job /\ conn'[c].current = conn[c].current
        /\ conn'[c].slot = conn[c].poller /\ conn'[c].poller = None /\ conn[c].slot = None
        /\ \A d \in Conns \ {c} : conn'[d] = conn[d]
        /\ UNCHANGED streamVars
    BY <1>1, <1>5 DEF Prefetch, Becomes, Handlers
  <2>2. Holding(c)' = Holding(c)
    BY <2>1 DEF Holding
  <2> QED
    BY <1>3, <2>1, <2>2
<1>6. CASE Take(c)
  <2>1. /\ conn[c].step = "idle" /\ conn'[c].step = "fetched" /\ conn'[c].job = conn[c].slot
        /\ conn'[c].slot = None /\ conn'[c].poller = conn[c].poller /\ conn'[c].current = conn[c].current
        /\ \A d \in Conns \ {c} : conn'[d] = conn[d]
        /\ UNCHANGED streamVars
    BY <1>1, <1>6 DEF Take, Becomes, Handlers, At
  <2>2. conn[c].job = None
    BY <1>1, <2>1 DEF ConnInv, PlacesInv, Before, After
  <2>3. Holding(c) \subseteq Holding(c)'
    BY <2>1, <2>2 DEF Holding
  <2> QED
    BY <1>3, <2>1, <2>3
<1>7. CASE Connect(c)
  <2>1. /\ conn[c].step = "off" /\ conn'[c].step = "idle" /\ conn'[c].job = conn[c].job
        /\ conn'[c].slot = conn[c].slot /\ conn'[c].poller = conn[c].poller /\ conn'[c].current = conn[c].current
        /\ \A d \in Conns \ {c} : conn'[d] = conn[d]
        /\ UNCHANGED streamVars
    BY <1>1, <1>7 DEF Connect, Becomes, GoTo, Handlers, At
  <2>2. Holding(c) \subseteq Holding(c)'
    BY <2>1 DEF Holding
  <2> QED
    BY <1>3, <2>1, <2>2
<1>4. ASSUME NEW k \in Ids, Polls(c, k) PROVE UnlostInv'
  <2>1. Effect(k) /\ (stream[k].state = "new" \/ stream[k].hint # NoWorker)
        /\ (Becoming(k, "pending", stream[k].hint) \/ Becoming(k, "pending", NoWorker) \/ Becoming(k, "expired", NoWorker))
    BY <1>1, <1>4, ReadEffect, TakeEffect DEF Polls
  <2>2. \A d \in Conns : k \notin Holding(d)
    BY <1>1, <2>1 DEF HeldInv
  <2>3. /\ conn'[c].step = conn[c].step /\ conn'[c].job = conn[c].job /\ conn'[c].current = conn[c].current
        /\ Holding(c)' = Holding(c) \cup {k}
        /\ \A d \in Conns \ {c} : conn'[d] = conn[d]
    <3>1. k \in Nat /\ k # None
      BY <1>1, EntryTyped
    <3> QED
      BY <1>1, <1>4, <3>1 DEF Polls, Becomes, Handlers, Holding
  <2>4. /\ \A n \in Ids : n \in Ids' /\ Job(n)' = Job(n) /\ Job(n) \in Jobs
        /\ \A n \in Ids : n # k => stream'[n] = stream[n]
    BY <2>1, EffectIs
  <2>5. \A n \in Holding(c) : stream'[n] = stream[n] /\ Job(n)' = Job(n)
    BY <1>1, <2>2, <2>4
  <2>6. WholeInv(c)'
    <3>1. conn[c].step \in Chosen \cup {"running", "acking"} => conn[c].job \in Holding(c)
      BY JobHeld DEF Chosen, Before, After
    <3>2. conn[c].current # None => conn[c].current \in Holding(c)
      BY DEF Holding
    <3> QED
      BY <1>1, <2>3, <2>5, <3>1, <3>2 DEF WholeInv, At, Job
  <2>7. LivesOn(k) \/ PassedOn(k)
    BY <2>1, <2>3 DEF Becoming, LivesOn, PassedOn
  <2>8. \A n \in Holding(c) : stream[n].state = "expired" => PassedOn(n)
    BY <2>3, <2>5 DEF PassedOn
  <2>9. conn[c].step \in {"closing", "failing"} => PassedOn(conn[c].job)
    BY <2>3 DEF PassedOn
  <2> QED
    BY <1>2, <2>1, <2>2, <2>3, <2>6, <2>7, <2>8, <2>9, Unlost
<1> QED
  BY <1>4, <1>5, <1>6, <1>7

\* What happens behind the connections.
LEMMA BackgroundUnlost ==
    ASSUME DispatchInv, UnlostInv, drops = 0, conn' = conn, hold' = hold,
           \/ UNCHANGED streamVars
           \/ \E j \in Jobs : AddJob(j)
           \/ \E k \in Ids : ClaimStale(k) \/ Lapse(k) \/ (Pending(k) /\ RecoverEntry(k))
    PROVE  UnlostInv'
<1>1. TypeOK /\ StreamTypeOK /\ StreamInv /\ \A d \in Conns : ConnInv(d)
  BY DEF DispatchInv, TypeOK
<1>2. \A d \in Conns : Holding(d) \subseteq Ids /\ Holding(d)' = Holding(d)
  BY <1>1 DEF ConnInv, PlacesInv, Holding
<1>3. /\ \A n \in Ids : n \in Ids' /\ stream'[n].job = stream[n].job
      /\ \A n \in Ids : stream'[n].state = "expired" <=> stream[n].state = "expired"
      /\ \A n \in Ids : Live(n) => \E m \in Ids' : stream'[m].job = Job(n) /\ stream'[m].state \in {"new", "pending"}
      /\ \A j \in Jobs : sent'[j] > 0 => sent[j] > 0 \/ \E m \in Ids' : stream'[m].job = j /\ stream'[m].state \in {"new", "pending"}
  <2>1. CASE UNCHANGED streamVars
    BY <2>1 DEF streamVars, Ids, Live, Job
  <2>2. ASSUME NEW j \in Jobs, AddJob(j)
        PROVE  <1>3!1 /\ <1>3!2 /\ <1>3!3 /\ <1>3!4
    <3>1. Appended(Submitted(j)) /\ (\A n \in Ids : stream'[n] = stream[n]) /\ Submitted(j).job = j
      BY <1>1, <2>2, AddStep
    <3>2. NewId \in Ids' /\ stream'[NewId].job = j /\ stream'[NewId].state = "new" /\ Ids \subseteq Ids'
      BY <3>1 DEF Appended, Ids
    <3>3. \A i \in Jobs : i # j => sent'[i] = sent[i]
      BY <1>1, <2>2 DEF AddJob, StreamTypeOK
    <3> QED
      BY <3>1, <3>2, <3>3 DEF Live, Job
  <2>3. ASSUME NEW k \in Ids, ClaimStale(k) \/ Lapse(k)
        PROVE  <1>3!1 /\ <1>3!2 /\ <1>3!3 /\ <1>3!4
    <3>1. Edited(k) /\ Becoming(k, stream[k].state, stream[k].hint)
      BY <1>1, <2>3, ClaimStep, LapseStep
    <3> QED
      BY <3>1 DEF Edited, Becoming, Ids, Live, Job
  <2>4. ASSUME NEW k \in Ids, Pending(k), RecoverEntry(k)
        PROVE  <1>3!1 /\ <1>3!2 /\ <1>3!3 /\ <1>3!4
    <3> PICK e \in Entries : Retried(k, e)
      BY <1>1, <2>4, RecoverStep
    <3>1. /\ NewId \in Ids' /\ stream'[NewId].job = Job(k) /\ stream'[NewId].state = "new"
          /\ stream'[k].state = "acked" /\ stream[k].state = "pending"
          /\ \A n \in Ids : n # k => stream'[n] = stream[n]
      BY <2>4 DEF Retried, Replacing, Appended, Ids, Job, Becoming, Pending
    <3>2. Effect(k)
      BY RetriedEffect
    <3>3. /\ \A n \in Ids : n \in Ids' /\ Job(n)' = Job(n)
          /\ \A j \in Jobs : sent'[j] > 0 => sent[j] > 0
      BY <3>2, EffectIs
    <3> QED
      BY <3>1, <3>3 DEF Live, Job
  <2> QED
    BY <2>1, <2>2, <2>3, <2>4
<1>4. ASSUME NEW c \in Conns PROVE WholeInv(c)'
  <2>1. conn[c].step \in Chosen \cup {"running", "acking"} => conn[c].job \in Ids
    BY JobHeld DEF Chosen, Before, After
  <2>2. conn[c].current # None => conn[c].current \in Ids
    BY <1>2 DEF Holding
  <2> QED
    BY <1>3, <2>1, <2>2 DEF WholeInv, UnlostInv, At, Job
<1>5. ASSUME NEW j \in Jobs, sent'[j] > 0, hold'[j] = "open" PROVE Cared(j)'
  <2>1. CASE \E m \in Ids' : stream'[m].job = j /\ stream'[m].state \in {"new", "pending"}
    BY <2>1, LiveCared
  <2>2. CASE \E n \in Ids : Live(n) /\ Job(n) = j
    BY <1>3, <2>1, <2>2
  <2>3. ASSUME NEW c \in Conns, Closer(c, j) PROVE Cared(j)'
    <3>1. CASE conn[c].step \in {"closing", "failing"} /\ Job(conn[c].job) = j
      <4>1. conn[c].job \in Ids
        BY <3>1, JobHeld DEF After
      <4> QED
        BY <1>3, <3>1, <4>1 DEF Cared, Closer, Job
    <3>2. CASE \E k \in Holding(c) : stream[k].state = "expired" /\ Job(k) = j
      BY <1>2, <1>3, <3>2 DEF Cared, Closer, Job
    <3> QED
      BY <2>3, <3>1, <3>2 DEF Closer
  <2> QED
    BY <1>3, <1>5, <2>1, <2>2, <2>3 DEF UnlostInv, Cared
<1> QED
  BY <1>4, <1>5 DEF UnlostInv

LEMMA UnlostStarts == Init => UnlostInv
<1> SUFFICES ASSUME Init PROVE UnlostInv
  OBVIOUS
<1>1. \A c \in Conns : conn[c].step = "off" /\ conn[c].current = None
  BY DEF Init, Closed
<1>2. \A j \in Jobs : sent[j] = 0
  BY DEF Init, StreamInit
<1> QED
  BY <1>1, <1>2 DEF UnlostInv, WholeInv, At, Cleanup, Chosen, Before

LEMMA UnlostKept == DispatchInv /\ UnlostInv /\ [Next]_vars => UnlostInv'
<1> SUFFICES ASSUME DispatchInv, UnlostInv, [Next]_vars, drops' = 0 PROVE UnlostInv'
  BY DEF UnlostInv
<1>1. drops \in Nat
  BY DEF DispatchInv, TypeOK
<1>2. CASE UNCHANGED vars
  BY <1>2, BackgroundUnlost DEF vars, socketVars
<1>3. ASSUME NEW j \in Jobs, Submit(j) PROVE UnlostInv'
  BY <1>3, BackgroundUnlost DEF Submit, socketVars
<1>4. ASSUME NEW w \in Workers, RegistryExpires(w) PROVE UnlostInv'
  BY <1>4, BackgroundUnlost DEF RegistryExpires
<1>5. ASSUME NEW k \in Ids, Claim(k) \/ Recover(k) \/ LapseOne(k) PROVE UnlostInv'
  BY <1>5, BackgroundUnlost DEF Claim, Recover, LapseOne, Owned, socketVars
<1>6. ASSUME NEW c \in Conns, ConnStep(c) PROVE UnlostInv'
  <2>1. CASE Refresh(c)
    BY <2>1, BackgroundUnlost DEF Refresh
  <2>2. CASE \/ (\E k \in Ids : Polls(c, k)) \/ Prefetch(c) \/ Take(c) \/ Connect(c)
    <3>1. drops = 0
      BY <2>2 DEF Polls, Prefetch, Take, Connect
    <3> QED
      BY <2>2, <3>1, FetchingUnlost
  <2>3. CASE \/ Recheck(c) \/ Choose(c) \/ Bounce(c) \/ Unserved(c) \/ FindPeers(c)
             \/ (\E w \in Workers : RouteTo(c, w)) \/ Mismatch(c)
    <3>1. drops = 0
      BY <2>3 DEF Recheck, Choose, Bounce, Unserved, FindPeers, RouteTo, Mismatch
    <3> QED
      BY <2>3, <3>1, LoopStepUnlost
  <2>4. CASE Succeeds(c) \/ SettleFails(c) \/ AckPaid(c) \/ FailsVisibly(c) \/ FailsEmpty(c) \/ Release(c)
    <3>1. drops = 0
      BY <2>4 DEF Succeeds, SettleFails, AckPaid, FailsVisibly, FailsEmpty, Release
    <3> QED
      BY <2>4, <3>1, EndingsUnlost
  <2>5. CASE CleanupStep(c)
    <3>1. drops = 0 /\ conn[c].step \in Cleanup
      BY <2>5 DEF CleanupStep, RequeueCurrent, ReleaseCurrent, Drain, ReleaseSlot, At, Cleanup
    <3> QED
      BY <3>1 DEF UnlostInv, WholeInv
  <2>6. CASE Disconnect(c) \/ Crash(c)
    BY <1>1, <2>6 DEF Disconnect, Crash
  <2> QED
    BY <1>6, <2>1, <2>2, <2>3, <2>4, <2>5, <2>6 DEF ConnStep, LoopStep
<1> QED
  BY <1>2, <1>3, <1>4, <1>5, <1>6 DEF Next

(***************************************************************************)
(* Until a connection is lost, a submitted job whose hold is open has a    *)
(* live delivery or a handler about to close it, for any numbers of jobs,  *)
(* workers and connections: no bounce, retry, route, verdict, recovery or  *)
(* settlement of worker_ws.py acknowledges the last delivery into nowhere. *)
(***************************************************************************)
THEOREM NothingIsStranded == Spec => []NeverStranded
<1>1. Init => DispatchInv /\ UnlostInv
  BY InitSafe, UnlostStarts
<1>2. DispatchInv /\ UnlostInv /\ [Next]_vars => DispatchInv' /\ UnlostInv'
  BY NextSafe, UnlostKept
<1>3. UnlostInv => NeverStranded
  BY DEF UnlostInv, NeverStranded
<1> QED
  BY <1>1, <1>2, <1>3, PTL DEF Spec
-----------------------------------------------------------------------------
(***************************************************************************)
(* The dispatch implements DeliveryLife.  Every step leaves the stream     *)
(* alone, adds a job, edits one live entry or replaces one pending entry,  *)
(* and each of these is a step of the life of that entry's job.            *)
(***************************************************************************)

\* Job j goes from phase p to phase q, the others stay where they are.
Moves(j, p, q) ==
    /\ Phase(j) = p /\ Phase(j)' = q
    /\ \A i \in Jobs : i # j => Phase(i)' = Phase(i)

LEMMA AddMoves ==
    ASSUME StreamTypeOK, StreamInv, NEW j \in Jobs, AddJob(j)
    PROVE  /\ Moves(j, "unsent", "live")
           /\ sent' = [sent EXCEPT ![j] = @ + 1] /\ recovered' = recovered
<1>0. PICK m : m = NewId
  OBVIOUS
<1>1. /\ Ids' = Ids \cup {m} /\ Job(m)' = j /\ Live(m)'
      /\ \A n \in Ids : stream'[n] = stream[n]
  BY <1>0, AddStep DEF Appended, Ids, Job, Live
<1>2. sent[j] = 0 /\ sent' = [sent EXCEPT ![j] = 1] /\ recovered' = recovered
      /\ sent \in [Jobs -> Nat]
  BY DEF AddJob, StreamTypeOK
<1>3. Phase(j) = "unsent" /\ Phase(j)' = "live"
  <2>1. sent'[j] # 0
    BY <1>2
  <2>2. Phase(j) = "unsent"
    BY <1>2 DEF Phase, StreamInv
  <2> QED
    BY <1>1, <2>1, <2>2 DEF Phase
<1>4. ASSUME NEW i \in Jobs, i # j PROVE Phase(i)' = Phase(i)
  <2>1. (\E n \in Ids' : Job(n)' = i /\ Live(n)') <=> \E n \in Ids : Job(n) = i /\ Live(n)
    BY <1>1, <1>4 DEF Job, Live
  <2>2. sent'[i] = sent[i]
    BY <1>2, <1>4
  <2> QED
    BY <2>1, <2>2 DEF Phase
<1> QED
  BY <1>2, <1>3, <1>4 DEF Moves

LEMMA EditMoves ==
    ASSUME StreamTypeOK, StreamInv, NEW k \in Ids, NEW j, j = Job(k), EditedAs(k)
    PROVE  /\ j \in Jobs /\ (Moves(j, "live", "live") \/ Moves(j, "live", "gone"))
           /\ sent' = sent /\ recovered' = recovered
<1>1. /\ Ids' = Ids /\ sent' = sent /\ recovered' = recovered /\ Live(k) /\ j \in Jobs
      /\ \A n \in Ids : Job(n)' = Job(n) /\ (n # k => Live(n)' = Live(n))
  BY EntryTyped DEF EditedAs, Edited, Ids, Job, Live, Pending
<1>2. sent[j] # 0
  BY <1>1 DEF StreamInv
<1>3. Phase(j) = "live" /\ Phase(j)' \in {"live", "gone"}
  BY <1>1, <1>2 DEF Phase
<1>4. ASSUME NEW i \in Jobs, i # j PROVE Phase(i)' = Phase(i)
  <2>1. (\E n \in Ids' : Job(n)' = i /\ Live(n)') <=> \E n \in Ids : Job(n) = i /\ Live(n)
    BY <1>1, <1>4
  <2> QED
    BY <1>1, <2>1 DEF Phase
<1> QED
  BY <1>1, <1>3, <1>4 DEF Moves

LEMMA RetryMoves ==
    ASSUME StreamTypeOK, StreamInv, NEW k \in Ids, NEW j, j = Job(k), NEW e \in Entries, Retried(k, e)
    PROVE  /\ j \in Jobs /\ Moves(j, "live", "live")
           /\ sent' = [sent EXCEPT ![j] = @ + 1]
           /\ \/ recovered' = [recovered EXCEPT ![j] = @ + 1]
              \/ recovered' = recovered /\ sent[j] - recovered[j] < 1 + MaxAffinity + 2 * MaxRequeue
<1>0. PICK m : m = NewId
  OBVIOUS
<1>1. /\ Ids' = Ids \cup {m} /\ m \notin Ids /\ Job(m)' = j /\ Live(m)' /\ Live(k) /\ j \in Jobs
      /\ \A n \in Ids : Job(n)' = Job(n) /\ (n # k => Live(n)' = Live(n))
      /\ sent' = [sent EXCEPT ![j] = @ + 1]
  BY <1>0, EntryTyped DEF Retried, Replacing, Appended, Ids, Job, Live, Pending
<1>2. sent \in [Jobs -> Nat] /\ recovered \in [Jobs -> Nat] /\ sent[j] # 0
  BY <1>1 DEF StreamTypeOK, StreamInv
<1>3. Phase(j) = "live" /\ Phase(j)' = "live"
  <2>1. sent'[j] # 0
    BY <1>1, <1>2
  <2> QED
    BY <1>1, <1>2, <2>1 DEF Phase
<1>4. ASSUME NEW i \in Jobs, i # j PROVE Phase(i)' = Phase(i)
  <2>1. (\E n \in Ids' : Job(n)' = i /\ Live(n)') <=> \E n \in Ids : Job(n) = i /\ Live(n)
    BY <1>1, <1>4
  <2>2. sent'[i] = sent[i]
    BY <1>1, <1>2, <1>4
  <2> QED
    BY <2>1, <2>2 DEF Phase
<1>5. \/ recovered' = [recovered EXCEPT ![j] = @ + 1]
      \/ recovered' = recovered /\ sent[j] - recovered[j] < 1 + MaxAffinity + 2 * MaxRequeue
  <2>1. /\ sent[j] = 1 + recovered[j] + stream[k].passes + stream[k].requeues
        /\ stream[k].passes <= MaxAffinity /\ stream[k].failures <= MaxRequeue
        /\ stream[k].requeues <= MaxRequeue + stream[k].failures
    BY <1>1 DEF StreamInv, Counted
  <2>2. /\ stream[k].passes \in Nat /\ stream[k].requeues \in Nat /\ stream[k].failures \in Nat
        /\ sent[j] \in Nat /\ recovered[j] \in Nat
    BY <1>1, <1>2, EntryTyped
  <2>3. CASE recovered' = recovered
             /\ (stream[k].passes < MaxAffinity \/ stream[k].requeues < MaxRequeue
                   \/ stream[k].failures < MaxRequeue)
    BY <2>1, <2>2, <2>3
  <2>4. CASE Saved(k)
    BY <2>4 DEF Saved, Job
  <2> QED
    BY <2>3, <2>4 DEF Retried
<1> QED
  BY <1>1, <1>3, <1>4, <1>5 DEF Moves

-----------------------------------------------------------------------------
\* What a step of the system does to the stream.
Kinds ==
    \/ UNCHANGED streamVars
    \/ \E j \in Jobs : AddJob(j)
    \/ \E k \in Ids : Effect(k)

LEMMA LoopKinds ==
    ASSUME DispatchInv, NEW c \in Conns, conn[c].step \in Before \cup After,
           LoopStep(c)
    PROVE  Kinds
<1> DEFINE k == conn[c].job
<1>1. k \in Ids /\ StreamTypeOK /\ StreamInv
  BY JobHeld
<1>2. Ack(k) => Effect(k)
  BY <1>1, OwnEffects
<1>3. CASE Prefetch(c) \/ Take(c) \/ Choose(c) \/ FindPeers(c) \/ Succeeds(c) \/ SettleFails(c) \/ Release(c)
  BY <1>3 DEF Kinds, Prefetch, Take, Choose, FindPeers, Succeeds, SettleFails, Release
<1>4. CASE Recheck(c) \/ Unserved(c) \/ AckPaid(c) \/ FailsVisibly(c)
  BY <1>1, <1>2, <1>4 DEF Kinds, Recheck, Unserved, AckPaid, FailsVisibly
<1>5. CASE Bounce(c)
  BY <1>1, <1>5, OwnEffects DEF Kinds, Bounce, Owned
<1>6. CASE Mismatch(c)
  BY <1>1, <1>2, <1>6, OwnEffects DEF Kinds, Mismatch, Owned
<1>7. ASSUME NEW w \in Workers, RouteTo(c, w) PROVE Kinds
  BY <1>1, <1>2, <1>7, RouteEffect DEF Kinds, RouteTo, Owned
<1>8. CASE FailsEmpty(c)
  <2>1. stream[k].failures < MaxGeneration => stream[k].failures < MaxRequeue
    BY <1>1, EntryTyped
  <2> QED
    BY <1>1, <1>2, <1>8, <2>1, OwnEffects DEF Kinds, FailsEmpty
<1> QED
  BY <1>3, <1>4, <1>5, <1>6, <1>7, <1>8 DEF LoopStep

LEMMA ConnKinds ==
    ASSUME DispatchInv, NEW c \in Conns, ConnStep(c)
    PROVE  Kinds
<1>0. TypeOK /\ StreamTypeOK /\ StreamInv /\ ConnInv(c)
  BY DEF DispatchInv, TypeOK
<1>1. CASE Connect(c) \/ Refresh(c) \/ Disconnect(c) \/ Crash(c) \/ ReleaseCurrent(c) \/ ReleaseSlot(c)
  BY <1>1 DEF Kinds, Connect, Refresh, Disconnect, Crash, ReleaseCurrent, ReleaseSlot
<1>2. ASSUME NEW k \in Ids, Polls(c, k) PROVE Kinds
  <2>1. WorkerOf[c] \in Workers
    OBVIOUS
  <2> QED
    BY <1>0, <1>2, <2>1, ReadEffect, TakeEffect DEF Kinds, Polls
<1>3. CASE LoopStep(c)
  <2>1. CASE conn[c].step \in Before \cup After
    BY <1>3, <2>1, LoopKinds
  <2>2. CASE conn[c].step \notin Before \cup After
    BY <1>3, <2>2 DEF LoopStep, Kinds, Prefetch, Take, Recheck, Choose, Bounce, Unserved, FindPeers,
       RouteTo, Mismatch, Succeeds, SettleFails, AckPaid, FailsVisibly, FailsEmpty, Release, At,
       Before, After
  <2> QED
    BY <2>1, <2>2
<1>4. CASE RequeueCurrent(c)
  <2> DEFINE k == conn[c].current
  <2>1. k # None => k \in Ids
    BY <1>0 DEF ConnInv, PlacesInv
  <2> QED
    BY <1>4, <2>1, OwnEffects DEF Kinds, RequeueCurrent
<1>5. CASE Drain(c)
  <2> DEFINE k == conn[c].slot
  <2>1. k # None => k \in Ids
    BY <1>0 DEF ConnInv, PlacesInv
  <2> QED
    BY <1>5, <2>1, OwnEffects DEF Kinds, Drain
<1> QED
  BY <1>1, <1>2, <1>3, <1>4, <1>5 DEF ConnStep, CleanupStep

LEMMA StepKinds ==
    ASSUME DispatchInv, [Next]_vars
    PROVE  Kinds
<1>0. StreamTypeOK
  BY DEF DispatchInv, TypeOK
<1>1. CASE UNCHANGED vars
  BY <1>1 DEF vars, Kinds
<1>2. ASSUME NEW k \in Ids, Claim(k) \/ Recover(k) \/ LapseOne(k) PROVE Kinds
  <2>1. CASE ClaimStale(k) \/ Lapse(k)
    BY <1>0, <2>1, ClaimStep, LapseStep
       DEF Kinds, Effect, EditedAs, ClaimStale, Lapse, Live, Pending
  <2>2. CASE Pending(k) /\ RecoverEntry(k)
    BY <1>0, <2>2, RecoverStep DEF Kinds, Effect
  <2> QED
    BY <1>2, <2>1, <2>2 DEF Claim, Recover, LapseOne, Owned
<1>3. ASSUME NEW j \in Jobs, Submit(j) PROVE Kinds
  BY <1>3 DEF Submit, Kinds
<1>4. ASSUME NEW w \in Workers, RegistryExpires(w) PROVE Kinds
  BY <1>4 DEF RegistryExpires, Kinds
<1> QED
  BY <1>1, <1>2, <1>3, <1>4, ConnKinds DEF Next

-----------------------------------------------------------------------------
\* One job's move is a step of its life.
LEMMA MovesPhases ==
    ASSUME NEW j \in Jobs, NEW p, NEW q, Moves(j, p, q)
    PROVE  [i \in Jobs |-> Phase(i)]' = [[i \in Jobs |-> Phase(i)] EXCEPT ![j] = q]
BY DEF Moves

LEMMA MovesLife ==
    ASSUME DispatchInv, Kinds
    PROVE  [Life!DeliveryNext]_(Life!deliveryVars)
<1> DEFINE ph == [i \in Jobs |-> Phase(i)]
<1>0. StreamTypeOK /\ StreamInv
  BY DEF DispatchInv, TypeOK
<1>1. CASE UNCHANGED streamVars
  BY <1>1 DEF streamVars, Life!deliveryVars, Phase, Live, Job, Ids
<1>2. ASSUME NEW j \in Jobs, AddJob(j) PROVE Life!DeliveryNext
  <2>1. /\ Moves(j, "unsent", "live")
        /\ sent' = [sent EXCEPT ![j] = @ + 1] /\ recovered' = recovered
    BY <1>0, <1>2, AddMoves
  <2>2. ph' = [ph EXCEPT ![j] = "live"] /\ ph[j] = "unsent"
    BY <2>1, MovesPhases DEF Moves
  <2>3. Life!SubmitOnce(j)
    BY <2>1, <2>2 DEF Life!SubmitOnce
  <2> QED
    BY <2>3 DEF Life!DeliveryNext
<1>3. ASSUME NEW k \in Ids, EditedAs(k)
      PROVE  Life!DeliveryNext \/ UNCHANGED Life!deliveryVars
  <2>1. PICK j : j = Job(k)
    OBVIOUS
  <2>2. /\ j \in Jobs /\ (Moves(j, "live", "live") \/ Moves(j, "live", "gone"))
        /\ sent' = sent /\ recovered' = recovered
    BY <1>0, <1>3, <2>1, EditMoves
  <2>3. CASE Moves(j, "live", "live")
    <3>1. ph' = ph
      BY <2>2, <2>3 DEF Moves
    <3> QED
      BY <2>2, <3>1 DEF Life!deliveryVars
  <2>4. CASE Moves(j, "live", "gone")
    <3>1. ph' = [ph EXCEPT ![j] = "gone"] /\ ph[j] = "live"
      BY <2>2, <2>4, MovesPhases DEF Moves
    <3>2. Life!EndDelivery(j)
      BY <2>2, <3>1 DEF Life!EndDelivery
    <3> QED
      BY <2>2, <3>2 DEF Life!DeliveryNext
  <2> QED
    BY <2>2, <2>3, <2>4
<1>4. ASSUME NEW k \in Ids, NEW e \in Entries, Retried(k, e) PROVE Life!DeliveryNext
  <2>1. PICK j : j = Job(k)
    OBVIOUS
  <2>2. /\ j \in Jobs /\ Moves(j, "live", "live")
        /\ sent' = [sent EXCEPT ![j] = @ + 1]
        /\ \/ recovered' = [recovered EXCEPT ![j] = @ + 1]
           \/ recovered' = recovered /\ sent[j] - recovered[j] < 1 + MaxAffinity + 2 * MaxRequeue
    BY <1>0, <1>4, <2>1, RetryMoves
  <2>3. ph' = ph /\ ph[j] = "live"
    BY <2>2 DEF Moves
  <2>4. Life!RetryWithin(j) \/ Life!Save(j)
    BY <2>2, <2>3 DEF Life!RetryWithin, Life!Save
  <2> QED
    BY <2>2, <2>4 DEF Life!DeliveryNext
<1> QED
  BY <1>1, <1>2, <1>3, <1>4 DEF Kinds, Effect

LEMMA LifeInit == Init => Life!DeliveryInit
<1> SUFFICES ASSUME Init PROVE Life!DeliveryInit
  OBVIOUS
<1>1. sent = [j \in Jobs |-> 0] /\ recovered = [j \in Jobs |-> 0]
  BY DEF Init, StreamInit
<1>2. \A j \in Jobs : Phase(j) = "unsent"
  <2>1. Ids = {}
    BY DEF Init, StreamInit, Ids
  <2> QED
    BY <1>1, <2>1 DEF Phase
<1> QED
  BY <1>1, <1>2 DEF Life!DeliveryInit

(***************************************************************************)
(* The stream with its workers, retries, recoveries and lost connections   *)
(* implements the life of a delivery: a job that has lost its delivery     *)
(* never gets another, and every delivery beyond the budget is a recovery. *)
(***************************************************************************)
THEOREM DispatchImplements == Spec => ImplementsDelivery
<1>1. DispatchInv /\ [Next]_vars => [Life!DeliveryNext]_(Life!deliveryVars)
  BY StepKinds, MovesLife
<1> QED
  BY <1>1, LifeInit, DispatchInductive, PTL DEF Spec, ImplementsDelivery, Life!DeliverySpec
=============================================================================
