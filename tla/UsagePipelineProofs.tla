------------------------- MODULE UsagePipelineProofs -------------------------
(***************************************************************************)
(* Proofs about the path of usage data from the probes to the screen, for  *)
(* any providers, accounts, batches and bounds.                            *)
(***************************************************************************)
EXTENDS UsagePipeline, SequenceTheorems, TLAPS

Event ==
  [type : {"result"}, batch : BatchId, end : End]
    \cup [type : {"complete"}, batch : BatchId] \cup [type : {"updated"}]

State == [data : Stamp, loading : BOOLEAN]

TypeOK ==
  /\ enabled \subseteq Provider /\ registered \subseteq AccountKey
  /\ codex \subseteq AccountKey /\ persisting \subseteq AccountKey
  /\ cache \in [Key -> Stamp] /\ clock \in Stamp
  /\ batch \in [BatchId -> Batch]
  /\ events \in Seq(Event)
  /\ booted \in BOOLEAN
  /\ ui \in [Key -> State]
  /\ cooling \subseteq Key /\ manual \subseteq Key /\ lost \subseteq Key
  /\ active \subseteq BatchId
  /\ hydrating \in Nat /\ replies \subseteq [Key -> Stamp]

LEMMA PipelineConstants ==
  /\ AccountKey \cap Provider = {}
  /\ ProviderOf \in [AccountKey -> Provider]
  /\ MaxStamp \in Nat \ {0}
  /\ Disturbance \subseteq AllDisturbances
  BY PipelineAssumption DEF PipelineAssumption

LEMMA UnusedIsBatch == Unused \in Batch /\ Finished \in Batch
  BY DEF Unused, Finished, Batch

LEMMA UnitsAreKeys ==
  ASSUME TypeOK, NEW ids \in SUBSET Provider
  PROVE  expand_probe_units(ids) \subseteq Key
  BY DEF TypeOK, expand_probe_units, Key

LEMMA InitTypeOK == Init => TypeOK
  <1> SUFFICES ASSUME Init PROVE TypeOK
      OBVIOUS
  <1>1. 0 \in Stamp /\ 1 \in Stamp
    BY PipelineConstants DEF Stamp
  <1>2. cache \in [Key -> Stamp] /\ clock \in Stamp
    BY <1>1 DEF Init
  <1>3. batch \in [BatchId -> Batch]
    BY UnusedIsBatch DEF Init
  <1>4. ui \in [Key -> State]
    BY <1>1 DEF Init, Blank, State
  <1>5. events \in Seq(Event)
    BY DEF Init
  <1> QED BY <1>2, <1>3, <1>4, <1>5 DEF Init, TypeOK

\* What startBatch leaves: the batch b is asked for.
Asked(b, keys, m) ==
  /\ Free(b) /\ lost' = lost /\ active' = active \cup {b}
  /\ batch' \in [BatchId -> Batch]
  /\ \A c \in BatchId \ {b} : batch'[c] = batch[c]
  /\ batch'[b].state = "requested" /\ batch'[b].keys = keys /\ batch'[b].manual = m
  /\ batch'[b].awaited = {} /\ batch'[b].ended = {}

LEMMA StartsTyped ==
  ASSUME TypeOK, NEW ids \in SUBSET Provider, NEW keys \in SUBSET Key, NEW m \in BOOLEAN,
         startBatch(ids, keys, m)
  PROVE  \E b \in BatchId : Asked(b, keys, m)
  <1>1. PICK b \in BatchId :
           /\ Free(b) /\ lost' = lost /\ active' = active \cup {b}
           /\ batch' = [batch EXCEPT ![b] =
                [Unused EXCEPT !.state = "requested", !.ids = ids, !.keys = keys, !.manual = m]]
    BY DEF startBatch
  <1>2. [Unused EXCEPT !.state = "requested", !.ids = ids, !.keys = keys, !.manual = m] \in Batch
    BY DEF Unused, Batch
  <1>3. batch \in [BatchId -> Batch]
    BY DEF TypeOK
  <1> DEFINE r == [Unused EXCEPT !.state = "requested", !.ids = ids, !.keys = keys, !.manual = m]
  <1>4. /\ r.state = "requested" /\ r.keys = keys /\ r.manual = m
        /\ r.awaited = {} /\ r.ended = {}
    BY DEF Unused
  <1>5. batch' = [batch EXCEPT ![b] = r] /\ r \in Batch
    BY <1>1, <1>2
  <1> HIDE DEF r
  <1>6. /\ batch' \in [BatchId -> Batch] /\ batch'[b] = r
        /\ \A c \in BatchId \ {b} : batch'[c] = batch[c]
    BY <1>3, <1>5
  <1> QED BY <1>1, <1>4, <1>6 DEF Asked

LEMMA MarksTyped ==
  ASSUME TypeOK, NEW keys, setLoadingForPlugins(keys) \/ setErrorForPlugins(keys)
  PROVE  ui' \in [Key -> State]
  BY DEF TypeOK, setLoadingForPlugins, setErrorForPlugins, State

LEMMA RefreshTyped ==
  ASSUME TypeOK, NEW ids \in SUBSET Provider, NEW keys \in SUBSET Key, NEW m \in BOOLEAN,
         setLoadingForPlugins(keys), startBatch(ids, keys, m)
  PROVE  /\ ui' \in [Key -> State] /\ batch' \in [BatchId -> Batch]
         /\ active' \subseteq BatchId /\ lost' = lost
  <1>1. ui' \in [Key -> State]
    BY MarksTyped
  <1>2. PICK b \in BatchId : Asked(b, keys, m)
    BY StartsTyped, Zenon
  <1> QED BY <1>1, <1>2 DEF TypeOK, Asked

LEMMA EmitTyped ==
  ASSUME TypeOK, NEW e \in Event, Emit(e)
  PROVE  events' \in Seq(Event)
  BY DEF TypeOK, Emit

LEMMA EventTypes ==
  ASSUME NEW b \in BatchId
  PROVE  /\ CompleteEvent(b) \in Event /\ UpdatedEvent \in Event
         /\ \A e \in End : ResultEvent(b, e) \in Event
  BY DEF Event, CompleteEvent, UpdatedEvent, ResultEvent

LEMMA BackendTyped == ASSUME TypeOK, Backend PROVE TypeOK'
  <1> PICK b \in BatchId :
        \/ start_probe_batch(b) \/ ScheduledBatch(b) \/ EmitResult(b) \/ CompleteBatch(b)
        \/ \E k \in Key, kind \in Kind : ProbeEnds(b, k, kind)
        \/ \E k \in Key : ProbePanics(b, k)
      BY DEF Backend
  <1>0. batch \in [BatchId -> Batch] /\ batch[b] \in Batch
    BY DEF TypeOK
  <1>1. CASE start_probe_batch(b)
    <2> DEFINE units == expand_probe_units(batch[b].ids)
    <2>1. units \subseteq Key
      BY <1>0, UnitsAreKeys DEF Batch
    <2>2. batch' \in [BatchId -> Batch]
      <3>1. CASE batch' = [batch EXCEPT ![b] = Finished]
        BY <1>0, <3>1, UnusedIsBatch
      <3>2. CASE batch' = [batch EXCEPT ![b].state = "running", ![b].awaited = units]
        <4>1. [batch[b] EXCEPT !.state = "running", !.awaited = units] \in Batch
          BY <1>0, <2>1 DEF Batch
        <4>2. batch' = [batch EXCEPT ![b] = [batch[b] EXCEPT !.state = "running", !.awaited = units]]
          BY <1>0, <3>2
        <4> QED BY <1>0, <4>1, <4>2
      <3> QED BY <1>1, <3>1, <3>2 DEF start_probe_batch
    <2>3. events' \in Seq(Event)
      BY <1>1, EmitTyped, EventTypes DEF start_probe_batch, TypeOK
    <2>4. lost' \subseteq Key
      BY <1>0, <1>1 DEF start_probe_batch, Batch, TypeOK
    <2> QED BY <1>1, <2>2, <2>3, <2>4
            DEF start_probe_batch, TypeOK, settingVars, syncVars
  <1>2. CASE ScheduledBatch(b)
    <2>1. expand_probe_units(enabled) \subseteq Key
      BY UnitsAreKeys DEF TypeOK
    <2>2. [Unused EXCEPT !.state = "running", !.scheduled = TRUE,
                         !.awaited = expand_probe_units(enabled)] \in Batch
      BY <2>1 DEF Unused, Batch
    <2>3. batch' \in [BatchId -> Batch]
      BY <1>0, <1>2, <2>2 DEF ScheduledBatch
    <2> QED BY <1>2, <2>3 DEF ScheduledBatch, TypeOK, settingVars, screenVars, syncVars
  <1>3. CASE EmitResult(b)
    <2>1. PICK e \in batch[b].ended :
            Emit(ResultEvent(b, e)) /\ batch' = [batch EXCEPT ![b].ended = @ \ {e}]
      BY <1>3 DEF EmitResult
    <2>2. e \in End
      BY <1>0 DEF Batch
    <2>3. batch' \in [BatchId -> Batch]
      <3>1. [batch[b] EXCEPT !.ended = @ \ {e}] \in Batch
        BY <1>0 DEF Batch
      <3>2. batch' = [batch EXCEPT ![b] = [batch[b] EXCEPT !.ended = @ \ {e}]]
        BY <1>0, <2>1
      <3> QED BY <1>0, <3>1, <3>2
    <2>4. events' \in Seq(Event)
      BY <2>1, <2>2, EmitTyped, EventTypes
    <2> QED BY <1>3, <2>3, <2>4 DEF EmitResult, TypeOK, settingVars, screenVars, syncVars
  <1>4. CASE CompleteBatch(b)
    <2>1. batch' \in [BatchId -> Batch]
      BY <1>0, <1>4, UnusedIsBatch DEF CompleteBatch
    <2>2. events' \in Seq(Event)
      <3>1. <<CompleteEvent(b), UpdatedEvent>> \in Seq(Event) /\ <<CompleteEvent(b)>> \in Seq(Event)
        BY EventTypes
      <3> QED BY <1>4, <3>1 DEF CompleteBatch, TypeOK
    <2> QED BY <1>4, <2>1, <2>2 DEF CompleteBatch, TypeOK, settingVars, screenVars, syncVars
  <1>5. ASSUME NEW k \in Key, NEW kind \in Kind, ProbeEnds(b, k, kind) PROVE TypeOK'
    <2> DEFINE stamp == IF kind = "ok" THEN NextStamp ELSE 0
               e == [key |-> k, kind |-> kind, data |-> stamp]
    <2>1. stamp \in Stamp /\ e \in End
      BY PipelineConstants DEF NextStamp, Stamp, TypeOK, End
    <2>2. /\ batch' = [batch EXCEPT ![b].awaited = @ \ {k}, ![b].ended = @ \cup {e}]
          /\ IF kind = "ok" THEN cache' = [cache EXCEPT ![k] = stamp] /\ clock' = stamp
             ELSE UNCHANGED <<cache, clock>>
          /\ UNCHANGED <<settingVars, events, booted, screenVars, syncVars>>
      BY <1>5 DEF ProbeEnds
    <2> HIDE DEF e, stamp
    <2>3. batch' \in [BatchId -> Batch]
      <3>1. [batch[b] EXCEPT !.awaited = @ \ {k}, !.ended = @ \cup {e}] \in Batch
        BY <1>0, <2>1 DEF Batch
      <3>2. batch' = [batch EXCEPT ![b] = [batch[b] EXCEPT !.awaited = @ \ {k}, !.ended = @ \cup {e}]]
        BY <1>0, <2>2
      <3> QED BY <1>0, <3>1, <3>2
    <2>4. cache' \in [Key -> Stamp] /\ clock' \in Stamp
      BY <2>1, <2>2 DEF TypeOK
    <2> QED BY <2>2, <2>3, <2>4 DEF TypeOK, settingVars, screenVars, syncVars
  <1>6. ASSUME NEW k \in Key, ProbePanics(b, k) PROVE TypeOK'
    <2>1. batch' \in [BatchId -> Batch]
      <3>1. [batch[b] EXCEPT !.awaited = @ \ {k}] \in Batch
        BY <1>0 DEF Batch
      <3>2. batch' = [batch EXCEPT ![b] = [batch[b] EXCEPT !.awaited = @ \ {k}]]
        BY <1>0, <1>6 DEF ProbePanics
      <3> QED BY <1>0, <3>1, <3>2
    <2> QED BY <1>6, <2>1 DEF ProbePanics, TypeOK, settingVars, syncVars
  <1> QED BY <1>1, <1>2, <1>3, <1>4, <1>5, <1>6

LEMMA StartingTyped == ASSUME TypeOK, Starting PROVE TypeOK'
  <1> USE DEF settingVars, syncVars
  <1>1. CASE Bootstrap
    <2>1. enabled \in SUBSET Provider /\ enabled \in SUBSET Key /\ FALSE \in BOOLEAN
      BY DEF TypeOK, Key
    <2>2. setLoadingForPlugins(enabled) /\ startBatch(enabled, enabled, FALSE)
      BY <1>1 DEF Bootstrap
    <2>3. /\ ui' \in [Key -> State] /\ batch' \in [BatchId -> Batch]
          /\ active' \subseteq BatchId /\ lost' = lost
      BY <2>1, <2>2, RefreshTyped, Zenon
    <2> QED BY <1>1, <2>3 DEF Bootstrap, TypeOK
  <1>2. ASSUME NEW ids \in SUBSET Provider, startManualRefresh(ids) PROVE TypeOK'
    <2>1. ids \in SUBSET Key /\ TRUE \in BOOLEAN
      BY DEF Key
    <2>2. setLoadingForPlugins(ids) /\ startBatch(ids, ids, TRUE)
      BY <1>2 DEF startManualRefresh
    <2>3. /\ ui' \in [Key -> State] /\ batch' \in [BatchId -> Batch]
          /\ active' \subseteq BatchId /\ lost' = lost
      BY <2>1, <2>2, RefreshTyped, Zenon
    <2> QED BY <1>2, <2>1, <2>3 DEF startManualRefresh, TypeOK
  <1>3. CASE handleRefreshAll
    <2>1. {p \in enabled : Eligible(p)} \in SUBSET Provider
      BY DEF TypeOK
    <2> QED BY <1>2, <1>3, <2>1 DEF handleRefreshAll
  <1>4. ASSUME NEW p \in Provider, handleRetryPlugin(p) PROVE TypeOK'
    <2>1. {p} \in SUBSET Provider
      OBVIOUS
    <2> QED BY <1>2, <1>4, <2>1 DEF handleRetryPlugin
  <1>5. ASSUME NEW p \in Provider, handleToggle(p) PROVE TypeOK'
    <2>1. CASE p \in enabled
      BY <1>5, <2>1 DEF handleToggle, TypeOK, screenVars
    <2>2. CASE p \notin enabled
      <3>1. {p} \in SUBSET Provider /\ {p} \in SUBSET Key /\ FALSE \in BOOLEAN
        BY DEF Key
      <3>2. setLoadingForPlugins({p}) /\ startBatch({p}, {p}, FALSE)
        BY <1>5, <2>2 DEF handleToggle
      <3>3. /\ ui' \in [Key -> State] /\ batch' \in [BatchId -> Batch]
            /\ active' \subseteq BatchId /\ lost' = lost
        BY <3>1, <3>2, RefreshTyped, Zenon
      <3> QED BY <1>5, <2>2, <3>3 DEF handleToggle, TypeOK
    <2> QED BY <2>1, <2>2
  <1>6. ASSUME NEW a \in AccountKey, AccountAdded(a) \/ CodexLoginComplete(a) PROVE TypeOK'
    <2>1. {ProviderOf[a]} \in SUBSET Provider /\ {a} \in SUBSET Key /\ FALSE \in BOOLEAN
      BY PipelineConstants DEF Key
    <2>2. setLoadingForPlugins({a}) /\ startBatch({ProviderOf[a]}, {a}, FALSE)
      BY <1>6 DEF AccountAdded, CodexLoginComplete
    <2>3. /\ ui' \in [Key -> State] /\ batch' \in [BatchId -> Batch]
          /\ active' \subseteq BatchId /\ lost' = lost
      BY <2>1, <2>2, RefreshTyped, Zenon
    <2>4. CASE AccountAdded(a)
      BY <2>3, <2>4 DEF AccountAdded, TypeOK
    <2>5. CASE CodexLoginComplete(a)
      BY <2>3, <2>5 DEF CodexLoginComplete, TypeOK
    <2> QED BY <1>6, <2>4, <2>5
  <1>7. ASSUME NEW a \in AccountKey, PersistCodexAccount(a) \/ RemoveAccount(a) PROVE TypeOK'
    BY <1>7 DEF PersistCodexAccount, RemoveAccount, TypeOK, backendVars, screenVars
  <1>8. ASSUME NEW b \in BatchId, RequestFails(b) PROVE TypeOK'
    <2>1. ui' \in [Key -> State]
      BY <1>8, MarksTyped DEF RequestFails
    <2>2. batch' \in [BatchId -> Batch]
      BY <1>8, UnusedIsBatch DEF RequestFails, TypeOK
    <2> QED BY <1>8, <2>1, <2>2 DEF RequestFails, TypeOK
  <1>9. ASSUME NEW k \in Key, CooldownPasses(k) PROVE TypeOK'
    BY <1>9 DEF CooldownPasses, TypeOK, backendVars
  <1> QED BY <1>1, <1>3, <1>4, <1>5, <1>6, <1>7, <1>8, <1>9 DEF Starting

\* What a delivered event is and leaves.
LEMMA HeadTyped ==
  ASSUME TypeOK, events # <<>>
  PROVE  /\ Head(events) \in Event /\ Tail(events) \in Seq(Event)
         /\ Head(events) = events[1] /\ Len(events) \in Nat \ {0}
         /\ Len(Tail(events)) = Len(events) - 1
         /\ \A i \in 1 .. Len(Tail(events)) : Tail(events)[i] = events[i + 1]
  <1>1. events \in Seq(Event)
    BY DEF TypeOK
  <1>2. Len(events) \in Nat \ {0} /\ Head(events) = events[1]
    BY <1>1, EmptySeq
  <1> QED BY <1>1, <1>2, HeadTailProperties

LEMMA ReceivingTyped == ASSUME TypeOK, Receiving PROVE TypeOK'
  <1> USE DEF settingVars, backendVars, syncVars
  <1>1. CASE DeliverResult
    <2> DEFINE e == Head(events).end
    <2>1. events' \in Seq(Event) /\ Head(events) \in Event /\ Head(events).type = "result"
      BY <1>1, HeadTyped DEF DeliverResult
    <2>2. e \in End
      BY <2>1 DEF Event
    <2>3. CASE handleProbeResult(e)
      <3> HIDE DEF e
      <3>1. Received(ui[e.key], e) \in State
        BY <2>2 DEF Received, State, TypeOK, End
      <3>2. ui' \in [Key -> State]
        BY <2>2, <2>3, <3>1 DEF handleProbeResult, TypeOK, End
      <3>3. manual' \subseteq Key /\ cooling' \subseteq Key /\ lost' \subseteq Key
        BY <2>2, <2>3 DEF handleProbeResult, TypeOK, End
      <3> QED BY <1>1, <2>1, <3>2, <3>3 DEF DeliverResult, TypeOK
    <2>4. CASE UNCHANGED <<ui, manual, cooling, lost>>
      BY <1>1, <2>1, <2>4 DEF DeliverResult, TypeOK
    <2> QED BY <1>1, <2>3, <2>4 DEF DeliverResult
  <1>2. CASE DeliverComplete
    BY <1>2, HeadTyped DEF DeliverComplete, TypeOK
  <1>3. CASE DeliverUpdated
    BY <1>3, HeadTyped DEF DeliverUpdated, TypeOK, screenVars
  <1>4. CASE BecomesVisible
    BY <1>4 DEF BecomesVisible, TypeOK, screenVars
  <1>5. CASE get_cached_usage
    <2>1. enabled_usage_snapshots \in [Key -> Stamp]
      BY PipelineConstants DEF enabled_usage_snapshots, TypeOK, Stamp
    <2> QED BY <1>5, <2>1 DEF get_cached_usage, TypeOK, screenVars
  <1>6. CASE Hydrate
    <2>1. PICK s \in replies : applyCachedSnapshots(s) /\ replies' = replies \ {s}
      BY <1>6 DEF Hydrate
    <2>2. ui' \in [Key -> State]
      BY <2>1 DEF applyCachedSnapshots, TypeOK, State
    <2> QED BY <1>6, <2>1, <2>2 DEF Hydrate, TypeOK
  <1> QED BY <1>1, <1>2, <1>3, <1>4, <1>5, <1>6 DEF Receiving

LEMMA NextTypeOK == TypeOK /\ [Next]_vars => TypeOK'
  <1>1. ASSUME TypeOK, UNCHANGED vars PROVE TypeOK'
    BY <1>1 DEF TypeOK, vars, settingVars, backendVars, screenVars, syncVars
  <1> QED BY <1>1, BackendTyped, StartingTyped, ReceivingTyped, Zenon DEF Next

\* lib.rs, use-probe*.ts: every variable of the path keeps its type, for any
\* providers, accounts, batches and bounds.
THEOREM PipelineTypeCorrect == Spec => []TypeOK
  BY InitTypeOK, NextTypeOK, PTL DEF Spec

-----------------------------------------------------------------------------
(***************************************************************************)
(* What is on its way to the webview.  A batch does nothing before it runs *)
(* or after it is done, nothing is heard of it before it runs, and nothing *)
(* after it is complete.                                                   *)
(***************************************************************************)
OnlyRunningWorks ==
  \A b \in BatchId :
    batch[b].state # "running" => batch[b].awaited = {} /\ batch[b].ended = {}

Unheard ==
  \A b \in BatchId : batch[b].state \in {"unused", "requested"} =>
    \A i \in 1 .. Len(events) : events[i].type # "updated" => events[i].batch # b

CompleteIsDone ==
  \A i \in 1 .. Len(events) :
    events[i].type = "complete" => batch[events[i].batch].state = "done"

CompleteIsLast ==
  \A i, j \in 1 .. Len(events) :
    i < j /\ events[i].type = "complete" /\ events[j].type = "result"
      => events[i].batch # events[j].batch

EventInv == Unheard /\ CompleteIsDone /\ CompleteIsLast

\* Events are added, all of them from a set.
Grows(new) ==
  /\ Len(events) \in Nat /\ Len(events') \in Nat /\ Len(events) <= Len(events')
  /\ \A i \in 1 .. Len(events) : events'[i] = events[i]
  /\ \A i \in 1 .. Len(events') : i > Len(events) => events'[i] \in new

LEMMA SameEventsGrow ==
  ASSUME TypeOK, events' = events PROVE Grows({})
  BY DEF TypeOK, Grows

LEMMA EmitGrows ==
  ASSUME TypeOK, NEW e \in Event, Emit(e)
  PROVE  Grows({e}) /\ Len(events') = Len(events) + 1 /\ events'[Len(events')] = e
  <1>1. events \in Seq(Event) /\ events' = Append(events, e)
    BY DEF TypeOK, Emit
  <1>2. /\ Len(events') = Len(events) + 1 /\ Len(events) \in Nat
        /\ \A i \in 1 .. Len(events) : events'[i] = events[i]
        /\ events'[Len(events) + 1] = e
    BY <1>1, AppendProperties
  <1>3. \A i \in 1 .. Len(events') : i > Len(events) => i = Len(events) + 1
    BY <1>2
  <1> QED BY <1>2, <1>3 DEF Grows

LEMMA CompletesGrow ==
  ASSUME TypeOK, NEW b \in BatchId, CompleteBatch(b)
  PROVE  Grows({CompleteEvent(b), UpdatedEvent})
  <1> DEFINE t == IF batch[b].scheduled THEN <<CompleteEvent(b), UpdatedEvent>>
                  ELSE <<CompleteEvent(b)>>
  <1>0. ASSUME NEW x, NEW y PROVE <<x, y>> \in Seq({x, y}) /\ <<x>> \in Seq({x, y})
    OBVIOUS
  <1>6. t \in Seq({CompleteEvent(b), UpdatedEvent})
    BY <1>0, Zenon
  <1>1. t \in Seq({CompleteEvent(b), UpdatedEvent}) /\ t \in Seq(Event)
    <2>1. {CompleteEvent(b), UpdatedEvent} \subseteq Event
      BY EventTypes
    <2> HIDE DEF t
    <2> QED BY <1>6, <2>1, SeqMonotonic
  <1>2. events \in Seq(Event) /\ events' = events \o t
    BY DEF TypeOK, CompleteBatch
  <1> HIDE DEF t
  <1>3. /\ Len(events) \in Nat /\ Len(t) \in Nat /\ Len(events') = Len(events) + Len(t)
        /\ \A i \in 1 .. Len(events) + Len(t) :
              events'[i] = IF i <= Len(events) THEN events[i] ELSE t[i - Len(events)]
    BY <1>1, <1>2, ConcatProperties, LenProperties
  <1>4. \A i \in 1 .. Len(t) : t[i] \in {CompleteEvent(b), UpdatedEvent}
    BY <1>1, ElementOfSeq
  <1>5. ASSUME NEW i \in 1 .. Len(events'), i > Len(events)
        PROVE  events'[i] \in {CompleteEvent(b), UpdatedEvent}
    <2>1. i - Len(events) \in 1 .. Len(t) /\ i \in 1 .. Len(events) + Len(t) /\ ~(i <= Len(events))
      BY <1>3, <1>5
    <2>2. events'[i] = t[i - Len(events)]
      BY <1>3, <2>1
    <2> QED BY <1>4, <2>1, <2>2
  <1> QED BY <1>3, <1>5 DEF Grows

LEMMA EventsGrow ==
  ASSUME EventInv, NEW new, Grows(new),
         \A c \in BatchId : batch[c].state = "done" => batch'[c].state = "done",
         \A c \in BatchId : batch'[c].state \in {"unused", "requested"} =>
           /\ batch[c].state \in {"unused", "requested"}
           /\ \A e \in new : e.type # "updated" => e.batch # c,
         \A e \in new : e.type = "complete" => batch'[e.batch].state = "done",
         \A e \in new : e.type = "result" => batch[e.batch].state # "done",
         \A e, f \in new : e.type = "complete" => f.type # "result",
         \A i \in 1 .. Len(events) : events[i].type # "updated" => events[i].batch \in BatchId
  PROVE  EventInv'
  <1>1. \A i \in 1 .. Len(events') :
          \/ i \in 1 .. Len(events) /\ events'[i] = events[i]
          \/ i > Len(events) /\ events'[i] \in new
    BY DEF Grows
  <1>2. Unheard'
    BY <1>1 DEF EventInv, Unheard
  <1>3. CompleteIsDone'
    BY <1>1 DEF EventInv, CompleteIsDone
  <1>4. CompleteIsLast'
    <2> SUFFICES ASSUME NEW i \in 1 .. Len(events'), NEW j \in 1 .. Len(events'), i < j,
                        events'[i].type = "complete", events'[j].type = "result",
                        events'[i].batch = events'[j].batch
                 PROVE  FALSE
      BY DEF CompleteIsLast
    <2>1. CASE i \in 1 .. Len(events) /\ j \in 1 .. Len(events)
      BY <1>1, <2>1 DEF EventInv, CompleteIsLast, Grows
    <2>2. CASE i \in 1 .. Len(events) /\ j > Len(events)
      <3>1. events'[i] = events[i] /\ events'[j] \in new
        BY <2>2 DEF Grows
      <3>2. batch[events[i].batch].state = "done"
        BY <2>2, <3>1 DEF EventInv, CompleteIsDone
      <3> QED BY <3>1, <3>2
    <2>3. CASE i > Len(events) /\ j > Len(events)
      BY <2>3 DEF Grows
    <2> QED BY <2>1, <2>2, <2>3 DEF Grows
  <1> QED BY <1>2, <1>3, <1>4 DEF EventInv

LEMMA EventsShrink ==
  ASSUME TypeOK, EventInv, events # <<>>, events' = Tail(events),
         \A c \in BatchId : batch'[c] = batch[c]
  PROVE  EventInv'
  <1>1. /\ Len(events) \in Nat \ {0} /\ Len(events') = Len(events) - 1
        /\ \A i \in 1 .. Len(events') : events'[i] = events[i + 1] /\ events[i + 1] \in Event
    <2>1. \A i \in 1 .. Len(events) : events[i] \in Event
      BY DEF TypeOK
    <2> QED BY <2>1, HeadTyped
  <1>2. \A i \in 1 .. Len(events') : i + 1 \in 1 .. Len(events)
    BY <1>1
  <1>3. Unheard'
    BY <1>1, <1>2 DEF EventInv, Unheard
  <1>4. CompleteIsDone'
    BY <1>1, <1>2 DEF EventInv, CompleteIsDone, Event
  <1>5. CompleteIsLast'
    <2> SUFFICES ASSUME NEW i \in 1 .. Len(events'), NEW j \in 1 .. Len(events'), i < j,
                        events'[i].type = "complete", events'[j].type = "result"
                 PROVE  events'[i].batch # events'[j].batch
      BY DEF CompleteIsLast
    <2>1. i + 1 < j + 1
      BY <1>1
    <2> QED BY <1>1, <1>2, <2>1 DEF EventInv, CompleteIsLast
  <1> QED BY <1>3, <1>4, <1>5 DEF EventInv

EventsInv == OnlyRunningWorks /\ EventInv

LEMMA EventFields ==
  ASSUME TypeOK
  PROVE  /\ \A i \in 1 .. Len(events) :
              /\ events[i] \in Event
              /\ events[i].type # "updated" => events[i].batch \in BatchId
              /\ events[i].type = "result" => events[i].end \in End
         /\ Len(events) \in Nat
  <1>1. \A i \in 1 .. Len(events) : events[i] \in Event
    BY DEF TypeOK
  <1>2. \A e \in Event : /\ e.type # "updated" => e.batch \in BatchId
                         /\ e.type = "result" => e.end \in End
    BY DEF Event
  <1> QED BY <1>1, <1>2 DEF TypeOK

\* A step by which no batch but c moves, and c by no more than start, running
\* and end allow.
LEMMA BatchMoves ==
  ASSUME TypeOK, EventsInv, NEW new, Grows(new), NEW c \in BatchId,
         \A b \in BatchId \ {c} : batch'[b] = batch[b],
         batch[c].state # "done",
         batch'[c].state \in {"unused", "requested"} =>
           batch[c].state \in {"unused", "requested"} /\ new = {},
         batch'[c].state # "running" => batch'[c].awaited = {} /\ batch'[c].ended = {},
         \A e \in new : e.type # "updated" => e.batch = c,
         \A e \in new : e.type = "complete" => batch'[c].state = "done",
         \A e, f \in new : e.type = "complete" => f.type # "result"
  PROVE  EventsInv'
  <1>1. OnlyRunningWorks'
    BY DEF EventsInv, OnlyRunningWorks
  <1>2. \A b \in BatchId : batch[b].state = "done" => batch'[b].state = "done"
    OBVIOUS
  <1>3. \A b \in BatchId : batch'[b].state \in {"unused", "requested"} =>
          /\ batch[b].state \in {"unused", "requested"}
          /\ \A e \in new : e.type # "updated" => e.batch # b
    OBVIOUS
  <1>4. \A e \in new : e.type = "complete" => batch'[e.batch].state = "done"
    OBVIOUS
  <1>5. \A e \in new : e.type = "result" => batch[e.batch].state # "done"
    OBVIOUS
  <1>6. \A i \in 1 .. Len(events) : events[i].type # "updated" => events[i].batch \in BatchId
    BY EventFields
  <1>7. EventInv'
    BY <1>2, <1>3, <1>4, <1>5, <1>6, EventsGrow DEF EventsInv
  <1> QED BY <1>1, <1>7 DEF EventsInv

LEMMA EventKinds ==
  ASSUME NEW b \in BatchId
  PROVE  /\ CompleteEvent(b).type = "complete" /\ CompleteEvent(b).batch = b
         /\ UpdatedEvent.type = "updated"
         /\ \A e : /\ ResultEvent(b, e).type = "result" /\ ResultEvent(b, e).batch = b
                   /\ ResultEvent(b, e).end = e
  BY DEF CompleteEvent, UpdatedEvent, ResultEvent

\* Events are added, none of them a result.
GrowsQuietly == \E new : Grows(new) /\ \A e \in new : e.type # "result"

\* What the steps of the backend do to the batch c and to the events.
LEMMA Started ==
  ASSUME TypeOK, EventsInv, NEW c \in BatchId, start_probe_batch(c)
  PROVE  /\ GrowsQuietly
         /\ EventsInv' /\ batch'[c].ended \subseteq batch[c].ended
         /\ \A b \in BatchId \ {c} : batch'[b] = batch[b]
         /\ batch[c].state = "requested"
         /\ \A k \in batch[c].keys : k \in batch'[c].awaited \/ k \in lost'
  <1> DEFINE units == expand_probe_units(batch[c].ids)
  <1>0. batch \in [BatchId -> Batch] /\ batch[c].state = "requested"
    BY DEF start_probe_batch, TypeOK
  <1>1. CASE units = {}
    <2>1. Emit(CompleteEvent(c)) /\ batch' = [batch EXCEPT ![c] = Finished]
      BY <1>1 DEF start_probe_batch
    <2>2. Grows({CompleteEvent(c)})
      BY <2>1, EmitGrows, EventTypes
    <2>3. /\ \A b \in BatchId \ {c} : batch'[b] = batch[b]
          /\ batch'[c].state = "done" /\ batch'[c].awaited = {} /\ batch'[c].ended = {}
      BY <1>0, <2>1 DEF Finished, Unused
    <2>4. EventsInv'
      BY <1>0, <2>2, <2>3, BatchMoves, EventKinds
    <2>5. lost' = lost \cup batch[c].keys
      BY <1>1 DEF start_probe_batch
    <2>6. GrowsQuietly
      BY <2>2, EventKinds DEF GrowsQuietly
    <2> QED BY <1>0, <2>3, <2>4, <2>5, <2>6
  <1>2. CASE units # {}
    <2>1. batch' = [batch EXCEPT ![c].state = "running", ![c].awaited = units] /\ events' = events
      BY <1>2 DEF start_probe_batch
    <2>2. Grows({})
      BY <2>1, SameEventsGrow
    <2>3. /\ \A b \in BatchId \ {c} : batch'[b] = batch[b]
          /\ batch'[c].state = "running" /\ batch'[c].awaited = units
          /\ batch'[c].ended = batch[c].ended
      BY <1>0, <2>1 DEF Batch
    <2>4. EventsInv'
      BY <1>0, <2>2, <2>3, BatchMoves
    <2>5. lost' = lost \cup (batch[c].keys \ units)
      BY DEF start_probe_batch
    <2>6. GrowsQuietly
      BY <2>2 DEF GrowsQuietly
    <2> QED BY <1>0, <2>3, <2>4, <2>5, <2>6
  <1> QED BY <1>1, <1>2

LEMMA Scheduled ==
  ASSUME TypeOK, EventsInv, NEW c \in BatchId, ScheduledBatch(c)
  PROVE  /\ GrowsQuietly
         /\ EventsInv' /\ batch'[c].ended \subseteq batch[c].ended
         /\ \A b \in BatchId \ {c} : batch'[b] = batch[b]
         /\ batch[c].state = "unused"
  <1>1. /\ batch[c].state = "unused" /\ events' = events
        /\ batch' = [batch EXCEPT ![c] = [Unused EXCEPT !.state = "running", !.scheduled = TRUE,
                                                   !.awaited = expand_probe_units(enabled)]]
    BY DEF ScheduledBatch, Free
  <1>2. Grows({})
    BY <1>1, SameEventsGrow
  <1>3. /\ \A b \in BatchId \ {c} : batch'[b] = batch[b]
        /\ batch'[c].state = "running" /\ batch'[c].ended = {}
    BY <1>1 DEF TypeOK, Unused
  <1>4. EventsInv'
    BY <1>1, <1>2, <1>3, BatchMoves
  <1>6. GrowsQuietly
    BY <1>2 DEF GrowsQuietly
  <1> QED BY <1>1, <1>2, <1>3, <1>4, <1>6

LEMMA Ended ==
  ASSUME TypeOK, EventsInv, NEW c \in BatchId, NEW k \in Key, NEW kind \in Kind,
         ProbeEnds(c, k, kind)
  PROVE  /\ GrowsQuietly
         /\ EventsInv'
         /\ \A b \in BatchId \ {c} : batch'[b] = batch[b]
         /\ batch[c].state = "running"
         /\ batch'[c].awaited = batch[c].awaited \ {k}
         /\ batch[c].ended \subseteq batch'[c].ended
         /\ \E e \in batch'[c].ended : e.key = k
  <1> DEFINE stamp == IF kind = "ok" THEN NextStamp ELSE 0
             e == [key |-> k, kind |-> kind, data |-> stamp]
  <1>1. /\ batch[c].state = "running" /\ events' = events
        /\ batch' = [batch EXCEPT ![c].awaited = @ \ {k}, ![c].ended = @ \cup {e}]
    BY DEF ProbeEnds
  <1>2. e.key = k
    OBVIOUS
  <1> HIDE DEF e, stamp
  <1>3. Grows({})
    BY <1>1, SameEventsGrow
  <1>4. /\ \A b \in BatchId \ {c} : batch'[b] = batch[b]
        /\ batch'[c].state = "running" /\ batch'[c].awaited = batch[c].awaited \ {k}
        /\ batch'[c].ended = batch[c].ended \cup {e}
    BY <1>1 DEF TypeOK, Batch
  <1>5. EventsInv'
    <2>1. batch[c].state # "done" /\ batch'[c].state = "running"
      BY <1>1, <1>4
    <2> QED BY <1>3, <1>4, <2>1, BatchMoves
  <1>6. GrowsQuietly
    BY <1>3 DEF GrowsQuietly
  <1> QED BY <1>1, <1>2, <1>3, <1>4, <1>5, <1>6

LEMMA Panicked ==
  ASSUME TypeOK, EventsInv, NEW c \in BatchId, NEW k \in Key, ProbePanics(c, k)
  PROVE  /\ GrowsQuietly
         /\ EventsInv' /\ batch'[c].ended \subseteq batch[c].ended
         /\ \A b \in BatchId \ {c} : batch'[b] = batch[b]
         /\ batch[c].state = "running"
         /\ batch'[c].awaited = batch[c].awaited \ {k}
         /\ batch'[c].ended = batch[c].ended
  <1>1. /\ batch[c].state = "running" /\ events' = events
        /\ batch' = [batch EXCEPT ![c].awaited = @ \ {k}]
    BY DEF ProbePanics
  <1>2. Grows({})
    BY <1>1, SameEventsGrow
  <1>3. /\ \A b \in BatchId \ {c} : batch'[b] = batch[b]
        /\ batch'[c].state = "running" /\ batch'[c].awaited = batch[c].awaited \ {k}
        /\ batch'[c].ended = batch[c].ended
    BY <1>1 DEF TypeOK, Batch
  <1>4. EventsInv'
    BY <1>1, <1>2, <1>3, BatchMoves
  <1>6. GrowsQuietly
    BY <1>2 DEF GrowsQuietly
  <1> QED BY <1>1, <1>2, <1>3, <1>4, <1>6

LEMMA Emitted ==
  ASSUME TypeOK, EventsInv, NEW c \in BatchId, EmitResult(c)
  PROVE  \E e \in batch[c].ended :
           /\ Grows({ResultEvent(c, e)})
           /\ EventsInv'
           /\ \A b \in BatchId \ {c} : batch'[b] = batch[b]
           /\ batch[c].state = "running"
           /\ batch'[c].awaited = batch[c].awaited
           /\ batch'[c].ended = batch[c].ended \ {e}
           /\ Len(events') = Len(events) + 1 /\ events'[Len(events')] = ResultEvent(c, e)
  <1>1. PICK e \in batch[c].ended :
          Emit(ResultEvent(c, e)) /\ batch' = [batch EXCEPT ![c].ended = @ \ {e}]
    BY DEF EmitResult
  <1>2. e \in End /\ batch[c].state = "running"
    BY DEF TypeOK, Batch, EventsInv, OnlyRunningWorks
  <1>3. /\ Grows({ResultEvent(c, e)})
        /\ Len(events') = Len(events) + 1 /\ events'[Len(events')] = ResultEvent(c, e)
    BY <1>1, <1>2, EmitGrows, EventTypes
  <1>4. /\ \A b \in BatchId \ {c} : batch'[b] = batch[b]
        /\ batch'[c].state = "running" /\ batch'[c].awaited = batch[c].awaited
        /\ batch'[c].ended = batch[c].ended \ {e}
    BY <1>1, <1>2 DEF TypeOK, Batch
  <1>5. EventsInv'
    BY <1>2, <1>3, <1>4, BatchMoves, EventKinds
  <1> QED BY <1>2, <1>3, <1>4, <1>5

LEMMA Completed ==
  ASSUME TypeOK, EventsInv, NEW c \in BatchId, CompleteBatch(c)
  PROVE  /\ GrowsQuietly
         /\ EventsInv' /\ batch'[c].ended \subseteq batch[c].ended
         /\ \A b \in BatchId \ {c} : batch'[b] = batch[b]
         /\ batch[c].state = "running" /\ batch[c].awaited = {} /\ batch[c].ended = {}
  <1>1. /\ batch[c].state = "running" /\ batch[c].awaited = {} /\ batch[c].ended = {}
        /\ batch' = [batch EXCEPT ![c] = Finished]
    BY DEF CompleteBatch
  <1>2. Grows({CompleteEvent(c), UpdatedEvent})
    BY CompletesGrow
  <1>3. /\ \A b \in BatchId \ {c} : batch'[b] = batch[b]
        /\ batch'[c].state = "done" /\ batch'[c].awaited = {} /\ batch'[c].ended = {}
    BY <1>1 DEF TypeOK, Finished, Unused
  <1>4. EventsInv'
    BY <1>1, <1>2, <1>3, BatchMoves, EventKinds
  <1>6. GrowsQuietly
    BY <1>2, EventKinds DEF GrowsQuietly
  <1> QED BY <1>1, <1>2, <1>3, <1>4, <1>6

-----------------------------------------------------------------------------
(***************************************************************************)
(* Spinners.  A request that is not started yet may still be rejected, and *)
(* then only a manual one undoes the mark of a manual refresh: that mark   *)
(* needs a batch started by hand, or one that has results.                 *)
(***************************************************************************)
Spinning == {k \in Key : ui[k].loading}

Reports(b, k) ==
  \/ k \in batch[b].awaited
  \/ \E e \in batch[b].ended : e.key = k
  \/ \E i \in 1 .. Len(events) : /\ events[i].type = "result"
                                 /\ events[i].batch = b /\ events[i].end.key = k

Requests(b, k) == batch[b].state = "requested" /\ k \in batch[b].keys

RequestsByHand(b, k) == Requests(b, k) /\ batch[b].manual

SpinnerInv ==
  \A k \in Key :
    /\ k \in Spinning => k \in lost \/ \E b \in active : Requests(b, k) \/ Reports(b, k)
    /\ k \in manual => k \in lost \/ \E b \in active : RequestsByHand(b, k) \/ Reports(b, k)

PathInv == TypeOK /\ EventsInv /\ SpinnerInv

LEMMA SpinnerInvIsCover == SpinnerInv => SpinnerHasBatch
  BY DEF SpinnerInv, SpinnerHasBatch, Covered, Spinning, Requests, RequestsByHand, Reports

\* What has been said of k stays said while events are added.
LEMMA ReportsGrow ==
  ASSUME TypeOK, NEW new, Grows(new), NEW b \in BatchId, NEW k, Reports(b, k),
         k \in batch[b].awaited => Reports(b, k)',
         (\E e \in batch[b].ended : e.key = k) => Reports(b, k)'
  PROVE  Reports(b, k)'
  <1>1. CASE \E i \in 1 .. Len(events) : /\ events[i].type = "result"
                                         /\ events[i].batch = b /\ events[i].end.key = k
    <2>1. PICK i \in 1 .. Len(events) : events[i].type = "result" /\ events[i].batch = b
                                        /\ events[i].end.key = k
      BY <1>1
    <2>2. i \in 1 .. Len(events') /\ events'[i] = events[i]
      BY <2>1 DEF Grows
    <2> QED BY <2>1, <2>2 DEF Reports
  <1> QED BY <1>1 DEF Reports

\* A step of the backend: it moves the batch c only, and what c had to say of
\* a key is still to be said, or the key is lost.
LEMMA BackendCovers ==
  ASSUME TypeOK, SpinnerInv, NEW new, Grows(new), NEW c \in BatchId,
         \A b \in BatchId \ {c} : batch'[b] = batch[b],
         ui' = ui, manual' = manual, active' = active, lost \subseteq lost',
         \A k \in Key : c \in active /\ (Requests(c, k) \/ Reports(c, k))
                          => Reports(c, k)' \/ k \in lost'
  PROVE  SpinnerInv'
  <1>1. \A k \in Key, b \in BatchId : b # c /\ Reports(b, k) => Reports(b, k)'
    <2> SUFFICES ASSUME NEW k \in Key, NEW b \in BatchId, b # c, Reports(b, k)
                 PROVE  Reports(b, k)'
        OBVIOUS
    <2>1. batch'[b] = batch[b]
      OBVIOUS
    <2>2. k \in batch[b].awaited => Reports(b, k)'
      BY <2>1 DEF Reports
    <2>3. (\E e \in batch[b].ended : e.key = k) => Reports(b, k)'
      BY <2>1 DEF Reports
    <2> QED BY <2>2, <2>3, ReportsGrow
  <1>2. \A k \in Key, b \in BatchId : b # c =>
          (Requests(b, k) => Requests(b, k)') /\ (RequestsByHand(b, k) => RequestsByHand(b, k)')
    <2>1. \A b \in BatchId : b # c => batch'[b] = batch[b]
      OBVIOUS
    <2> QED BY <2>1 DEF Requests, RequestsByHand
  <1>3. active \subseteq BatchId /\ Spinning' = Spinning
    BY DEF TypeOK, Spinning
  <1> SUFFICES ASSUME NEW k \in Key
               PROVE  /\ k \in Spinning' =>
                           k \in lost' \/ \E b \in active' : Requests(b, k)' \/ Reports(b, k)'
                      /\ k \in manual' =>
                           k \in lost' \/ \E b \in active' : RequestsByHand(b, k)' \/ Reports(b, k)'
      BY Zenon DEF SpinnerInv
  <1>4. ASSUME k \in Spinning'
        PROVE  k \in lost' \/ \E b \in active' : Requests(b, k)' \/ Reports(b, k)'
    <2>1. k \in lost \/ \E b \in active : Requests(b, k) \/ Reports(b, k)
      BY <1>3, <1>4, Zenon DEF SpinnerInv
    <2> QED BY <1>1, <1>2, <1>3, <2>1
  <1>5. ASSUME k \in manual'
        PROVE  k \in lost' \/ \E b \in active' : RequestsByHand(b, k)' \/ Reports(b, k)'
    <2>1. k \in lost \/ \E b \in active : RequestsByHand(b, k) \/ Reports(b, k)
      BY <1>5, Zenon DEF SpinnerInv
    <2>2. \A b \in active : RequestsByHand(b, k) => Requests(b, k)
      BY DEF RequestsByHand
    <2> QED BY <1>1, <1>2, <1>3, <2>1, <2>2
  <1> QED BY <1>4, <1>5

LEMMA BackendInv == ASSUME PathInv, Backend PROVE EventsInv' /\ SpinnerInv'
  <1> USE DEF PathInv
  <1> PICK c \in BatchId :
        \/ start_probe_batch(c) \/ ScheduledBatch(c) \/ EmitResult(c) \/ CompleteBatch(c)
        \/ \E k \in Key, kind \in Kind : ProbeEnds(c, k, kind)
        \/ \E k \in Key : ProbePanics(c, k)
      BY DEF Backend
  <1>0. batch[c].state # "running" => batch[c].awaited = {} /\ batch[c].ended = {}
    BY DEF EventsInv, OnlyRunningWorks
  <1>1. CASE start_probe_batch(c)
    <2>1. PICK new : Grows(new)
      BY <1>1, Started DEF GrowsQuietly
    <2>2. /\ ui' = ui /\ manual' = manual /\ active' = active /\ lost \subseteq lost'
      BY <1>1 DEF start_probe_batch
    <2>3. ASSUME NEW k \in Key, Requests(c, k) \/ Reports(c, k)
          PROVE  Reports(c, k)' \/ k \in lost'
      <3>1. CASE Requests(c, k)
        BY <1>1, <3>1, Started DEF Requests, Reports
      <3>2. CASE Reports(c, k)
        <4>1. batch[c].awaited = {} /\ batch[c].ended = {}
          BY <1>0, <1>1, Started
        <4> QED BY <2>1, <3>2, <4>1, ReportsGrow
      <3> QED BY <2>3, <3>1, <3>2
    <2> QED BY <1>1, <2>1, <2>2, <2>3, Started, BackendCovers
  <1>2. CASE ScheduledBatch(c)
    <2>1. PICK new : Grows(new)
      BY <1>2, Scheduled DEF GrowsQuietly
    <2>2. /\ ui' = ui /\ manual' = manual /\ active' = active /\ lost \subseteq lost'
      BY <1>2 DEF ScheduledBatch, screenVars
    <2>3. ASSUME NEW k \in Key, Requests(c, k) \/ Reports(c, k)
          PROVE  Reports(c, k)' \/ k \in lost'
      <3>1. ~Requests(c, k)
        BY <1>2, Scheduled DEF Requests
      <3>2. batch[c].awaited = {} /\ batch[c].ended = {}
        BY <1>0, <1>2, Scheduled
      <3> QED BY <2>1, <2>3, <3>1, <3>2, ReportsGrow
    <2> QED BY <1>2, <2>1, <2>2, <2>3, Scheduled, BackendCovers
  <1>3. CASE EmitResult(c)
    <2>1. PICK e \in batch[c].ended :
            /\ Grows({ResultEvent(c, e)})
            /\ EventsInv'
            /\ \A b \in BatchId \ {c} : batch'[b] = batch[b]
            /\ batch[c].state = "running"
            /\ batch'[c].awaited = batch[c].awaited
            /\ batch'[c].ended = batch[c].ended \ {e}
            /\ Len(events') = Len(events) + 1 /\ events'[Len(events')] = ResultEvent(c, e)
      BY <1>3, Emitted
    <2>2. /\ ui' = ui /\ manual' = manual /\ active' = active /\ lost \subseteq lost'
      BY <1>3 DEF EmitResult, screenVars
    <2>3. ASSUME NEW k \in Key, Requests(c, k) \/ Reports(c, k)
          PROVE  Reports(c, k)' \/ k \in lost'
      <3>1. ~Requests(c, k)
        BY <2>1 DEF Requests
      <3>2. k \in batch[c].awaited => Reports(c, k)'
        BY <2>1 DEF Reports
      <3>3. ASSUME NEW f \in batch[c].ended, f.key = k PROVE Reports(c, k)'
        <4>1. CASE f # e
          BY <2>1, <3>3, <4>1 DEF Reports
        <4>2. CASE f = e
          <5>1. Len(events') \in 1 .. Len(events')
            BY <2>1 DEF Grows
          <5>2. /\ events'[Len(events')].type = "result" /\ events'[Len(events')].batch = c
                /\ events'[Len(events')].end = e
            BY <2>1, EventKinds
          <5> QED BY <3>3, <4>2, <5>1, <5>2 DEF Reports
        <4> QED BY <4>1, <4>2
      <3> QED BY <2>1, <2>3, <3>1, <3>2, <3>3, ReportsGrow
    <2> QED BY <2>1, <2>2, <2>3, BackendCovers
  <1>4. CASE CompleteBatch(c)
    <2>1. PICK new : Grows(new)
      BY <1>4, Completed DEF GrowsQuietly
    <2>2. /\ ui' = ui /\ manual' = manual /\ active' = active /\ lost \subseteq lost'
      BY <1>4 DEF CompleteBatch, screenVars
    <2>3. ASSUME NEW k \in Key, Requests(c, k) \/ Reports(c, k)
          PROVE  Reports(c, k)' \/ k \in lost'
      <3>1. ~Requests(c, k) /\ batch[c].awaited = {} /\ batch[c].ended = {}
        BY <1>4, Completed DEF Requests
      <3> QED BY <2>1, <2>3, <3>1, ReportsGrow
    <2> QED BY <1>4, <2>1, <2>2, <2>3, Completed, BackendCovers
  <1>5. ASSUME NEW p \in Key, NEW kind \in Kind, ProbeEnds(c, p, kind)
        PROVE  EventsInv' /\ SpinnerInv'
    <2>1. PICK new : Grows(new)
      BY <1>5, Ended DEF GrowsQuietly
    <2>2. /\ ui' = ui /\ manual' = manual /\ active' = active /\ lost \subseteq lost'
      BY <1>5 DEF ProbeEnds, screenVars
    <2>3. ASSUME NEW k \in Key, Requests(c, k) \/ Reports(c, k)
          PROVE  Reports(c, k)' \/ k \in lost'
      <3>0. /\ batch[c].state = "running" /\ batch'[c].awaited = batch[c].awaited \ {p}
            /\ batch[c].ended \subseteq batch'[c].ended /\ \E e \in batch'[c].ended : e.key = p
        BY <1>5, Ended
      <3>1. ~Requests(c, k)
        BY <3>0 DEF Requests
      <3>2. k \in batch[c].awaited => Reports(c, k)'
        BY <3>0 DEF Reports
      <3>3. (\E e \in batch[c].ended : e.key = k) => Reports(c, k)'
        BY <3>0 DEF Reports
      <3> QED BY <2>1, <2>3, <3>1, <3>2, <3>3, ReportsGrow
    <2> QED BY <1>5, <2>1, <2>2, <2>3, Ended, BackendCovers
  <1>6. ASSUME NEW p \in Key, ProbePanics(c, p) PROVE EventsInv' /\ SpinnerInv'
    <2>1. PICK new : Grows(new)
      BY <1>6, Panicked DEF GrowsQuietly
    <2>2. /\ ui' = ui /\ manual' = manual /\ active' = active /\ lost \subseteq lost'
          /\ c \in active => p \in lost'
      BY <1>6 DEF ProbePanics
    <2>3. ASSUME NEW k \in Key, c \in active, Requests(c, k) \/ Reports(c, k)
          PROVE  Reports(c, k)' \/ k \in lost'
      <3>0. /\ batch[c].state = "running" /\ batch'[c].awaited = batch[c].awaited \ {p}
            /\ batch'[c].ended = batch[c].ended
        BY <1>6, Panicked
      <3>1. CASE k = p
        BY <2>2, <2>3, <3>1
      <3>2. CASE k # p
        <4>1. ~Requests(c, k)
          BY <3>0 DEF Requests
        <4>2. k \in batch[c].awaited => Reports(c, k)'
          BY <3>0, <3>2 DEF Reports
        <4>3. (\E e \in batch[c].ended : e.key = k) => Reports(c, k)'
          BY <3>0 DEF Reports
        <4> QED BY <2>1, <2>3, <4>1, <4>2, <4>3, ReportsGrow
      <3> QED BY <3>1, <3>2
    <2> QED BY <1>6, <2>1, <2>2, <2>3, Panicked, BackendCovers
  <1> QED BY <1>1, <1>2, <1>3, <1>4, <1>5, <1>6

\* A step that touches neither batches nor events, and starts no spinner.
LEMMA SameCover ==
  ASSUME PathInv, UNCHANGED <<batch, events, manual, active, lost>>, Spinning' \subseteq Spinning
  PROVE  EventsInv' /\ SpinnerInv'
  <1>1. EventsInv'
    BY DEF PathInv, EventsInv, OnlyRunningWorks, EventInv, Unheard, CompleteIsDone, CompleteIsLast
  <1>2. \A b, k : /\ Requests(b, k)' <=> Requests(b, k)
                  /\ RequestsByHand(b, k)' <=> RequestsByHand(b, k)
                  /\ Reports(b, k)' <=> Reports(b, k)
    BY DEF Requests, RequestsByHand, Reports
  <1>3. SpinnerInv'
    BY <1>2 DEF PathInv, SpinnerInv
  <1> QED BY <1>1, <1>3

\* Nothing is said by a batch that was not started.
LEMMA NotStarted ==
  ASSUME TypeOK, EventsInv, NEW b \in BatchId, batch[b].state \in {"unused", "requested"}
  PROVE  \A k : ~Reports(b, k)
  BY DEF Reports, EventsInv, OnlyRunningWorks, EventInv, Unheard

LEMMA StartCovers ==
  ASSUME PathInv, NEW ids \in SUBSET Provider, NEW keys \in SUBSET Key, NEW m \in BOOLEAN,
         startBatch(ids, keys, m), setLoadingForPlugins(keys), events' = events,
         manual' = manual \/ (m /\ manual' = manual \cup keys)
  PROVE  EventsInv' /\ SpinnerInv'
  <1>0. PICK c \in BatchId : Asked(c, keys, m)
    <2>1. TypeOK
      BY DEF PathInv
    <2> QED BY <2>1, StartsTyped, Zenon
  <1>1. /\ Free(c) /\ lost' = lost /\ active' = active \cup {c}
        /\ batch' \in [BatchId -> Batch]
        /\ \A b \in BatchId \ {c} : batch'[b] = batch[b]
        /\ batch'[c].state = "requested" /\ batch'[c].keys = keys
        /\ batch'[c].manual = m
        /\ batch'[c].awaited = {} /\ batch'[c].ended = {}
    BY <1>0 DEF Asked
  <1>2. batch[c].state = "unused"
    BY <1>1 DEF Free
  <1>3. EventsInv'
    <2>1. Grows({})
      BY SameEventsGrow DEF PathInv
    <2> QED BY <1>1, <1>2, <2>1, BatchMoves DEF PathInv
  <1>4. m => batch'[c].manual
    BY <1>1, Zenon
  <1>5. \A k : ~Reports(c, k) /\ ~Requests(c, k) /\ ~RequestsByHand(c, k)
    <2>1. \A k : ~Reports(c, k)
      BY <1>2, NotStarted DEF PathInv
    <2> QED BY <1>2, <2>1 DEF Requests, RequestsByHand
  <1>6. \A b \in BatchId \ {c} : \A k :
          /\ Requests(b, k) => Requests(b, k)'
          /\ RequestsByHand(b, k) => RequestsByHand(b, k)'
          /\ Reports(b, k) => Reports(b, k)'
    BY <1>1 DEF Requests, RequestsByHand, Reports
  <1>7. Spinning' \subseteq Spinning \cup keys
    BY DEF PathInv, TypeOK, State, setLoadingForPlugins, Spinning
  <1>8. active \subseteq BatchId /\ SpinnerInv
    BY DEF PathInv, TypeOK
  <1>9. ASSUME NEW k \in Key, k \in Spinning'
        PROVE  k \in lost' \/ \E b \in active' : Requests(b, k)' \/ Reports(b, k)'
    <2>1. CASE k \in keys
      BY <1>1, <2>1 DEF Requests
    <2>2. CASE k \notin keys
      <3>1. k \in lost \/ \E b \in active : Requests(b, k) \/ Reports(b, k)
        BY <1>7, <1>8, <1>9, <2>2, Zenon DEF SpinnerInv
      <3> QED BY <1>1, <1>5, <1>6, <1>8, <3>1
    <2> QED BY <2>1, <2>2
  <1>10. ASSUME NEW k \in Key, k \in manual'
         PROVE  k \in lost' \/ \E b \in active' : RequestsByHand(b, k)' \/ Reports(b, k)'
    <2>1. CASE k \in manual
      <3>1. k \in lost \/ \E b \in active : RequestsByHand(b, k) \/ Reports(b, k)
        BY <1>8, <2>1, Zenon DEF SpinnerInv
      <3> QED BY <1>1, <1>5, <1>6, <1>8, <3>1
    <2>2. CASE k \notin manual
      <3>1. m /\ k \in keys
        BY <1>10, <2>2
      <3>2. RequestsByHand(c, k)'
        BY <1>1, <1>4, <3>1 DEF Requests, RequestsByHand
      <3> QED BY <1>1, <3>2
    <2> QED BY <2>1, <2>2
  <1>11. SpinnerInv'
    BY <1>9, <1>10, Zenon DEF SpinnerInv
  <1> QED BY <1>3, <1>11

LEMMA StartingInv == ASSUME PathInv, Starting PROVE EventsInv' /\ SpinnerInv'
  <1>0. TypeOK
    BY DEF PathInv
  <1>1. CASE Bootstrap
    <2>1. enabled \in SUBSET Provider /\ enabled \in SUBSET Key /\ FALSE \in BOOLEAN
      BY <1>0 DEF TypeOK, Key
    <2>2. /\ setLoadingForPlugins(enabled) /\ startBatch(enabled, enabled, FALSE)
          /\ events' = events /\ manual' = manual
      BY <1>1 DEF Bootstrap
    <2> QED BY <2>1, <2>2, StartCovers, Zenon
  <1>2. ASSUME NEW ids \in SUBSET Provider, startManualRefresh(ids)
        PROVE  EventsInv' /\ SpinnerInv'
    <2>1. ids \in SUBSET Key /\ TRUE \in BOOLEAN
      BY DEF Key
    <2>2. /\ setLoadingForPlugins(ids) /\ startBatch(ids, ids, TRUE)
          /\ events' = events /\ manual' = manual \cup ids
      BY <1>2 DEF startManualRefresh
    <2> QED BY <2>1, <2>2, StartCovers, Zenon
  <1>3. CASE handleRefreshAll
    <2>1. {p \in enabled : Eligible(p)} \in SUBSET Provider
      BY <1>0 DEF TypeOK
    <2> QED BY <1>2, <1>3, <2>1 DEF handleRefreshAll
  <1>4. ASSUME NEW p \in Provider, handleRetryPlugin(p) PROVE EventsInv' /\ SpinnerInv'
    <2>1. {p} \in SUBSET Provider
      OBVIOUS
    <2> QED BY <1>2, <1>4, <2>1 DEF handleRetryPlugin
  <1>5. ASSUME NEW p \in Provider, handleToggle(p) PROVE EventsInv' /\ SpinnerInv'
    <2>1. CASE p \in enabled
      <3>1. UNCHANGED <<batch, events, manual, active, lost>> /\ Spinning' = Spinning
        BY <1>5, <2>1 DEF handleToggle, screenVars, Spinning
      <3> QED BY <3>1, SameCover
    <2>2. CASE p \notin enabled
      <3>1. {p} \in SUBSET Provider /\ {p} \in SUBSET Key /\ FALSE \in BOOLEAN
        BY DEF Key
      <3>2. /\ setLoadingForPlugins({p}) /\ startBatch({p}, {p}, FALSE)
            /\ events' = events /\ manual' = manual
        BY <1>5, <2>2 DEF handleToggle
      <3> QED BY <3>1, <3>2, StartCovers, Zenon
    <2> QED BY <2>1, <2>2
  <1>6. ASSUME NEW a \in AccountKey, AccountAdded(a) \/ CodexLoginComplete(a)
        PROVE  EventsInv' /\ SpinnerInv'
    <2>1. {ProviderOf[a]} \in SUBSET Provider /\ {a} \in SUBSET Key /\ FALSE \in BOOLEAN
      BY PipelineConstants DEF Key
    <2>2. /\ setLoadingForPlugins({a}) /\ startBatch({ProviderOf[a]}, {a}, FALSE)
          /\ events' = events /\ manual' = manual
      BY <1>6 DEF AccountAdded, CodexLoginComplete
    <2> QED BY <2>1, <2>2, StartCovers, Zenon
  <1>7. ASSUME NEW a \in AccountKey, PersistCodexAccount(a) \/ RemoveAccount(a)
        PROVE  EventsInv' /\ SpinnerInv'
    <2>1. UNCHANGED <<batch, events, manual, active, lost>> /\ Spinning' = Spinning
      BY <1>7 DEF PersistCodexAccount, RemoveAccount, backendVars, screenVars, Spinning
    <2> QED BY <2>1, SameCover
  <1>8. ASSUME NEW c \in BatchId, RequestFails(c) PROVE EventsInv' /\ SpinnerInv'
    <2>1. /\ batch[c].state = "requested" /\ batch' = [batch EXCEPT ![c] = Finished]
          /\ active' = active \ {c} /\ events' = events /\ lost' = lost
          /\ manual' = IF batch[c].manual THEN manual \ batch[c].keys ELSE manual
          /\ setErrorForPlugins(batch[c].keys)
      BY <1>8 DEF RequestFails
    <2>2. /\ \A b \in BatchId \ {c} : batch'[b] = batch[b]
          /\ batch'[c].state = "done" /\ batch'[c].awaited = {} /\ batch'[c].ended = {}
      BY <1>0, <2>1 DEF TypeOK, Finished, Unused
    <2>3. EventsInv'
      <3>1. Grows({})
        BY <1>0, <2>1, SameEventsGrow
      <3> QED BY <2>1, <2>2, <3>1, BatchMoves DEF PathInv
    <2>4. \A k : ~Reports(c, k)
      BY <2>1, NotStarted DEF PathInv
    <2>5. \A b \in BatchId \ {c} : \A k :
            /\ Requests(b, k) => Requests(b, k)'
            /\ RequestsByHand(b, k) => RequestsByHand(b, k)'
            /\ Reports(b, k) => Reports(b, k)'
      BY <2>1, <2>2 DEF Requests, RequestsByHand, Reports
    <2>6. Spinning' \subseteq Spinning \ batch[c].keys
      BY <1>0, <2>1 DEF TypeOK, State, setErrorForPlugins, Spinning
    <2>7. active \subseteq BatchId /\ SpinnerInv
      BY DEF PathInv, TypeOK
    <2>8. ASSUME NEW k \in Key, k \in Spinning'
          PROVE  k \in lost' \/ \E b \in active' : Requests(b, k)' \/ Reports(b, k)'
      <3>1. ~Requests(c, k)
        BY <2>6, <2>8 DEF Requests
      <3>2. k \in lost \/ \E b \in active : Requests(b, k) \/ Reports(b, k)
        BY <2>6, <2>7, <2>8, Zenon DEF SpinnerInv
      <3> QED BY <2>1, <2>4, <2>5, <2>7, <3>1, <3>2
    <2>9. ASSUME NEW k \in Key, k \in manual'
          PROVE  k \in lost' \/ \E b \in active' : RequestsByHand(b, k)' \/ Reports(b, k)'
      <3>1. k \in manual /\ ~RequestsByHand(c, k)
        BY <2>1, <2>9 DEF Requests, RequestsByHand
      <3>2. k \in lost \/ \E b \in active : RequestsByHand(b, k) \/ Reports(b, k)
        BY <2>7, <3>1, Zenon DEF SpinnerInv
      <3> QED BY <2>1, <2>4, <2>5, <2>7, <3>1, <3>2
    <2>10. SpinnerInv'
      BY <2>8, <2>9, Zenon DEF SpinnerInv
    <2> QED BY <2>3, <2>10
  <1>9. ASSUME NEW k \in Key, CooldownPasses(k) PROVE EventsInv' /\ SpinnerInv'
    <2>1. UNCHANGED <<batch, events, manual, active, lost>> /\ Spinning' = Spinning
      BY <1>9 DEF CooldownPasses, backendVars, Spinning
    <2> QED BY <2>1, SameCover
  <1> QED BY <1>1, <1>3, <1>4, <1>5, <1>6, <1>7, <1>8, <1>9 DEF Starting

\* An event is delivered: what the others say of a key is still on its way.
LEMMA DeliveryCovers ==
  ASSUME TypeOK, events # <<>>, events' = Tail(events), batch' = batch,
         NEW b, NEW k, Reports(b, k),
         ~(/\ events[1].type = "result" /\ events[1].batch = b /\ events[1].end.key = k)
  PROVE  Reports(b, k)'
  <1>1. CASE k \in batch[b].awaited \/ \E e \in batch[b].ended : e.key = k
    BY <1>1 DEF Reports
  <1>2. CASE \E i \in 1 .. Len(events) : /\ events[i].type = "result"
                                         /\ events[i].batch = b /\ events[i].end.key = k
    <2>1. PICK i \in 1 .. Len(events) : /\ events[i].type = "result"
                                        /\ events[i].batch = b /\ events[i].end.key = k
      BY <1>2
    <2>2. i # 1
      BY <2>1
    <2>3. /\ Len(events) \in Nat /\ Len(events') = Len(events) - 1
          /\ \A j \in 1 .. Len(events') : events'[j] = events[j + 1]
      BY HeadTyped
    <2>4. i - 1 \in 1 .. Len(events') /\ (i - 1) + 1 = i
      BY <2>2, <2>3
    <2>5. events'[i - 1] = events[i]
      BY <2>3, <2>4
    <2> QED BY <2>1, <2>4, <2>5 DEF Reports
  <1> QED BY <1>1, <1>2 DEF Reports

LEMMA ReceivingInv == ASSUME PathInv, Receiving PROVE EventsInv' /\ SpinnerInv'
  <1>0. TypeOK /\ EventsInv /\ SpinnerInv
    BY DEF PathInv
  <1>1. ASSUME events # <<>>, events' = Tail(events), batch' = batch
        PROVE  EventsInv'
    <2>1. EventInv'
      BY <1>0, <1>1, EventsShrink DEF EventsInv
    <2>2. OnlyRunningWorks'
      BY <1>0, <1>1 DEF EventsInv, OnlyRunningWorks
    <2> QED BY <2>1, <2>2 DEF EventsInv
  <1>2. ASSUME batch' = batch
        PROVE  \A b, k : /\ Requests(b, k)' <=> Requests(b, k)
                         /\ RequestsByHand(b, k)' <=> RequestsByHand(b, k)
    BY <1>2 DEF Requests, RequestsByHand
  <1>3. CASE DeliverResult
    <2>1. events # <<>> /\ events' = Tail(events) /\ batch' = batch /\ active' = active
      BY <1>3 DEF DeliverResult, backendVars
    <2>2. events[1] \in Event /\ events[1].type = "result" /\ Head(events) = events[1]
      BY <1>0, <1>3, HeadTyped DEF DeliverResult
    <2> DEFINE e == events[1].end
    <2>3. e.key \in Key
      BY <2>2 DEF Event, End
    <2>4. CASE events[1].batch \in active
      <3>1. handleProbeResult(e)
        BY <1>3, <2>2, <2>4 DEF DeliverResult
      <3>2. /\ manual' = manual \ {e.key} /\ lost' = lost \ {e.key}
            /\ Spinning' \subseteq Spinning \ {e.key}
        BY <1>0, <2>3, <3>1 DEF handleProbeResult, Received, Spinning, TypeOK, State
      <3>3. \A b, k : k # e.key /\ Reports(b, k) => Reports(b, k)'
        BY <1>0, <2>1, DeliveryCovers
      <3>4. SpinnerInv'
        BY <1>0, <1>2, <2>1, <3>2, <3>3 DEF SpinnerInv
      <3> QED BY <1>1, <2>1, <3>4
    <2>5. CASE events[1].batch \notin active
      <3>1. UNCHANGED <<ui, manual, cooling, lost>>
        BY <1>3, <2>2, <2>5 DEF DeliverResult
      <3>2. \A b, k : b \in active /\ Reports(b, k) => Reports(b, k)'
        BY <1>0, <2>1, <2>5, DeliveryCovers
      <3>3. Spinning' = Spinning
        BY <3>1 DEF Spinning
      <3>4. SpinnerInv'
        BY <1>0, <1>2, <2>1, <3>1, <3>2, <3>3 DEF SpinnerInv
      <3> QED BY <1>1, <2>1, <3>4
    <2> QED BY <2>4, <2>5
  <1>4. CASE DeliverComplete
    <2>1. /\ events # <<>> /\ events' = Tail(events) /\ batch' = batch
          /\ active' = active \ {events[1].batch}
          /\ ui' = ui /\ manual' = manual /\ lost' = lost
          /\ events[1] \in Event /\ events[1].type = "complete"
      BY <1>0, <1>4, HeadTyped DEF DeliverComplete, backendVars
    <2> DEFINE c == events[1].batch
    <2>2. c \in BatchId /\ Len(events) \in Nat \ {0}
      BY <1>0, <2>1, HeadTyped DEF Event
    <2>3. batch[c].state = "done" /\ batch[c].awaited = {} /\ batch[c].ended = {}
      <3>1. batch[c].state = "done"
        BY <1>0, <2>1, <2>2 DEF EventsInv, EventInv, CompleteIsDone
      <3> QED BY <1>0, <2>2, <3>1 DEF EventsInv, OnlyRunningWorks
    <2>4. \A k : ~Requests(c, k) /\ ~RequestsByHand(c, k)
      BY <2>3 DEF Requests, RequestsByHand
    <2>5. \A k : ~Reports(c, k)
      <3>1. ASSUME NEW i \in 1 .. Len(events), events[i].type = "result"
            PROVE  events[i].batch # c
        <4>1. i # 1 /\ 1 < i /\ 1 \in 1 .. Len(events)
          BY <2>1, <2>2, <3>1
        <4> QED BY <1>0, <2>1, <3>1, <4>1 DEF EventsInv, EventInv, CompleteIsLast
      <3> QED BY <2>3, <3>1 DEF Reports
    <2>6. \A b, k : Reports(b, k) => Reports(b, k)'
      BY <1>0, <2>1, DeliveryCovers
    <2>7. Spinning' = Spinning
      BY <2>1 DEF Spinning
    <2>8. SpinnerInv'
      BY <1>0, <1>2, <2>1, <2>4, <2>5, <2>6, <2>7 DEF SpinnerInv
    <2> QED BY <1>1, <2>1, <2>8
  <1>5. CASE DeliverUpdated
    <2>1. /\ events # <<>> /\ events' = Tail(events) /\ batch' = batch
          /\ UNCHANGED <<ui, manual, active, lost>>
          /\ events[1].type = "updated"
      BY <1>0, <1>5, HeadTyped DEF DeliverUpdated, backendVars, screenVars
    <2>2. \A b, k : Reports(b, k) => Reports(b, k)'
      BY <1>0, <2>1, DeliveryCovers
    <2>3. Spinning' = Spinning
      BY <2>1 DEF Spinning
    <2>4. SpinnerInv'
      BY <1>0, <1>2, <2>1, <2>2, <2>3 DEF SpinnerInv
    <2> QED BY <1>1, <2>1, <2>4
  <1>6. CASE BecomesVisible \/ get_cached_usage
    <2>1. UNCHANGED <<batch, events, manual, active, lost>> /\ Spinning' = Spinning
      BY <1>6 DEF BecomesVisible, get_cached_usage, backendVars, screenVars, Spinning
    <2> QED BY <2>1, SameCover
  <1>7. CASE Hydrate
    <2>1. PICK s \in replies : applyCachedSnapshots(s)
      BY <1>7 DEF Hydrate
    <2>2. Spinning' \subseteq Spinning
      BY <1>0, <2>1 DEF applyCachedSnapshots, Spinning, TypeOK, State
    <2> QED BY <1>7, <2>2, SameCover DEF Hydrate, backendVars
  <1> QED BY <1>3, <1>4, <1>5, <1>6, <1>7 DEF Receiving

LEMMA InitPathInv == Init => PathInv
  <1> SUFFICES ASSUME Init PROVE PathInv
      OBVIOUS
  <1>1. \A b \in BatchId : batch[b].awaited = {} /\ batch[b].ended = {}
    BY DEF Init, Unused
  <1>2. EventsInv
    BY <1>1 DEF Init, EventsInv, OnlyRunningWorks, EventInv, Unheard, CompleteIsDone, CompleteIsLast
  <1>3. Spinning = {} /\ manual = {}
    BY DEF Init, Spinning, Blank
  <1>4. SpinnerInv
    BY <1>3 DEF SpinnerInv
  <1> QED BY <1>2, <1>4, InitTypeOK DEF PathInv

LEMMA NextPathInv == PathInv /\ [Next]_vars => PathInv'
  <1> SUFFICES ASSUME PathInv, [Next]_vars PROVE PathInv'
      OBVIOUS
  <1>1. TypeOK'
    BY NextTypeOK DEF PathInv
  <1>2. CASE UNCHANGED vars
    <2>1. UNCHANGED <<batch, events, manual, active, lost>> /\ Spinning' = Spinning
      BY <1>2 DEF vars, backendVars, screenVars, Spinning
    <2> QED BY <1>1, <2>1, SameCover DEF PathInv
  <1>3. CASE Next
    BY <1>1, <1>3, BackendInv, StartingInv, ReceivingInv DEF Next, PathInv
  <1> QED BY <1>2, <1>3

\* use-probe-events.ts, use-probe-state.ts: for any providers, accounts,
\* batches and lengths of the queue of events, whatever is rejected, toggled,
\* removed or panics, a spinner and a mark of a manual refresh have a batch
\* that will end them, but for the keys a panic or an unknown account loses.
THEOREM SpinnersAreCovered == Spec => []SpinnerHasBatch
  <1>1. PathInv => SpinnerHasBatch
    BY SpinnerInvIsCover DEF PathInv
  <1> QED BY <1>1, InitPathInv, NextPathInv, PTL DEF Spec

-----------------------------------------------------------------------------
(***************************************************************************)
(* Data.  A successful output on its way has a stamp, and no stamp in the  *)
(* cache is later than the last one given.                                 *)
(***************************************************************************)
Stamped(e) == e.kind = "ok" => e.data # 0

ResultsStamped ==
  /\ \A b \in BatchId : \A e \in batch[b].ended : Stamped(e)
  /\ \A i \in 1 .. Len(events) : events[i].type = "result" => Stamped(events[i].end)

CacheIsPast == \A k \in Key : cache[k] <= clock

DataInv == ResultsStamped /\ CacheIsPast

\* A step that brings no result, neither to a batch nor to the events.
LEMMA NoResult ==
  ASSUME DataInv, UNCHANGED <<cache, clock>>,
         \A b \in BatchId : batch'[b].ended \subseteq batch[b].ended,
         \A i \in 1 .. Len(events') : events'[i].type = "result" =>
            \E j \in 1 .. Len(events) : events'[i] = events[j]
  PROVE  DataInv'
  <1>1. ResultsStamped'
    <2>1. \A b \in BatchId : \A e \in batch'[b].ended : Stamped(e)
      BY DEF DataInv, ResultsStamped
    <2>2. \A i \in 1 .. Len(events') : events'[i].type = "result" => Stamped(events'[i].end)
      BY DEF DataInv, ResultsStamped
    <2> QED BY <2>1, <2>2 DEF ResultsStamped, Stamped
  <1>2. CacheIsPast'
    BY DEF DataInv, CacheIsPast
  <1> QED BY <1>1, <1>2 DEF DataInv

LEMMA QuietEvents ==
  ASSUME GrowsQuietly
  PROVE  \A i \in 1 .. Len(events') : events'[i].type = "result" =>
            \E j \in 1 .. Len(events) : events'[i] = events[j]
  <1>1. PICK new : Grows(new) /\ \A e \in new : e.type # "result"
    BY DEF GrowsQuietly
  <1>2. \A i \in 1 .. Len(events') : events'[i].type = "result" =>
          i \in 1 .. Len(events) /\ events'[i] = events[i]
    BY <1>1 DEF Grows
  <1> QED BY <1>2

LEMMA BackendData == ASSUME PathInv, DataInv, Backend PROVE DataInv'
  <1>0. TypeOK /\ EventsInv
    BY DEF PathInv
  <1> PICK c \in BatchId :
        \/ start_probe_batch(c) \/ ScheduledBatch(c) \/ EmitResult(c) \/ CompleteBatch(c)
        \/ \E k \in Key, kind \in Kind : ProbeEnds(c, k, kind)
        \/ \E k \in Key : ProbePanics(c, k)
      BY DEF Backend
  <1>1. CASE \/ start_probe_batch(c) \/ ScheduledBatch(c) \/ CompleteBatch(c)
             \/ \E k \in Key : ProbePanics(c, k)
    <2>1. GrowsQuietly /\ \A b \in BatchId : batch'[b].ended \subseteq batch[b].ended
      BY <1>0, <1>1, Started, Scheduled, Completed, Panicked
    <2>2. UNCHANGED <<cache, clock>>
      BY <1>1 DEF start_probe_batch, ScheduledBatch, CompleteBatch, ProbePanics
    <2> QED BY <2>1, <2>2, QuietEvents, NoResult
  <1>2. CASE EmitResult(c)
    <2>1. PICK e \in batch[c].ended :
            /\ Grows({ResultEvent(c, e)})
            /\ EventsInv'
            /\ \A b \in BatchId \ {c} : batch'[b] = batch[b]
            /\ batch[c].state = "running"
            /\ batch'[c].awaited = batch[c].awaited
            /\ batch'[c].ended = batch[c].ended \ {e}
            /\ Len(events') = Len(events) + 1 /\ events'[Len(events')] = ResultEvent(c, e)
      BY <1>0, <1>2, Emitted
    <2>2. Stamped(e) /\ ResultEvent(c, e).end = e
      BY EventKinds DEF DataInv, ResultsStamped
    <2>3. \A i \in 1 .. Len(events') : events'[i].type = "result" => Stamped(events'[i].end)
      <3>1. \A i \in 1 .. Len(events') :
              \/ i \in 1 .. Len(events) /\ events'[i] = events[i]
              \/ events'[i] = ResultEvent(c, e)
        BY <2>1 DEF Grows
      <3> QED BY <2>2, <3>1 DEF DataInv, ResultsStamped
    <2>4. \A b \in BatchId : \A f \in batch'[b].ended : Stamped(f)
      BY <2>1 DEF DataInv, ResultsStamped
    <2>5. cache' = cache /\ clock' = clock
      BY <1>2 DEF EmitResult
    <2> QED BY <2>3, <2>4, <2>5 DEF DataInv, ResultsStamped, CacheIsPast, Stamped
  <1>3. ASSUME NEW k \in Key, NEW kind \in Kind, ProbeEnds(c, k, kind) PROVE DataInv'
    <2> DEFINE stamp == IF kind = "ok" THEN NextStamp ELSE 0
               e == [key |-> k, kind |-> kind, data |-> stamp]
    <2>1. /\ batch' = [batch EXCEPT ![c].awaited = @ \ {k}, ![c].ended = @ \cup {e}]
          /\ IF kind = "ok" THEN cache' = [cache EXCEPT ![k] = stamp] /\ clock' = stamp
             ELSE UNCHANGED <<cache, clock>>
          /\ events' = events
      BY <1>3 DEF ProbeEnds
    <2>2. NextStamp \in Nat /\ NextStamp # 0 /\ clock <= NextStamp /\ clock \in Nat
      BY <1>0, PipelineConstants DEF NextStamp, TypeOK, Stamp
    <2>3. Stamped(e)
      BY <2>2 DEF Stamped
    <2> HIDE DEF e
    <2>4. \A b \in BatchId : \A f \in batch'[b].ended : f \in batch[b].ended \/ f = e
      BY <1>0, <2>1 DEF TypeOK, Batch
    <2>5. ResultsStamped'
      BY <2>1, <2>3, <2>4 DEF DataInv, ResultsStamped, Stamped
    <2>6. CacheIsPast'
      <3>1. cache \in [Key -> Nat]
        BY <1>0 DEF TypeOK, Stamp
      <3> QED BY <2>1, <2>2, <3>1 DEF DataInv, CacheIsPast
    <2> QED BY <2>5, <2>6 DEF DataInv
  <1> QED BY <1>1, <1>2, <1>3

LEMMA OthersData == ASSUME PathInv, DataInv, Starting \/ Receiving PROVE DataInv'
  <1>0. TypeOK /\ EventsInv
    BY DEF PathInv
  <1>1. ASSUME NEW ids \in SUBSET Provider, NEW keys \in SUBSET Key, NEW m \in BOOLEAN,
               startBatch(ids, keys, m), UNCHANGED <<cache, clock, events>>
        PROVE  DataInv'
    <2>1. PICK c \in BatchId : Asked(c, keys, m)
      BY <1>0, <1>1, StartsTyped, Zenon
    <2>2. \A b \in BatchId : batch'[b].ended \subseteq batch[b].ended
      BY <2>1 DEF Asked
    <2> QED BY <1>1, <2>2, NoResult
  <1>2. CASE Bootstrap
    <2>1. enabled \in SUBSET Provider /\ enabled \in SUBSET Key /\ FALSE \in BOOLEAN
      BY <1>0 DEF TypeOK, Key
    <2>2. startBatch(enabled, enabled, FALSE) /\ UNCHANGED <<cache, clock, events>>
      BY <1>2 DEF Bootstrap
    <2> QED BY <1>1, <2>1, <2>2, Zenon
  <1>3. ASSUME NEW ids \in SUBSET Provider, startManualRefresh(ids) PROVE DataInv'
    <2>1. ids \in SUBSET Key /\ TRUE \in BOOLEAN
      BY DEF Key
    <2>2. startBatch(ids, ids, TRUE) /\ UNCHANGED <<cache, clock, events>>
      BY <1>3 DEF startManualRefresh
    <2> QED BY <1>1, <2>1, <2>2, Zenon
  <1>4. CASE handleRefreshAll
    <2>1. {p \in enabled : Eligible(p)} \in SUBSET Provider
      BY <1>0 DEF TypeOK
    <2> QED BY <1>3, <1>4, <2>1 DEF handleRefreshAll
  <1>5. ASSUME NEW p \in Provider, handleRetryPlugin(p) PROVE DataInv'
    <2>1. {p} \in SUBSET Provider
      OBVIOUS
    <2> QED BY <1>3, <1>5, <2>1 DEF handleRetryPlugin
  <1>6. ASSUME NEW p \in Provider, handleToggle(p), p \notin enabled PROVE DataInv'
    <2>1. {p} \in SUBSET Provider /\ {p} \in SUBSET Key /\ FALSE \in BOOLEAN
      BY DEF Key
    <2>2. startBatch({p}, {p}, FALSE) /\ UNCHANGED <<cache, clock, events>>
      BY <1>6 DEF handleToggle
    <2> QED BY <1>1, <2>1, <2>2, Zenon
  <1>7. ASSUME NEW a \in AccountKey, AccountAdded(a) \/ CodexLoginComplete(a) PROVE DataInv'
    <2>1. {ProviderOf[a]} \in SUBSET Provider /\ {a} \in SUBSET Key /\ FALSE \in BOOLEAN
      BY PipelineConstants DEF Key
    <2>2. startBatch({ProviderOf[a]}, {a}, FALSE) /\ UNCHANGED <<cache, clock, events>>
      BY <1>7 DEF AccountAdded, CodexLoginComplete
    <2> QED BY <1>1, <2>1, <2>2, Zenon
  <1>8. ASSUME NEW c \in BatchId, RequestFails(c) PROVE DataInv'
    <2>1. UNCHANGED <<cache, clock, events>> /\ batch' = [batch EXCEPT ![c] = Finished]
      BY <1>8 DEF RequestFails
    <2>2. \A b \in BatchId : batch'[b].ended \subseteq batch[b].ended
      BY <1>0, <2>1 DEF TypeOK, Finished, Unused
    <2> QED BY <2>1, <2>2, NoResult
  <1>9. ASSUME UNCHANGED <<cache, clock, batch>>, events' = events PROVE DataInv'
    BY <1>9, NoResult
  <1>10. ASSUME UNCHANGED <<cache, clock, batch>>, events # <<>>, events' = Tail(events)
         PROVE  DataInv'
    <2>1. \A i \in 1 .. Len(events') : i + 1 \in 1 .. Len(events) /\ events'[i] = events[i + 1]
      BY <1>0, <1>10, HeadTyped
    <2> QED BY <1>10, <2>1, NoResult
  <1>11. CASE \/ \E a \in AccountKey : PersistCodexAccount(a) \/ RemoveAccount(a)
              \/ \E k \in Key : CooldownPasses(k)
              \/ \E p \in enabled : handleToggle(p)
              \/ BecomesVisible \/ get_cached_usage \/ Hydrate
    BY <1>9, <1>11 DEF PersistCodexAccount, RemoveAccount, CooldownPasses, handleToggle,
       BecomesVisible, get_cached_usage, Hydrate, backendVars
  <1>12. CASE DeliverResult \/ DeliverComplete \/ DeliverUpdated
    BY <1>10, <1>12 DEF DeliverResult, DeliverComplete, DeliverUpdated, backendVars
  <1> QED BY <1>2, <1>4, <1>5, <1>6, <1>7, <1>8, <1>11, <1>12 DEF Starting, Receiving

LEMMA InitDataInv == Init => DataInv
  <1> SUFFICES ASSUME Init PROVE DataInv
      OBVIOUS
  <1>1. ResultsStamped
    BY DEF Init, Unused, ResultsStamped
  <1>2. CacheIsPast
    BY DEF Init, CacheIsPast
  <1> QED BY <1>1, <1>2 DEF DataInv

LEMMA NextDataInv == PathInv /\ DataInv /\ [Next]_vars => DataInv'
  <1> SUFFICES ASSUME PathInv, DataInv, [Next]_vars PROVE DataInv'
      OBVIOUS
  <1>1. CASE UNCHANGED vars
    BY <1>1, NoResult DEF vars, backendVars
  <1> QED BY <1>1, BackendData, OthersData DEF Next

\* What a step may do to the cache.
LEMMA CacheKeeps ==
  ASSUME PathInv, DataInv, Next, NEW k \in Key PROVE cache'[k] >= cache[k]
  <1>0. TypeOK
    BY DEF PathInv
  <1>1. cache[k] \in Nat /\ clock \in Nat /\ cache[k] <= clock
    BY <1>0 DEF TypeOK, Stamp, DataInv, CacheIsPast
  <1>2. ASSUME NEW c \in BatchId, NEW p \in Key, NEW kind \in Kind, ProbeEnds(c, p, kind)
        PROVE  cache'[k] >= cache[k]
    <2>1. cache' = cache \/ cache' = [cache EXCEPT ![p] = NextStamp]
      BY <1>2 DEF ProbeEnds
    <2>2. NextStamp \in Nat /\ clock <= NextStamp
      BY <1>1 DEF NextStamp
    <2>3. cache'[k] = cache[k] \/ cache'[k] = NextStamp
      BY <1>0, <2>1 DEF TypeOK
    <2> QED BY <1>1, <2>2, <2>3
  <1>3. CASE Backend
    <2>1. CASE \E c \in BatchId, p \in Key, kind \in Kind : ProbeEnds(c, p, kind)
      BY <1>2, <2>1
    <2>2. CASE cache' = cache
      BY <1>1, <2>2
    <2>3. cache' = cache \/ \E c \in BatchId, p \in Key, kind \in Kind : ProbeEnds(c, p, kind)
      BY <1>3 DEF Backend, start_probe_batch, ScheduledBatch, EmitResult, CompleteBatch, ProbePanics
    <2> QED BY <2>1, <2>2, <2>3
  <1>4. CASE Starting
    <2>1. cache' = cache
      BY <1>4 DEF Starting, Bootstrap, handleRefreshAll, handleRetryPlugin, startManualRefresh,
         handleToggle, AccountAdded, CodexLoginComplete, PersistCodexAccount, RemoveAccount,
         RequestFails, CooldownPasses, backendVars
    <2> QED BY <1>1, <2>1
  <1>5. CASE Receiving
    <2>1. cache' = cache
      BY <1>5 DEF Receiving, DeliverResult, DeliverComplete, DeliverUpdated, BecomesVisible,
         get_cached_usage, Hydrate, backendVars
    <2> QED BY <1>1, <2>1
  <1> QED BY <1>3, <1>4, <1>5 DEF Next

\* What a step may do to the screen.
LEMMA MarkKeepsData ==
  ASSUME TypeOK, NEW keys, setLoadingForPlugins(keys) \/ setErrorForPlugins(keys), NEW k \in Key
  PROVE  ui'[k].data = ui[k].data
  BY DEF TypeOK, State, setLoadingForPlugins, setErrorForPlugins

LEMMA ScreenKeeps ==
  ASSUME PathInv, DataInv, Next, NEW k \in Key, ui[k].data # 0 PROVE ui'[k].data # 0
  <1>0. TypeOK
    BY DEF PathInv
  <1>1. ASSUME NEW keys, setLoadingForPlugins(keys) \/ setErrorForPlugins(keys)
        PROVE  ui'[k].data # 0
    BY <1>0, <1>1, MarkKeepsData
  <1>2. CASE Backend
    BY <1>2 DEF Backend, start_probe_batch, ScheduledBatch, ProbeEnds, EmitResult, CompleteBatch,
       ProbePanics, screenVars
  <1>3. CASE Starting
    <2>1. ui' = ui \/ \E keys : setLoadingForPlugins(keys) \/ setErrorForPlugins(keys)
      BY <1>3 DEF Starting, Bootstrap, handleRefreshAll, handleRetryPlugin, startManualRefresh,
         handleToggle, AccountAdded, CodexLoginComplete, PersistCodexAccount, RemoveAccount,
         RequestFails, CooldownPasses, screenVars
    <2> QED BY <1>1, <2>1
  <1>4. CASE DeliverResult
    <2>1. /\ events # <<>> /\ Head(events) = events[1] /\ events[1].type = "result"
          /\ 1 \in 1 .. Len(events)
      BY <1>0, <1>4, HeadTyped DEF DeliverResult
    <2>2. Stamped(events[1].end)
      BY <2>1 DEF DataInv, ResultsStamped
    <2>3. CASE handleProbeResult(events[1].end)
      BY <1>0, <2>2, <2>3 DEF handleProbeResult, Received, Stamped, TypeOK, State
    <2>4. CASE ui' = ui
      BY <2>4
    <2> QED BY <1>4, <2>1, <2>3, <2>4 DEF DeliverResult
  <1>5. CASE DeliverComplete \/ DeliverUpdated \/ BecomesVisible \/ get_cached_usage
    BY <1>5 DEF DeliverComplete, DeliverUpdated, BecomesVisible, get_cached_usage, screenVars
  <1>6. CASE Hydrate
    BY <1>6 DEF Hydrate, applyCachedSnapshots
  <1> QED BY <1>2, <1>3, <1>4, <1>5, <1>6 DEF Next, Receiving

\* lib.rs, use-probe-state.ts: whatever a probe ends with, and in whatever
\* order batches, events and reads of the cache interleave, no step takes what
\* an earlier probe found from the cache or from the screen.
THEOREM FailuresKeepSnapshots == Spec => FailureKeepsSnapshot
  <1> DEFINE Keeps == \A k \in Key : /\ cache'[k] >= cache[k]
                                     /\ ui[k].data # 0 => ui'[k].data # 0
  <1>1. PathInv /\ DataInv /\ [Next]_vars => [Keeps]_vars
    BY CacheKeeps, ScreenKeeps
  <1>2. Init => PathInv /\ DataInv
    BY InitPathInv, InitDataInv
  <1>3. PathInv /\ DataInv /\ [Next]_vars => (PathInv /\ DataInv)'
    BY NextPathInv, NextDataInv
  <1> QED BY <1>1, <1>2, <1>3, PTL DEF Spec, FailureKeepsSnapshot

-----------------------------------------------------------------------------
(***************************************************************************)
(* Listening.  A batch is forgotten by the completion it emits, which      *)
(* comes after its results, or by its rejection, before it says anything.  *)
(***************************************************************************)
\* The completion of the batch is on its way.
Completing(b) == \E i \in 1 .. Len(events) : events[i] = CompleteEvent(b)

\* The batches of which the webview is to hear.
Own(b) == batch[b].state = "requested" \/ (batch[b].state = "running" /\ ~batch[b].scheduled)

\* What is listened to is under way, and what is under way is listened to.
ActiveInv ==
  \A b \in BatchId :
    /\ b \in active => batch[b].state \in {"requested", "running"} \/ Completing(b)
    /\ Own(b) => b \in active

\* The backend takes nothing from the queue of events.
LEMMA CompletingGrows ==
  ASSUME NEW new, Grows(new), NEW b, Completing(b) PROVE Completing(b)'
  <1>1. PICK i \in 1 .. Len(events) : events[i] = CompleteEvent(b)
    BY DEF Completing
  <1>2. i \in 1 .. Len(events') /\ events'[i] = CompleteEvent(b)
    BY <1>1 DEF Grows
  <1> QED BY <1>2 DEF Completing, CompleteEvent

\* A step of the backend, which moves the batch c only.
LEMMA BackendActive ==
  ASSUME ActiveInv, active' = active, NEW c \in BatchId,
         \A b \in BatchId \ {c} : batch'[b] = batch[b],
         NEW new, Grows(new),
         c \in active => batch'[c].state \in {"requested", "running"} \/ Completing(c)',
         Own(c)' => Own(c)
  PROVE  ActiveInv'
  <1> SUFFICES ASSUME NEW b \in BatchId
               PROVE  /\ b \in active =>
                           batch'[b].state \in {"requested", "running"} \/ Completing(b)'
                      /\ Own(b)' => b \in active
      BY Zenon DEF ActiveInv
  <1>1. CASE b = c
    BY <1>1, Zenon DEF ActiveInv
  <1>2. CASE b # c
    <2>1. batch'[b] = batch[b]
      BY <1>2
    <2>2. Own(b)' => Own(b)
      BY <2>1, Zenon DEF Own
    <2>3. Completing(b) => Completing(b)'
      BY CompletingGrows, Zenon
    <2> QED BY <2>1, <2>2, <2>3, Zenon DEF ActiveInv
  <1> QED BY <1>1, <1>2

\* No step of the backend changes what is listened to, and a batch that ends
\* puts its completion on the way in the same step.
LEMMA BackendListens == ASSUME PathInv, ActiveInv, Backend PROVE ActiveInv' /\ active' = active
  <1> PICK c \in BatchId :
        \/ start_probe_batch(c) \/ ScheduledBatch(c) \/ EmitResult(c) \/ CompleteBatch(c)
        \/ \E k \in Key, kind \in Kind : ProbeEnds(c, k, kind)
        \/ \E k \in Key : ProbePanics(c, k)
      BY DEF Backend
  <1>0. /\ TypeOK /\ EventsInv /\ batch \in [BatchId -> Batch]
        /\ \A new : Grows(new) => (Completing(c) => Completing(c)')
    BY CompletingGrows DEF PathInv, TypeOK
  <1>1. CASE start_probe_batch(c)
    <2>1. /\ active' = active /\ batch[c].state = "requested"
          /\ \A b \in BatchId \ {c} : batch'[b] = batch[b]
      BY <1>0, <1>1, Started DEF start_probe_batch
    <2>2. Own(c)
      BY <2>1 DEF Own
    <2>3. PICK new : Grows(new)
      BY <1>0, <1>1, Started DEF GrowsQuietly
    <2>4. batch'[c].state \in {"requested", "running"} \/ Completing(c)'
      <3> DEFINE units == expand_probe_units(batch[c].ids)
      <3>1. CASE units = {}
        <4>1. Emit(CompleteEvent(c))
          BY <1>1, <3>1 DEF start_probe_batch
        <4>2. /\ Len(events') = Len(events) + 1 /\ Len(events) \in Nat
              /\ events'[Len(events')] = CompleteEvent(c)
          BY <1>0, <4>1, EmitGrows, EventTypes DEF Grows
        <4>3. Len(events') \in 1 .. Len(events')
          BY <4>2
        <4> QED BY <4>2, <4>3 DEF Completing, CompleteEvent
      <3>2. CASE units # {}
        <4>1. batch' = [batch EXCEPT ![c].state = "running", ![c].awaited = units]
          BY <1>1, <3>2 DEF start_probe_batch
        <4>2. batch'[c].state = "running"
          BY <1>0, <4>1 DEF Batch
        <4> QED BY <4>2
      <3> QED BY <3>1, <3>2
    <2>5. ActiveInv'
      BY <2>1, <2>2, <2>3, <2>4, BackendActive, Zenon
    <2> QED BY <2>1, <2>5
  <1>2. CASE ScheduledBatch(c)
    <2>1. active' = active /\ \A b \in BatchId \ {c} : batch'[b] = batch[b]
      BY <1>0, <1>2, Scheduled DEF ScheduledBatch, screenVars
    <2>2. PICK new : Grows(new)
      BY <1>0, <1>2, Scheduled DEF GrowsQuietly
    <2> DEFINE r == [Unused EXCEPT !.state = "running", !.scheduled = TRUE,
                                   !.awaited = expand_probe_units(enabled)]
    <2>3. r.state = "running" /\ r.scheduled = TRUE
      BY DEF Unused
    <2>4. batch' = [batch EXCEPT ![c] = r]
      BY <1>2 DEF ScheduledBatch
    <2> HIDE DEF r
    <2>5. batch'[c] = r
      BY <1>0, <2>4
    <2>6. batch'[c].state = "running" /\ batch'[c].scheduled = TRUE
      BY <2>3, <2>5
    <2>7. ~Own(c)'
      <3>1. batch'[c].state # "requested"
        BY <2>6
      <3> QED BY <2>6, <3>1, Zenon DEF Own
    <2>8. ActiveInv'
      BY <2>1, <2>2, <2>6, <2>7, BackendActive
    <2> QED BY <2>1, <2>8
  <1>3. ASSUME active' = active, \A b \in BatchId \ {c} : batch'[b] = batch[b],
               NEW new, Grows(new), batch'[c].state = "running", batch[c].state = "running",
               batch'[c].scheduled = batch[c].scheduled
        PROVE  ActiveInv'
    <2>1. Own(c)' => Own(c)
      BY <1>3, Zenon DEF Own
    <2> QED BY <1>3, <2>1, BackendActive
  <1>4. CASE EmitResult(c)
    <2>1. PICK e \in batch[c].ended :
            /\ Grows({ResultEvent(c, e)}) /\ \A b \in BatchId \ {c} : batch'[b] = batch[b]
            /\ batch[c].state = "running"
      BY <1>0, <1>4, Emitted
    <2>2. active' = active
      BY <1>4 DEF EmitResult, screenVars
    <2>3. PICK f : batch' = [batch EXCEPT ![c].ended = f]
      BY <1>4 DEF EmitResult
    <2>4. batch'[c].state = batch[c].state /\ batch'[c].scheduled = batch[c].scheduled
      BY <1>0, <2>3 DEF Batch
    <2>5. ActiveInv'
      BY <1>3, <2>1, <2>2, <2>4
    <2> QED BY <2>2, <2>5
  <1>5. CASE CompleteBatch(c)
    <2>1. /\ active' = active /\ \A b \in BatchId \ {c} : batch'[b] = batch[b]
      BY <1>0, <1>5, Completed DEF CompleteBatch, screenVars
    <2>2. batch'[c].state = "done"
      BY <1>0, <1>5 DEF CompleteBatch, Finished, Unused
    <2>3. Grows({CompleteEvent(c), UpdatedEvent})
      BY <1>0, <1>5, CompletesGrow
    <2>4. Completing(c)'
      <3> DEFINE t == IF batch[c].scheduled THEN <<CompleteEvent(c), UpdatedEvent>>
                      ELSE <<CompleteEvent(c)>>
                 e == CompleteEvent(c)
      <3>1. events \in Seq(Event) /\ events' = events \o t
        BY <1>0, <1>5 DEF CompleteBatch, TypeOK
      <3>2. t \in Seq(Event) /\ Len(t) \in Nat /\ 1 <= Len(t) /\ t[1] = e
        <4>1. ASSUME NEW x \in Event, NEW y \in Event
              PROVE  /\ <<x, y>> \in Seq(Event) /\ Len(<<x, y>>) = 2 /\ <<x, y>>[1] = x
                     /\ <<x>> \in Seq(Event) /\ Len(<<x>>) = 1 /\ <<x>>[1] = x
          OBVIOUS
        <4>2. t = <<e, UpdatedEvent>> \/ t = <<e>>
          BY Zenon
        <4>3. e \in Event /\ UpdatedEvent \in Event
          BY EventTypes
        <4> HIDE DEF t, e
        <4>4. t \in Seq(Event) /\ (Len(t) = 2 \/ Len(t) = 1) /\ t[1] = e
          BY <4>1, <4>2, <4>3
        <4> QED BY <4>4
      <3> HIDE DEF t, e
      <3>3. /\ Len(events) \in Nat /\ Len(events') = Len(events) + Len(t)
            /\ \A i \in 1 .. Len(events) + Len(t) :
                  events'[i] = IF i <= Len(events) THEN events[i] ELSE t[i - Len(events)]
        BY <3>1, <3>2, ConcatProperties, LenProperties
      <3>4. /\ Len(events) + 1 \in 1 .. Len(events') /\ ~(Len(events) + 1 <= Len(events))
            /\ (Len(events) + 1) - Len(events) = 1
        BY <3>2, <3>3
      <3>5. events'[Len(events) + 1] = e
        BY <3>2, <3>3, <3>4
      <3> QED BY <3>4, <3>5 DEF Completing, e, CompleteEvent
    <2>5. ~Own(c)'
      BY <2>2 DEF Own
    <2>6. ActiveInv'
      BY <2>1, <2>3, <2>4, <2>5, BackendActive
    <2> QED BY <2>1, <2>6
  <1>6. ASSUME NEW k \in Key, NEW kind \in Kind, ProbeEnds(c, k, kind)
        PROVE  ActiveInv' /\ active' = active
    <2>1. /\ active' = active /\ batch[c].state = "running"
          /\ \A b \in BatchId \ {c} : batch'[b] = batch[b]
      BY <1>0, <1>6, Ended DEF ProbeEnds, screenVars
    <2>2. PICK new : Grows(new)
      BY <1>0, <1>6, Ended DEF GrowsQuietly
    <2>3. PICK x, y : batch' = [batch EXCEPT ![c].awaited = x, ![c].ended = y]
      BY <1>6 DEF ProbeEnds
    <2>4. batch'[c].state = batch[c].state /\ batch'[c].scheduled = batch[c].scheduled
      BY <1>0, <2>3 DEF Batch
    <2>5. ActiveInv'
      BY <1>3, <2>1, <2>2, <2>4
    <2> QED BY <2>1, <2>5
  <1>7. ASSUME NEW k \in Key, ProbePanics(c, k)
        PROVE  ActiveInv' /\ active' = active
    <2>1. /\ active' = active /\ batch[c].state = "running"
          /\ \A b \in BatchId \ {c} : batch'[b] = batch[b]
      BY <1>0, <1>7, Panicked DEF ProbePanics
    <2>2. PICK new : Grows(new)
      BY <1>0, <1>7, Panicked DEF GrowsQuietly
    <2>3. PICK x : batch' = [batch EXCEPT ![c].awaited = x]
      BY <1>7 DEF ProbePanics
    <2>4. batch'[c].state = batch[c].state /\ batch'[c].scheduled = batch[c].scheduled
      BY <1>0, <2>3 DEF Batch
    <2>5. ActiveInv'
      BY <1>3, <2>1, <2>2, <2>4
    <2> QED BY <2>1, <2>5
  <1> QED BY <1>1, <1>2, <1>4, <1>5, <1>6, <1>7

\* Whatever the step forgets has been heard out.
HeardOut ==
  \A b \in active \ active' :
    /\ batch'[b].awaited = {} /\ batch'[b].ended = {}
    /\ batch'[b].state = "done"
    /\ \A i \in 1 .. Len(events') :
         events'[i].type = "result" => events'[i].batch # b

\* A step that touches neither batches, events nor the batches listened to.
LEMMA SameListens ==
  ASSUME ActiveInv, UNCHANGED <<batch, events, active>>
  PROVE  ActiveInv' /\ HeardOut
  <1>1. ActiveInv'
    BY Zenon DEF ActiveInv, Own, Completing, CompleteEvent
  <1> QED BY <1>1 DEF HeardOut

\* startBatch remembers the batch in the step that requests it.
LEMMA StartListens ==
  ASSUME TypeOK, ActiveInv, NEW ids \in SUBSET Provider, NEW keys \in SUBSET Key, NEW m \in BOOLEAN,
         startBatch(ids, keys, m), events' = events
  PROVE  ActiveInv' /\ HeardOut
  <1>1. PICK c \in BatchId : Asked(c, keys, m)
    BY StartsTyped, Zenon
  <1>2. /\ active' = active \cup {c} /\ batch'[c].state = "requested"
        /\ \A b \in BatchId \ {c} : batch'[b] = batch[b]
    BY <1>1 DEF Asked
  <1>3. \A b \in BatchId : Completing(b)' <=> Completing(b)
    BY DEF Completing, CompleteEvent
  <1>4. \A b \in BatchId \ {c} : Own(b)' <=> Own(b)
    BY <1>2, Zenon DEF Own
  <1>5. ASSUME NEW b \in BatchId
        PROVE  /\ b \in active' =>
                    batch'[b].state \in {"requested", "running"} \/ Completing(b)'
               /\ Own(b)' => b \in active'
    <2>1. CASE b = c
      BY <1>2, <2>1
    <2>2. CASE b # c
      BY <1>2, <1>3, <1>4, <2>2 DEF ActiveInv
    <2> QED BY <2>1, <2>2
  <1>6. ActiveInv'
    BY <1>5, Zenon DEF ActiveInv
  <1> QED BY <1>2, <1>6 DEF HeardOut

\* What starts batches; a rejected request is forgotten unheard.
LEMMA StartingListens == ASSUME PathInv, ActiveInv, Starting PROVE ActiveInv' /\ HeardOut
  <1>0. TypeOK /\ EventsInv
    BY DEF PathInv
  <1>1. CASE Bootstrap
    <2>1. enabled \in SUBSET Provider /\ enabled \in SUBSET Key /\ FALSE \in BOOLEAN
      BY <1>0 DEF TypeOK, Key
    <2>2. startBatch(enabled, enabled, FALSE) /\ events' = events
      BY <1>1 DEF Bootstrap
    <2> QED BY <1>0, <2>1, <2>2, StartListens, Zenon
  <1>2. ASSUME NEW ids \in SUBSET Provider, startManualRefresh(ids)
        PROVE  ActiveInv' /\ HeardOut
    <2>1. ids \in SUBSET Key /\ TRUE \in BOOLEAN
      BY DEF Key
    <2>2. startBatch(ids, ids, TRUE) /\ events' = events
      BY <1>2 DEF startManualRefresh
    <2> QED BY <1>0, <2>1, <2>2, StartListens, Zenon
  <1>3. CASE handleRefreshAll
    <2>1. {p \in enabled : Eligible(p)} \in SUBSET Provider
      BY <1>0 DEF TypeOK
    <2> QED BY <1>2, <1>3, <2>1 DEF handleRefreshAll
  <1>4. ASSUME NEW p \in Provider, handleRetryPlugin(p) PROVE ActiveInv' /\ HeardOut
    <2>1. {p} \in SUBSET Provider
      OBVIOUS
    <2> QED BY <1>2, <1>4, <2>1 DEF handleRetryPlugin
  <1>5. ASSUME NEW p \in Provider, handleToggle(p) PROVE ActiveInv' /\ HeardOut
    <2>1. CASE p \in enabled
      <3>1. UNCHANGED <<batch, events, active>>
        BY <1>5, <2>1 DEF handleToggle, screenVars
      <3> QED BY <3>1, SameListens
    <2>2. CASE p \notin enabled
      <3>1. {p} \in SUBSET Provider /\ {p} \in SUBSET Key /\ FALSE \in BOOLEAN
        BY DEF Key
      <3>2. startBatch({p}, {p}, FALSE) /\ events' = events
        BY <1>5, <2>2 DEF handleToggle
      <3> QED BY <1>0, <3>1, <3>2, StartListens, Zenon
    <2> QED BY <2>1, <2>2
  <1>6. ASSUME NEW a \in AccountKey, AccountAdded(a) \/ CodexLoginComplete(a)
        PROVE  ActiveInv' /\ HeardOut
    <2>1. {ProviderOf[a]} \in SUBSET Provider /\ {a} \in SUBSET Key /\ FALSE \in BOOLEAN
      BY PipelineConstants DEF Key
    <2>2. startBatch({ProviderOf[a]}, {a}, FALSE) /\ events' = events
      BY <1>6 DEF AccountAdded, CodexLoginComplete
    <2> QED BY <1>0, <2>1, <2>2, StartListens, Zenon
  <1>7. ASSUME NEW a \in AccountKey, PersistCodexAccount(a) \/ RemoveAccount(a)
        PROVE  ActiveInv' /\ HeardOut
    <2>1. UNCHANGED <<batch, events, active>>
      BY <1>7 DEF PersistCodexAccount, RemoveAccount, backendVars, screenVars
    <2> QED BY <2>1, SameListens
  <1>8. ASSUME NEW c \in BatchId, RequestFails(c) PROVE ActiveInv' /\ HeardOut
    <2>1. /\ batch[c].state = "requested" /\ batch' = [batch EXCEPT ![c] = Finished]
          /\ active' = active \ {c} /\ events' = events
      BY <1>8 DEF RequestFails
    <2>2. /\ \A b \in BatchId \ {c} : batch'[b] = batch[b]
          /\ batch'[c].state = "done" /\ batch'[c].awaited = {} /\ batch'[c].ended = {}
      BY <1>0, <2>1 DEF TypeOK, Finished, Unused
    <2>3. \A b \in BatchId : Completing(b)' <=> Completing(b)
      BY <2>1 DEF Completing, CompleteEvent
    <2>4. \A b \in BatchId \ {c} : Own(b)' <=> Own(b)
      BY <2>2, Zenon DEF Own
    <2>5. ~Own(c)'
      BY <2>2 DEF Own
    <2>6. ASSUME NEW b \in BatchId
          PROVE  /\ b \in active' =>
                      batch'[b].state \in {"requested", "running"} \/ Completing(b)'
                 /\ Own(b)' => b \in active'
      <3>1. CASE b = c
        BY <2>1, <2>5, <3>1
      <3>2. CASE b # c
        BY <2>1, <2>2, <2>3, <2>4, <3>2 DEF ActiveInv
      <3> QED BY <3>1, <3>2
    <2>7. ActiveInv'
      BY <2>6, Zenon DEF ActiveInv
    <2>8. \A i \in 1 .. Len(events') : events'[i].type = "result" => events'[i].batch # c
      BY <1>0, <2>1 DEF EventsInv, EventInv, Unheard
    <2> QED BY <2>1, <2>2, <2>7, <2>8 DEF HeardOut
  <1>9. ASSUME NEW k \in Key, CooldownPasses(k) PROVE ActiveInv' /\ HeardOut
    <2>1. UNCHANGED <<batch, events, active>>
      BY <1>9 DEF CooldownPasses, backendVars
    <2> QED BY <2>1, SameListens
  <1> QED BY <1>1, <1>3, <1>4, <1>5, <1>6, <1>7, <1>8, <1>9 DEF Starting

\* A delivery leaves every completion on its way but the one it delivers.
LEMMA CompletingShifts ==
  ASSUME TypeOK, events # <<>>, events' = Tail(events), NEW b, Completing(b),
         events[1] # CompleteEvent(b)
  PROVE  Completing(b)'
  <1>1. PICK i \in 1 .. Len(events) : events[i] = CompleteEvent(b)
    BY DEF Completing
  <1>2. /\ Len(events) \in Nat /\ Len(events') = Len(events) - 1
        /\ \A j \in 1 .. Len(events') : events'[j] = events[j + 1]
    BY HeadTyped
  <1>3. i # 1
    BY <1>1
  <1>4. i - 1 \in 1 .. Len(events') /\ (i - 1) + 1 = i
    BY <1>2, <1>3
  <1>5. events'[i - 1] = CompleteEvent(b)
    BY <1>1, <1>2, <1>4
  <1> QED BY <1>4, <1>5 DEF Completing, CompleteEvent

\* What the webview receives: only a completion forgets, and it is the last
\* event of its batch.
LEMMA ReceivingListens == ASSUME PathInv, ActiveInv, Receiving PROVE ActiveInv' /\ HeardOut
  <1>0. TypeOK /\ EventsInv
    BY DEF PathInv
  <1>1. CASE DeliverResult \/ DeliverUpdated
    <2>1. /\ events # <<>> /\ events' = Tail(events) /\ batch' = batch /\ active' = active
          /\ events[1].type # "complete"
      BY <1>0, <1>1, HeadTyped DEF DeliverResult, DeliverUpdated, backendVars, screenVars
    <2>2. ASSUME NEW b \in BatchId, Completing(b) PROVE Completing(b)'
      <3>1. events[1] # CompleteEvent(b)
        BY <2>1, EventKinds
      <3> QED BY <1>0, <2>1, <2>2, <3>1, CompletingShifts
    <2>3. \A b \in BatchId : Own(b)' => Own(b)
      BY <2>1, Zenon DEF Own
    <2>4. ActiveInv'
      BY <2>1, <2>2, <2>3, Zenon DEF ActiveInv
    <2> QED BY <2>1, <2>4 DEF HeardOut
  <1>2. CASE DeliverComplete
    <2>1. /\ events # <<>> /\ events' = Tail(events) /\ batch' = batch
          /\ active' = active \ {events[1].batch}
          /\ events[1] \in Event /\ events[1].type = "complete"
      BY <1>0, <1>2, HeadTyped DEF DeliverComplete, backendVars
    <2> DEFINE c == events[1].batch
    <2>2. /\ c \in BatchId /\ Len(events) \in Nat \ {0} /\ Len(events') = Len(events) - 1
          /\ \A i \in 1 .. Len(events') : events'[i] = events[i + 1]
      BY <1>0, <2>1, HeadTyped DEF Event
    <2>3. batch[c].state = "done" /\ batch[c].awaited = {} /\ batch[c].ended = {}
      <3>1. batch[c].state = "done"
        BY <1>0, <2>1, <2>2 DEF EventsInv, EventInv, CompleteIsDone
      <3> QED BY <1>0, <2>2, <3>1 DEF EventsInv, OnlyRunningWorks
    <2>4. ASSUME NEW i \in 1 .. Len(events'), events'[i].type = "result"
          PROVE  events'[i].batch # c
      <3>1. 1 < i + 1 /\ i + 1 \in 1 .. Len(events) /\ 1 \in 1 .. Len(events)
        BY <2>2
      <3> QED BY <1>0, <2>1, <2>2, <2>4, <3>1 DEF EventsInv, EventInv, CompleteIsLast
    <2>5. HeardOut
      BY <2>1, <2>3, <2>4 DEF HeardOut
    <2>6. ASSUME NEW b \in BatchId
          PROVE  /\ b \in active' =>
                      batch'[b].state \in {"requested", "running"} \/ Completing(b)'
                 /\ Own(b)' => b \in active'
      <3>1. CASE b = c
        <4>1. batch'[b].state = "done" /\ b \notin active'
          BY <2>1, <2>3, <3>1
        <4> QED BY <4>1 DEF Own
      <3>2. CASE b # c
        <4>1. events[1] # CompleteEvent(b)
          BY <2>2, <3>2, EventKinds
        <4>2. Completing(b) => Completing(b)'
          BY <1>0, <2>1, <4>1, CompletingShifts
        <4>3. Own(b)' => Own(b)
          BY <2>1, Zenon DEF Own
        <4> QED BY <2>1, <3>2, <4>2, <4>3 DEF ActiveInv
      <3> QED BY <3>1, <3>2
    <2>7. ActiveInv'
      BY <2>6, Zenon DEF ActiveInv
    <2> QED BY <2>5, <2>7
  <1>3. CASE BecomesVisible \/ get_cached_usage \/ Hydrate
    <2>1. UNCHANGED <<batch, events, active>>
      BY <1>3 DEF BecomesVisible, get_cached_usage, Hydrate, backendVars, screenVars
    <2> QED BY <2>1, SameListens
  <1> QED BY <1>1, <1>2, <1>3 DEF Receiving

\* No batch is requested at first.
LEMMA InitActiveInv == Init => ActiveInv
  <1> SUFFICES ASSUME Init PROVE ActiveInv
      OBVIOUS
  <1>1. active = {} /\ \A b \in BatchId : batch[b].state = "unused"
    BY DEF Init, Unused
  <1> QED BY <1>1 DEF ActiveInv, Own

\* Every step keeps the invariant and has heard out what it forgets.
LEMMA NextActiveInv == PathInv /\ ActiveInv /\ [Next]_vars => ActiveInv' /\ HeardOut
  <1> SUFFICES ASSUME PathInv, ActiveInv, [Next]_vars PROVE ActiveInv' /\ HeardOut
      OBVIOUS
  <1>1. CASE UNCHANGED vars
    <2>1. UNCHANGED <<batch, events, active>>
      BY <1>1 DEF vars, backendVars, screenVars
    <2> QED BY <2>1, SameListens
  <1>2. CASE Backend
    <2>1. ActiveInv' /\ active' = active
      BY <1>2, BackendListens
    <2> QED BY <2>1 DEF HeardOut
  <1> QED BY <1>1, <1>2, StartingListens, ReceivingListens DEF Next

\* use-probe-events.ts: for any providers, accounts, batches and lengths of
\* the queue of events, no id stays in activeBatchIds whose batch is neither
\* requested nor running nor about to be forgotten by its completion.
THEOREM NoIdleBatchIsActive == Spec => []ActiveInv
  <1> QED BY InitPathInv, NextPathInv, InitActiveInv, NextActiveInv, PTL DEF Spec

\* use-probe-events.ts, lib.rs: whatever is rejected, panics or overlaps, the
\* webview listens to a batch before the backend learns of it, and a batch
\* that is forgotten has ended, with nothing it found still on its way to a
\* listener that would drop it.
THEOREM BatchesAreHeardOut == Spec => ListenedThroughout
  <1>1. ActiveInv' /\ HeardOut =>
          \A b \in BatchId :
            /\ batch'[b].state = "requested" \/ (batch'[b].state = "running" /\ ~batch'[b].scheduled)
                 => b \in active'
            /\ b \in active \ active' =>
                 /\ batch'[b].state = "done" /\ batch'[b].awaited = {} /\ batch'[b].ended = {}
                 /\ \A i \in 1 .. Len(events') :
                      events'[i].type = "result" => events'[i].batch # b
    BY Zenon DEF ActiveInv, Own, HeardOut
  <1>2. PathInv /\ ActiveInv /\ [Next]_vars =>
          [\A b \in BatchId :
            /\ batch'[b].state = "requested" \/ (batch'[b].state = "running" /\ ~batch'[b].scheduled)
                 => b \in active'
            /\ b \in active \ active' =>
                 /\ batch'[b].state = "done" /\ batch'[b].awaited = {} /\ batch'[b].ended = {}
                 /\ \A i \in 1 .. Len(events') :
                      events'[i].type = "result" => events'[i].batch # b]_vars
    BY <1>1, NextActiveInv, Zenon
  <1> QED BY <1>2, InitPathInv, NextPathInv, InitActiveInv, NextActiveInv, PTL
          DEF Spec, ListenedThroughout
=============================================================================
