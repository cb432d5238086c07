----------------------- MODULE RelayDispatcher_proofs -----------------------
(***************************************************************************)
(* Proofs about module RelayDispatcher, for any number of transfers and    *)
(* pipelines and any sizes of the input buffer and the stages.             *)
(***************************************************************************)
EXTENDS RelayDispatcher, TLAPS, FiniteSetTheorems

\* What the goroutines of pipeline p hold, and that all of it is marked.
PipelineInv(p) ==
    /\ InFlight(p) \subseteq inPipeline[p]
    /\ emitter[p] # "send" => held[p] = Nil
    /\ emitter[p] = "send" /\ held[p] = Nil => cancelled
    /\ drainer[p] # "got" => hand[p] = Nil

\* What the dispatcher knows: it holds the mutex for a transfer it has marked, and it only
\* closes pipelines when the context is cancelled.
LoopInv ==
    /\ at = "send" => cur \in Keys /\ cur \in inPipeline[PipelineOf[cur]]
    /\ closed # {} \/ at \in {"closing", "stopped"} => cancelled

Inv ==
    /\ TypeOK /\ LoopInv /\ \A p \in Pipelines : PipelineInv(p)
    /\ Deduped /\ NoMarkLeaks /\ NilNeverProcessed

\* The parts of Deduped, NoMarkLeaks and NilNeverProcessed that are about pipeline p, and
\* the part that is about the transfer being sent.
Separate(p) ==
    /\ IsInjective(input[p])
    /\ held[p] = Nil \/ held[p] \notin Queued(p) \cup stages[p] \cup output[p] \cup {hand[p]}
    /\ hand[p] = Nil \/ hand[p] \notin Queued(p) \cup stages[p] \cup output[p]
    /\ Queued(p) \cap (stages[p] \cup output[p]) = {} /\ stages[p] \cap output[p] = {}
    /\ \A k \in Keys \cap InFlight(p) : PipelineOf[k] = p
NoLeak(p) ==
    ~cancelled =>
        inPipeline[p] \subseteq InFlight(p) \cup (IF Locked(p) THEN {cur} ELSE {}) \cup Shared
NotNil(p) == Nil \notin stages[p]
NewSend == at = "send" => cur \notin InFlight(PipelineOf[cur])

-----------------------------------------------------------------------------
(* Sequences.                                                              *)

\* Append adds an element that is new and keeps the sequence injective.
LEMMA AppendRange ==
    ASSUME NEW s \in Seq(Keys), NEW k \in Keys
    PROVE  /\ Append(s, k) \in Seq(Keys)
           /\ Range(Append(s, k)) = Range(s) \cup {k}
           /\ IsInjective(s) /\ k \notin Range(s) => IsInjective(Append(s, k))
<1>1. Append(s, k) \in Seq(Keys) /\ Len(s) \in Nat /\ DOMAIN s = 1 .. Len(s)
      /\ DOMAIN Append(s, k) = 1 .. Len(s) + 1
      /\ \A i \in 1 .. Len(s) : Append(s, k)[i] = s[i]
      /\ Append(s, k)[Len(s) + 1] = k
  OBVIOUS
<1>2. \A i \in 1 .. Len(s) + 1 : i \in 1 .. Len(s) \/ i = Len(s) + 1
  BY <1>1
<1>3. 1 .. Len(s) \subseteq 1 .. Len(s) + 1 /\ Len(s) + 1 \in 1 .. Len(s) + 1
  BY <1>1
<1>4. Range(Append(s, k)) = Range(s) \cup {k}
  BY <1>1, <1>2, <1>3 DEF Range
<1>5. ASSUME IsInjective(s), k \notin Range(s)
      PROVE  IsInjective(Append(s, k))
  BY <1>1, <1>2, <1>3, <1>5 DEF Range, IsInjective
<1> QED BY <1>1, <1>4, <1>5

\* Tail removes the first element, which occurs nowhere else in an injective sequence.
LEMMA TailRange ==
    ASSUME NEW s \in Seq(Keys), s # << >>, IsInjective(s)
    PROVE  /\ Tail(s) \in Seq(Keys) /\ Head(s) \in Keys /\ IsInjective(Tail(s))
           /\ Range(s) = Range(Tail(s)) \cup {Head(s)} /\ Head(s) \notin Range(Tail(s))
<1>1. /\ Tail(s) \in Seq(Keys) /\ Head(s) \in Keys /\ Head(s) = s[1]
      /\ Len(s) \in Nat /\ Len(s) > 0 /\ DOMAIN s = 1 .. Len(s)
      /\ DOMAIN Tail(s) = 1 .. Len(s) - 1
      /\ \A i \in 1 .. Len(s) - 1 : Tail(s)[i] = s[i + 1]
  OBVIOUS
<1>2. \A i \in 1 .. Len(s) : i = 1 \/ (i - 1 \in 1 .. Len(s) - 1 /\ (i - 1) + 1 = i)
  BY <1>1
<1>3. 1 \in 1 .. Len(s) /\ \A i \in 1 .. Len(s) - 1 : i + 1 \in 1 .. Len(s) /\ i + 1 # 1
  BY <1>1
<1>4. \A i, j \in 1 .. Len(s) - 1 : i + 1 = j + 1 => i = j
  BY <1>1
<1>5. IsInjective(Tail(s))
  BY <1>1, <1>3, <1>4 DEF IsInjective
<1>6. Range(s) = Range(Tail(s)) \cup {Head(s)}
  <2>1. ASSUME NEW i \in 1 .. Len(s)
        PROVE  s[i] \in Range(Tail(s)) \cup {Head(s)}
    <3>1. CASE i = 1
      BY <1>1, <3>1
    <3>2. CASE i # 1
      <4>1. Tail(s)[i - 1] = s[(i - 1) + 1] /\ i - 1 \in DOMAIN Tail(s)
        BY <1>1, <1>2, <3>2
      <4> QED BY <1>2, <3>2, <4>1 DEF Range
    <3> QED BY <3>1, <3>2
  <2>2. \A i \in 1 .. Len(s) - 1 : Tail(s)[i] \in Range(s)
    BY <1>1, <1>3 DEF Range
  <2>3. Head(s) \in Range(s)
    BY <1>1, <1>3 DEF Range
  <2> QED BY <1>1, <2>1, <2>2, <2>3 DEF Range
<1>7. Head(s) \notin Range(Tail(s))
  BY <1>1, <1>3 DEF Range, IsInjective
<1> QED BY <1>1, <1>5, <1>6, <1>7

\* A sequence is one over any set that holds all its elements.
LEMMA RangeSeq ==
    ASSUME NEW S, NEW T, NEW s \in Seq(S)
    PROVE  /\ Range(s) \subseteq S
           /\ Range(s) \subseteq T => s \in Seq(T)
<1>1. /\ Len(s) \in Nat /\ DOMAIN s = 1 .. Len(s)
      /\ \A i \in 1 .. Len(s) : s[i] \in S
      /\ s = [i \in 1 .. Len(s) |-> s[i]]
  OBVIOUS
<1>2. Range(s) \subseteq S
  BY <1>1 DEF Range
<1>3. ASSUME Range(s) \subseteq T
      PROVE  s \in Seq(T)
  <2>1. \A i \in 1 .. Len(s) : s[i] \in T
    BY <1>1, <1>3 DEF Range
  <2> QED BY <1>1, <2>1
<1> QED BY <1>2, <1>3

-----------------------------------------------------------------------------
(* The invariant.                                                          *)

\* The invariant holds initially.
LEMMA InvInit ==
    ASSUME Init
    PROVE  Inv
<1> USE DispatcherAssumption
<1>1. TypeOK
  <2>1. [p \in Pipelines |-> << >>] \in [Pipelines -> Seq(Keys)]
    OBVIOUS
  <2>2. status \in [Keys -> {"absent", "unfinished", "finished", "FAILED"}]
    BY DEF Init
  <2> QED BY <2>1, <2>2 DEF Init, TypeOK
<1>3. LoopInv /\ NilNeverProcessed
  BY DEF Init, LoopInv, NilNeverProcessed
<1>2. \A p \in Pipelines : InFlight(p) = {} /\ IsInjective(input[p])
  <2>1. Range(<< >>) = {} /\ IsInjective(<< >>)
    <3>1. DOMAIN << >> = {}
      <4>1. << >> \in Seq(Keys) /\ Len(<< >>) = 0
        OBVIOUS
      <4> QED BY <4>1
    <3> QED BY <3>1 DEF Range, IsInjective
  <2> QED BY <2>1 DEF Init, InFlight, Queued, Keyed
<1> QED BY <1>1, <1>2, <1>3 DEF Init, Inv, PipelineInv, Deduped, NoMarkLeaks, Held, Queued, InFlight

\* Steps that touch no pipeline.
LEMMA OutsideStep ==
    ASSUME Inv, UNCHANGED pipelineVars,
           \/ \E k \in Keys : Insert(k) \/ MarkFailed(k)
           \/ Cancel \/ Tick \/ Submitted \/ BeginClose \/ EndClose
           \/ \E p \in Pipelines : ClosePipeline(p)
           \/ \E p \in Pipelines, k \in Keys : WriteStatus(p, k)
           \/ UNCHANGED vars
    PROVE  Inv'
<1> USE DEF Inv
<1>1. /\ status' \in [Keys -> {"absent", "unfinished", "finished", "FAILED"}]
      /\ at' \in {"select", "submit", "send", "closing", "stopped"}
      /\ cancelled' \in BOOLEAN /\ (cancelled => cancelled')
      /\ todo' \subseteq Keys /\ cur' = cur /\ created' = created /\ closed' \subseteq created
      /\ (at' = "send" <=> at = "send")
      /\ (closed' # {} \/ at' \in {"closing", "stopped"} => cancelled')
  BY DEF TypeOK, LoopInv, Insert, MarkFailed, Cancel, Tick, Submitted, BeginClose, EndClose,
         ClosePipeline, WriteStatus, vars, dispatcherVars
<1>2. TypeOK'
  BY <1>1 DEF TypeOK, pipelineVars
<1>3. \A p \in Pipelines : InFlight(p)' = InFlight(p) /\ Queued(p)' = Queued(p)
                           /\ (Locked(p)' <=> Locked(p))
  BY <1>1 DEF InFlight, Queued, Keyed, Locked, pipelineVars
<1>4. LoopInv' /\ NilNeverProcessed'
  BY <1>1 DEF LoopInv, NilNeverProcessed, pipelineVars
<1>5. ASSUME NEW p \in Pipelines
      PROVE  PipelineInv(p)'
  BY <1>1, <1>3 DEF PipelineInv, pipelineVars
<1>6. Deduped'
  BY <1>1, <1>3, DispatcherAssumption DEF Deduped, LoopInv, pipelineVars
<1>7. NoMarkLeaks'
  BY <1>1, <1>3 DEF NoMarkLeaks, Held, pipelineVars, TypeOK
<1> QED BY <1>2, <1>4, <1>5, <1>6, <1>7

\* The invariant, one pipeline at a time.
LEMMA InvParts ==
    Inv <=> /\ TypeOK /\ LoopInv /\ NewSend
            /\ \A p \in Pipelines : PipelineInv(p) /\ Separate(p) /\ NoLeak(p) /\ NotNil(p)
BY DEF Inv, Deduped, NoMarkLeaks, Held, NilNeverProcessed, Separate, NoLeak, NotNil, NewSend

\* A step of one pipeline leaves the others as they are.
LEMMA OnePipeline ==
    ASSUME Inv, NEW p \in Pipelines, cancelled' = cancelled, TypeOK', LoopInv', NewSend',
           PipelineInv(p)', Separate(p)', NoLeak(p)', NotNil(p)',
           \A q \in Pipelines \ {p} :
              /\ inPipeline'[q] = inPipeline[q] /\ input'[q] = input[q]
              /\ emitter'[q] = emitter[q] /\ held'[q] = held[q]
              /\ stages'[q] = stages[q] /\ output'[q] = output[q]
              /\ drainer'[q] = drainer[q] /\ hand'[q] = hand[q]
              /\ (~Locked(q) /\ ~Locked(q)') \/ (at' = at /\ cur' = cur)
    PROVE  Inv'
<1>1. ASSUME NEW q \in Pipelines \ {p}
      PROVE  PipelineInv(q)' /\ Separate(q)' /\ NoLeak(q)' /\ NotNil(q)'
  <2>1. InFlight(q)' = InFlight(q) /\ Queued(q)' = Queued(q)
    BY <1>1 DEF InFlight, Queued, Keyed
  <2>2. (IF Locked(q) THEN {cur} ELSE {})' = IF Locked(q) THEN {cur} ELSE {}
    BY <1>1 DEF Locked
  <2>3. PipelineInv(q) /\ Separate(q) /\ NoLeak(q) /\ NotNil(q)
    BY <1>1, InvParts
  <2> QED BY <1>1, <2>1, <2>2, <2>3 DEF PipelineInv, Separate, NoLeak, NotNil
<1>2. \A q \in Pipelines : PipelineInv(q)' /\ Separate(q)' /\ NoLeak(q)' /\ NotNil(q)'
  BY <1>1
<1> QED
  BY <1>2 DEF Inv, Deduped, NoMarkLeaks, Held, NilNeverProcessed, Separate, NoLeak, NotNil, NewSend

\* SubmitTransfer drops a marked transfer, or marks one that is nowhere in the pipeline.
LEMMA SubmitStep ==
    ASSUME Inv, NEW k \in Keys, SubmitTransfer(k)
    PROVE  Inv'
<1>0. PICK p \in Pipelines : p = PipelineOf[k] /\ k # Nil
  BY DispatcherAssumption
<1>1. TypeOK' /\ cancelled' = cancelled
  <2>1. drainer' \in [Pipelines -> {"off", "poll", "got", "done", "gone"}]
    <3>1. CASE drainer[p] = "off"
      BY <1>0, <3>1 DEF Inv, TypeOK, SubmitTransfer, StartDrainer
    <3>2. CASE drainer[p] # "off"
      BY <1>0, <3>2 DEF Inv, TypeOK, SubmitTransfer, StartDrainer
    <3> QED BY <3>1, <3>2
  <2>2. inPipeline' \in [Pipelines -> SUBSET Keys] /\ created' \subseteq Pipelines
    <3>1. CASE Marked(k)
      BY <1>0, <3>1 DEF Inv, TypeOK, SubmitTransfer
    <3>2. CASE ~Marked(k)
      <4>1. inPipeline' = [inPipeline EXCEPT ![p] = inPipeline[p] \cup {k}]
        BY <1>0, <3>2 DEF SubmitTransfer
      <4>2. inPipeline[p] \cup {k} \in SUBSET Keys
        BY <1>0 DEF Inv, TypeOK
      <4> QED BY <1>0, <4>1, <4>2 DEF Inv, TypeOK, SubmitTransfer
    <3> QED BY <3>1, <3>2
  <2> QED BY <2>1, <2>2 DEF Inv, TypeOK, SubmitTransfer
<1>2. /\ PipelineInv(p) /\ Separate(p) /\ NoLeak(p) /\ NotNil(p)
      /\ TypeOK /\ LoopInv /\ NewSend /\ at = "submit"
  BY <1>0, InvParts DEF SubmitTransfer
<1>3. \A q \in Pipelines : InFlight(q)' = InFlight(q) /\ Queued(q)' = Queued(q)
  BY DEF SubmitTransfer, InFlight, Queued, Keyed
<1>4. inPipeline[p] \subseteq inPipeline'[p] /\ PipelineInv(p)'
  BY <1>0, <1>2, <1>3 DEF TypeOK, SubmitTransfer, StartDrainer, PipelineInv
<1>5. Separate(p)' /\ NotNil(p)'
  BY <1>0, <1>2, <1>3 DEF SubmitTransfer, Separate, NotNil
<1>6. CASE Marked(k)
  <2>1. UNCHANGED <<at, cur, inPipeline>>
    BY <1>6 DEF SubmitTransfer
  <2>2. NoLeak(p)' /\ LoopInv' /\ NewSend'
    BY <1>0, <1>2, <1>3, <2>1 DEF SubmitTransfer, NoLeak, LoopInv, NewSend, Locked
  <2> QED BY <1>0, <1>1, <1>4, <1>5, <2>1, <2>2, OnePipeline
             DEF SubmitTransfer, StartDrainer, TypeOK, Inv
<1>7. CASE ~Marked(k)
  <2>1. at' = "send" /\ cur' = k /\ inPipeline' = [inPipeline EXCEPT ![p] = @ \cup {k}]
    BY <1>0, <1>7 DEF SubmitTransfer
  <2>2. inPipeline'[p] = inPipeline[p] \cup {k} /\ k \notin InFlight(p)
    BY <1>0, <1>2, <1>7, <2>1 DEF TypeOK, Marked, PipelineInv
  <2>3. NoLeak(p)'
    BY <1>0, <1>2, <1>3, <2>1, <2>2 DEF SubmitTransfer, NoLeak, Locked
  <2>4. LoopInv' /\ NewSend'
    BY <1>0, <1>2, <1>3, <2>1, <2>2 DEF SubmitTransfer, LoopInv, NewSend
  <2>5. \A q \in Pipelines \ {p} : ~Locked(q) /\ ~Locked(q)'
    BY <1>0, <1>2, <2>1 DEF Locked
  <2> QED BY <1>0, <1>1, <1>4, <1>5, <2>1, <2>3, <2>4, <2>5, OnePipeline
             DEF SubmitTransfer, StartDrainer, TypeOK, Inv
<1> QED BY <1>6, <1>7

\* Push adds the transfer it marked to the input, where it is the only copy.
LEMMA SendStep ==
    ASSUME Inv, Send
    PROVE  Inv'
<1>0. PICK p \in Pipelines : p = PipelineOf[cur] /\ cur \in Keys /\ cur \in inPipeline[p] /\ cur # Nil
  BY DispatcherAssumption DEF Inv, LoopInv, Send
<1>1. /\ PipelineInv(p) /\ Separate(p) /\ NoLeak(p) /\ NotNil(p)
      /\ TypeOK /\ LoopInv /\ NewSend /\ at = "send"
  BY <1>0, InvParts DEF Send
<1>2. input[p] \in Seq(Keys) /\ input'[p] = Append(input[p], cur)
  BY <1>0, <1>1 DEF TypeOK, Send, Push
<1>3. cur \notin InFlight(p)
  BY <1>0, <1>1 DEF NewSend
<1>4. /\ input'[p] \in Seq(Keys) /\ IsInjective(input'[p])
      /\ Queued(p)' = Queued(p) \cup {cur} /\ InFlight(p)' = InFlight(p) \cup {cur}
  <2>1. IsInjective(input[p]) /\ cur \notin Range(input[p])
    BY <1>1, <1>3 DEF Separate, InFlight, Queued
  <2>2. /\ Append(input[p], cur) \in Seq(Keys) /\ IsInjective(Append(input[p], cur))
        /\ Range(Append(input[p], cur)) = Range(input[p]) \cup {cur}
    BY <1>0, <1>2, <2>1, AppendRange
  <2>3. Queued(p)' = Queued(p) \cup {cur}
    BY <1>2, <2>2 DEF Queued
  <2>4. UNCHANGED <<held, stages, output, hand>>
    BY DEF Send
  <2>5. InFlight(p)' = InFlight(p) \cup {cur}
    BY <2>3, <2>4 DEF InFlight, Keyed
  <2> QED BY <1>2, <2>2, <2>3, <2>5
<1>5. TypeOK' /\ cancelled' = cancelled
  BY <1>0, <1>1, <1>4 DEF TypeOK, Send, Push
<1>6. PipelineInv(p)' /\ NotNil(p)'
  BY <1>0, <1>1, <1>4 DEF PipelineInv, NotNil, Send
<1>7. Separate(p)'
  <2>1. UNCHANGED <<held, stages, output, hand>>
    BY DEF Send
  <2>2. /\ cur \notin stages[p] \cup output[p] /\ (held[p] = Nil \/ held[p] # cur)
        /\ (hand[p] = Nil \/ hand[p] # cur)
    BY <1>0, <1>3 DEF InFlight, Keyed
  <2>3. \A k \in Keys \cap InFlight(p)' : PipelineOf[k] = p
    BY <1>0, <1>1, <1>4 DEF Separate
  <2> QED BY <1>1, <1>4, <2>1, <2>2, <2>3 DEF Separate
<1>8. NoLeak(p)' /\ LoopInv' /\ NewSend'
  BY <1>0, <1>1, <1>4 DEF NoLeak, Send, LoopInv, NewSend, Locked
<1>9. \A q \in Pipelines \ {p} : ~Locked(q) /\ ~Locked(q)'
  BY <1>0, <1>1 DEF Send, Locked
<1> QED BY <1>0, <1>5, <1>6, <1>7, <1>8, <1>9, OnePipeline DEF Send, Push, TypeOK, Inv

\* The steps of the Emitter: what it takes off the input it holds, and what it holds goes
\* into the stages, unless the context is cancelled.
LEMMA EmitterStep ==
    ASSUME Inv, NEW p \in Pipelines, Emitter(p)
    PROVE  Inv'
<1>0. /\ PipelineInv(p) /\ Separate(p) /\ NoLeak(p) /\ NotNil(p)
      /\ TypeOK /\ LoopInv /\ NewSend
  BY InvParts
<1>1. /\ UNCHANGED <<status, cancelled, dispatcherVars, inPipeline, output, drainer, hand>>
      /\ (Locked(p)' <=> Locked(p))
  BY DEF Emitter, EmitterTop, EmitterReceive, EmitterSend, EmitterSet, Locked, dispatcherVars
<1>2. \A q \in Pipelines \ {p} :
        /\ input'[q] = input[q] /\ stages'[q] = stages[q]
        /\ emitter'[q] = emitter[q] /\ held'[q] = held[q]
  BY <1>0 DEF TypeOK, Emitter, EmitterTop, EmitterReceive, EmitterSend, EmitterSet
<1>3. ASSUME TypeOK', InFlight(p)' \subseteq InFlight(p),
             cancelled \/ InFlight(p)' = InFlight(p),
             IsInjective(input'[p]), PipelineInv(p)', NotNil(p)', Separate(p)'
      PROVE  Inv'
  <2>1. LoopInv'
    BY <1>0, <1>1 DEF LoopInv, dispatcherVars
  <2>2. NoLeak(p)'
    BY <1>0, <1>1, <1>3 DEF NoLeak, dispatcherVars, TypeOK
  <2>3. \A q \in Pipelines : InFlight(q)' \subseteq InFlight(q)
    <3>1. ASSUME NEW q \in Pipelines \ {p}
          PROVE  InFlight(q)' = InFlight(q)
      BY <1>1, <1>2 DEF InFlight, Queued, Keyed
    <3> QED BY <1>3, <3>1
  <2>4. NewSend'
    BY <1>0, <1>1, <2>3, DispatcherAssumption DEF NewSend, LoopInv, dispatcherVars
  <2> QED BY <1>1, <1>2, <1>3, <2>1, <2>2, <2>4, OnePipeline DEF dispatcherVars
<1>4. CASE EmitterTop(p)
  <2>1. TypeOK'
    BY <1>0, <1>4 DEF TypeOK, EmitterTop, EmitterSet, dispatcherVars
  <2>2. /\ held[p] = Nil /\ held'[p] = Nil /\ emitter'[p] # "send"
        /\ input' = input /\ stages' = stages
    BY <1>0, <1>4 DEF TypeOK, EmitterTop, EmitterSet, PipelineInv
  <2>3. InFlight(p)' = InFlight(p) /\ Queued(p)' = Queued(p)
    BY <1>1, <2>2 DEF InFlight, Queued, Keyed
  <2>4. PipelineInv(p)' /\ NotNil(p)' /\ Separate(p)'
    BY <1>0, <1>1, <2>2, <2>3 DEF PipelineInv, NotNil, Separate
  <2> QED BY <1>0, <1>3, <2>1, <2>2, <2>3, <2>4 DEF Separate
<1>5. CASE EmitterReceive(p) /\ input[p] # << >>
  <2>1. /\ input[p] \in Seq(Keys) /\ input'[p] = Tail(input[p])
        /\ held[p] = Nil /\ held'[p] = Head(input[p]) /\ emitter'[p] = "send"
        /\ stages' = stages
    BY <1>0, <1>5 DEF TypeOK, EmitterReceive, EmitterSet, PipelineInv
  <2>2. /\ input'[p] \in Seq(Keys) /\ held'[p] \in Keys /\ IsInjective(input'[p])
        /\ Queued(p) = Queued(p)' \cup {held'[p]} /\ held'[p] \notin Queued(p)'
    <3>1. IsInjective(input[p]) /\ input[p] # << >>
      BY <1>0, <1>5 DEF Separate
    <3>2. /\ Tail(input[p]) \in Seq(Keys) /\ Head(input[p]) \in Keys
          /\ IsInjective(Tail(input[p]))
          /\ Range(input[p]) = Range(Tail(input[p])) \cup {Head(input[p])}
          /\ Head(input[p]) \notin Range(Tail(input[p]))
      BY <2>1, <3>1, TailRange
    <3> QED BY <2>1, <3>2 DEF Queued
  <2>3. TypeOK'
    <3>1. input' = [input EXCEPT ![p] = input'[p]]
      BY <1>0, <1>5 DEF TypeOK, EmitterReceive
    <3>2. input' \in [Pipelines -> Seq(Keys)]
      BY <1>0, <2>2, <3>1 DEF TypeOK
    <3>3. /\ emitter' \in [Pipelines -> {"top", "receive", "send", "stopped"}]
          /\ held' \in [Pipelines -> Keys \cup {Nil}]
      <4>1. emitter' = [emitter EXCEPT ![p] = "send"] /\ held' = [held EXCEPT ![p] = held'[p]]
        BY <1>0, <1>5 DEF TypeOK, EmitterReceive, EmitterSet
      <4> QED BY <1>0, <2>2, <4>1 DEF TypeOK
    <3> QED BY <1>0, <1>1, <2>1, <3>2, <3>3 DEF TypeOK, dispatcherVars
  <2>4. InFlight(p)' = InFlight(p) /\ held'[p] # Nil
    BY <1>1, <2>1, <2>2, DispatcherAssumption DEF InFlight, Keyed
  <2>5. PipelineInv(p)' /\ NotNil(p)'
    BY <1>0, <1>1, <2>1, <2>4 DEF PipelineInv, NotNil
  <2>6. Separate(p)'
    BY <1>0, <1>1, <2>1, <2>2, <2>4 DEF Separate
  <2> QED BY <1>3, <2>2, <2>3, <2>4, <2>5, <2>6
<1>6. CASE EmitterReceive(p) /\ input[p] = << >>
  <2>1. /\ input' = input /\ stages' = stages /\ held[p] = Nil /\ held'[p] = Nil
        /\ emitter'[p] = "send" /\ p \in closed
    BY <1>0, <1>6 DEF TypeOK, EmitterReceive, EmitterSet, PipelineInv
  <2>2. cancelled
    BY <1>0, <2>1 DEF LoopInv
  <2>3. TypeOK'
    <3>1. /\ emitter' \in [Pipelines -> {"top", "receive", "send", "stopped"}]
          /\ held' \in [Pipelines -> Keys \cup {Nil}]
      BY <1>0, <1>6 DEF TypeOK, EmitterReceive, EmitterSet
    <3> QED BY <1>0, <1>1, <2>1, <3>1 DEF TypeOK, dispatcherVars
  <2>4. InFlight(p)' = InFlight(p) /\ Queued(p)' = Queued(p)
    BY <1>1, <2>1 DEF InFlight, Queued, Keyed
  <2>5. PipelineInv(p)' /\ NotNil(p)' /\ Separate(p)'
    BY <1>0, <1>1, <2>1, <2>2, <2>4 DEF PipelineInv, NotNil, Separate
  <2> QED BY <1>0, <1>3, <2>1, <2>3, <2>4, <2>5 DEF Separate
<1>7. CASE EmitterSend(p)
  <2>1. /\ input' = input /\ held'[p] = Nil /\ emitter'[p] = "top"
        /\ stages'[p] = IF cancelled THEN stages[p] ELSE stages[p] \cup {held[p]}
        /\ (~cancelled => held[p] \in Keys /\ held[p] # Nil)
    BY <1>0, <1>7 DEF TypeOK, EmitterSend, EmitterSet, PipelineInv
  <2>2. TypeOK'
    BY <1>0, <1>7 DEF TypeOK, EmitterSend, EmitterSet, dispatcherVars
  <2>3. Queued(p)' = Queued(p)
    BY <2>1 DEF Queued
  <2>4. InFlight(p)' \subseteq InFlight(p) /\ (cancelled \/ InFlight(p)' = InFlight(p))
    <3>1. /\ Keyed(held[p])' = {} /\ Keyed(hand[p])' = Keyed(hand[p])
          /\ output'[p] = output[p]
      BY <1>1, <2>1 DEF Keyed
    <3>2. CASE cancelled
      BY <2>1, <2>3, <3>1, <3>2 DEF InFlight
    <3>3. CASE ~cancelled
      <4>1. stages'[p] = stages[p] \cup {held[p]} /\ Keyed(held[p]) = {held[p]}
        BY <2>1, <3>3 DEF Keyed
      <4> QED BY <2>3, <3>1, <4>1 DEF InFlight
    <3> QED BY <3>2, <3>3
  <2>5. PipelineInv(p)' /\ NotNil(p)'
    BY <1>0, <1>1, <2>1, <2>4 DEF PipelineInv, NotNil
  <2>6. Separate(p)'
    BY <1>0, <1>1, <2>1, <2>3, <2>4 DEF Separate
  <2> QED BY <1>0, <1>3, <2>1, <2>2, <2>4, <2>5, <2>6 DEF Separate
<1> QED BY <1>4, <1>5, <1>6, <1>7 DEF Emitter

\* The steps behind the Emitter: a transfer moves from the stages to the output and on to
\* the drainer, which deletes its mark.
LEMMA DrainStep ==
    ASSUME Inv, NEW p \in Pipelines,
           Drainer(p) \/ AwaitDone(p) \/ \E k \in Keys : LeaveStages(p, k)
    PROVE  Inv'
<1>0. /\ PipelineInv(p) /\ Separate(p) /\ NoLeak(p) /\ NotNil(p)
      /\ TypeOK /\ LoopInv /\ NewSend
  BY InvParts
<1>1. /\ UNCHANGED <<status, cancelled, dispatcherVars, input, emitter, held>>
      /\ (Locked(p)' <=> Locked(p)) /\ Queued(p)' = Queued(p)
  BY DEF Drainer, DrainerPoll, DrainerDelete, DrainerDone, AwaitDone, LeaveStages, Locked,
         Queued, dispatcherVars
<1>2. \A q \in Pipelines \ {p} :
        /\ inPipeline'[q] = inPipeline[q] /\ stages'[q] = stages[q] /\ output'[q] = output[q]
        /\ drainer'[q] = drainer[q] /\ hand'[q] = hand[q]
  <2> USE <1>0 DEF TypeOK
  <2>1. CASE \E k \in Keys : LeaveStages(p, k)
    BY <2>1 DEF LeaveStages
  <2>2. CASE \E k \in Keys : DrainerPoll(p, k)
    BY <2>2 DEF DrainerPoll
  <2>3. CASE DrainerDelete(p)
    BY <2>3 DEF DrainerDelete, DeleteMark
  <2>4. CASE DrainerDone(p) \/ AwaitDone(p)
    BY <2>4 DEF DrainerDone, AwaitDone
  <2> QED BY <2>1, <2>2, <2>3, <2>4 DEF Drainer
<1>3. TypeOK'
  <2> USE <1>0 DEF TypeOK, dispatcherVars
  <2>1. CASE \E k \in Keys : LeaveStages(p, k)
    <3>1. PICK k \in Keys : LeaveStages(p, k)
      BY <2>1
    <3>2. stages' \in [Pipelines -> SUBSET (Keys \cup {Nil})]
      BY <3>1 DEF LeaveStages
    <3>3. output' \in [Pipelines -> SUBSET Keys]
      <4>1. CASE output' = [output EXCEPT ![p] = @ \cup {k}]
        BY <4>1
      <4>2. CASE UNCHANGED output
        BY <4>2
      <4> QED BY <3>1, <4>1, <4>2 DEF LeaveStages
    <3> QED BY <1>1, <3>1, <3>2, <3>3 DEF LeaveStages
  <2>2. CASE \E k \in Keys : DrainerPoll(p, k)
    BY <1>1, <2>2 DEF DrainerPoll
  <2>3. CASE DrainerDelete(p)
    BY <1>1, <2>3 DEF DrainerDelete, DeleteMark
  <2>4. CASE DrainerDone(p) \/ AwaitDone(p)
    BY <1>1, <2>4 DEF DrainerDone, AwaitDone
  <2> QED BY <2>1, <2>2, <2>3, <2>4 DEF Drainer
<1>4. ASSUME InFlight(p)' \subseteq InFlight(p),
             PipelineInv(p)', NotNil(p)', Separate(p)', NoLeak(p)',
             Locked(p) => inPipeline'[p] = inPipeline[p]
      PROVE  Inv'
  <2>1. LoopInv'
    BY <1>0, <1>1, <1>2, <1>4, DispatcherAssumption DEF LoopInv, Locked, dispatcherVars
  <2>2. \A q \in Pipelines : InFlight(q)' \subseteq InFlight(q)
    <3>1. ASSUME NEW q \in Pipelines \ {p}
          PROVE  InFlight(q)' = InFlight(q)
      BY <1>1, <1>2 DEF InFlight, Queued, Keyed
    <3> QED BY <1>4, <3>1
  <2>3. NewSend'
    BY <1>0, <1>1, <2>2, DispatcherAssumption DEF NewSend, LoopInv, dispatcherVars
  <2> QED BY <1>1, <1>2, <1>3, <1>4, <2>1, <2>3, OnePipeline DEF dispatcherVars
<1>5. ASSUME NEW k \in Keys, LeaveStages(p, k)
      PROVE  Inv'
  <2>1. /\ k \in stages[p] /\ stages'[p] = stages[p] \ {k}
        /\ output'[p] = output[p] \cup {k} \/ (MayDrop(k) /\ output'[p] = output[p])
        /\ UNCHANGED <<inPipeline, drainer, hand>>
    BY <1>0, <1>5 DEF TypeOK, LeaveStages
  <2>2. /\ InFlight(p)' \subseteq InFlight(p)
        /\ cancelled \/ InFlight(p)' = InFlight(p) \/ (k \in Shared /\ InFlight(p) \subseteq InFlight(p)' \cup {k})
    <3>1. Keyed(held[p])' = Keyed(held[p]) /\ Keyed(hand[p])' = Keyed(hand[p])
      BY <1>1, <2>1 DEF Keyed
    <3>2. CASE output'[p] = output[p] \cup {k}
      <4>1. stages'[p] \cup output'[p] = stages[p] \cup output[p]
        BY <2>1, <3>2
      <4> QED BY <1>1, <3>1, <4>1 DEF InFlight
    <3>3. CASE MayDrop(k) /\ output'[p] = output[p]
      <4>1. InFlight(p)' \subseteq InFlight(p) /\ InFlight(p) \subseteq InFlight(p)' \cup {k}
        BY <1>1, <2>1, <3>1, <3>3 DEF InFlight
      <4> QED BY <3>3, <4>1 DEF MayDrop
    <3> QED BY <2>1, <3>2, <3>3
  <2>3. PipelineInv(p)' /\ NotNil(p)' /\ NoLeak(p)'
    BY <1>0, <1>1, <2>1, <2>2 DEF PipelineInv, NotNil, NoLeak, dispatcherVars
  <2>4. Separate(p)'
    BY <1>0, <1>1, <2>1, <2>2 DEF Separate
  <2> QED BY <1>4, <2>1, <2>2, <2>3, <2>4
<1>6. ASSUME NEW k \in Keys, DrainerPoll(p, k)
      PROVE  Inv'
  <2>1. /\ k \in output[p] /\ output'[p] = output[p] \ {k} /\ hand[p] = Nil /\ hand'[p] = k
        /\ drainer'[p] = "got" /\ UNCHANGED <<inPipeline, stages>> /\ k # Nil
    BY <1>0, <1>6, DispatcherAssumption DEF TypeOK, DrainerPoll, PipelineInv
  <2>2. InFlight(p)' = InFlight(p)
    BY <1>1, <2>1 DEF InFlight, Keyed
  <2>3. PipelineInv(p)' /\ NotNil(p)' /\ NoLeak(p)'
    BY <1>0, <1>1, <2>1, <2>2 DEF PipelineInv, NotNil, NoLeak, dispatcherVars
  <2>4. Separate(p)'
    BY <1>0, <1>1, <2>1, <2>2 DEF Separate
  <2> QED BY <1>4, <2>1, <2>2, <2>3, <2>4
<1>7. CASE DrainerDelete(p)
  <2>1. /\ inPipeline'[p] = inPipeline[p] \ {hand[p]} /\ hand'[p] = Nil /\ ~Locked(p)
        /\ UNCHANGED <<stages, output>>
    BY <1>0, <1>7 DEF TypeOK, DrainerDelete, DeleteMark
  <2>2. InFlight(p)' \subseteq InFlight(p) /\ InFlight(p) \subseteq InFlight(p)' \cup {hand[p]}
    BY <1>1, <2>1 DEF InFlight, Keyed
  <2>3. hand[p] = Nil \/ hand[p] \notin InFlight(p)'
    BY <1>0, <1>1, <2>1 DEF InFlight, Keyed, Separate
  <2>4. Nil \notin InFlight(p)
    BY <1>0, DispatcherAssumption DEF PipelineInv, TypeOK
  <2>5. PipelineInv(p)'
    BY <1>0, <1>1, <2>1, <2>2, <2>3, <2>4 DEF PipelineInv
  <2>6. NotNil(p)' /\ NoLeak(p)'
    BY <1>0, <1>1, <2>1, <2>2 DEF NotNil, NoLeak, dispatcherVars
  <2>7. Separate(p)'
    BY <1>0, <1>1, <2>1, <2>2 DEF Separate
  <2> QED BY <1>4, <2>1, <2>2, <2>5, <2>6, <2>7
<1>8. CASE DrainerDone(p) \/ AwaitDone(p)
  <2>1. /\ UNCHANGED <<inPipeline, stages, output, hand>>
        /\ drainer[p] # "got" /\ drainer'[p] # "got"
    BY <1>0, <1>8 DEF TypeOK, DrainerDone, AwaitDone
  <2>2. InFlight(p)' = InFlight(p)
    BY <1>1, <2>1 DEF InFlight, Keyed
  <2>3. PipelineInv(p)' /\ NotNil(p)' /\ NoLeak(p)' /\ Separate(p)'
    BY <1>0, <1>1, <2>1, <2>2 DEF PipelineInv, NotNil, NoLeak, Separate, dispatcherVars
  <2> QED BY <1>4, <2>1, <2>2, <2>3
<1> QED BY <1>5, <1>6, <1>7, <1>8 DEF Drainer

\* Every step preserves the invariant.
LEMMA InvStep ==
    ASSUME Inv, [Next]_vars
    PROVE  Inv'
<1>1. CASE \/ \E k \in Keys : Insert(k) \/ MarkFailed(k)
           \/ Cancel \/ Tick \/ Submitted \/ BeginClose \/ EndClose
           \/ \E p \in Pipelines : ClosePipeline(p)
           \/ \E p \in Pipelines, k \in Keys : WriteStatus(p, k)
           \/ UNCHANGED vars
  <2>1. UNCHANGED pipelineVars
    BY <1>1 DEF Insert, MarkFailed, Cancel, Tick, Submitted, BeginClose, EndClose,
         ClosePipeline, WriteStatus, vars
  <2> QED BY <1>1, <2>1, OutsideStep
<1>2. CASE Send \/ \E k \in Keys : SubmitTransfer(k)
  BY <1>2, SendStep, SubmitStep
<1>3. CASE \E p \in Pipelines : Emitter(p)
  BY <1>3, EmitterStep
<1>4. CASE \E p \in Pipelines :
             Drainer(p) \/ AwaitDone(p) \/ \E k \in Keys : LeaveStages(p, k)
  BY <1>4, DrainStep
<1> QED BY <1>1, <1>2, <1>3, <1>4 DEF Next, Submit, Close

\* Inv is an invariant of the dispatcher and its pipelines.
THEOREM Invariance == Spec => []Inv
<1>1. Init => Inv
  BY InvInit
<1>2. Inv /\ [Next]_vars => Inv'
  BY InvStep
<1> QED BY <1>1, <1>2, PTL DEF Spec

-----------------------------------------------------------------------------
(* The properties.                                                         *)

\* The dispatcher, the deduper and the pipelines keep their types.
THEOREM TypeCorrect == Spec => []TypeOK
<1>1. Inv => TypeOK
  BY DEF Inv
<1> QED BY <1>1, Invariance, PTL

\* PipelineDeduper keeps every transfer from being in the pipelines twice.
THEOREM DedupedSound == Spec => []Deduped
<1>1. Inv => Deduped
  BY DEF Inv
<1> QED BY <1>1, Invariance, PTL

\* PipelineDeduper's marks are those of transfers in the pipeline, until shutdown.
THEOREM NoMarkLeaksSound == Spec => []NoMarkLeaks
<1>1. Inv => NoMarkLeaks
  BY DEF Inv
<1> QED BY <1>1, Invariance, PTL

\* No processor is called with the nil a closed input channel yields.
THEOREM NilSound == Spec => []NilNeverProcessed
<1>1. Inv => NilNeverProcessed
  BY DEF Inv
<1> QED BY <1>1, Invariance, PTL

\* The keys of the transfers of pipeline p.
KeysOf(p) == {k \in Keys : PipelineOf[k] = p}

\* The input channel has room for all transfers of each pipeline.
BufferFits ==
    \A p \in Pipelines : IsFiniteSet(KeysOf(p)) /\ Cardinality(KeysOf(p)) <= InputBuffer

\* An injective sequence over a finite set that misses one of its elements is shorter
\* than the set is large.
LEMMA InjectiveLength ==
    ASSUME NEW S, IsFiniteSet(S), NEW s \in Seq(S), IsInjective(s), NEW x \in S, x \notin Range(s)
    PROVE  Len(s) < Cardinality(S)
<1>1. IsFiniteSet(S \ {x}) /\ Cardinality(S \ {x}) = Cardinality(S) - 1
  BY FS_RemoveElement
<1>2. Len(s) \in Nat /\ DOMAIN s = 1 .. Len(s)
  OBVIOUS
<1>3. IsFiniteSet(1 .. Len(s)) /\ Cardinality(1 .. Len(s)) = Len(s)
  <2>1. 1 \in Int /\ Len(s) \in Int
    BY <1>2
  <2>2. IsFiniteSet(1 .. Len(s))
        /\ Cardinality(1 .. Len(s)) = IF 1 > Len(s) THEN 0 ELSE Len(s) - 1 + 1
    BY <2>1, FS_Interval
  <2> QED BY <1>2, <2>2
<1>4. Range(s) \subseteq S \ {x}
  BY <1>2 DEF Range
<1>5. s \in Injection(1 .. Len(s), S \ {x})
  BY <1>2, <1>4 DEF Injection, IsInjective, Range
<1>6. Cardinality(1 .. Len(s)) <= Cardinality(S \ {x})
  BY <1>1, <1>5, FS_Injection DEF ExistsInjection
<1> QED BY <1>1, <1>2, <1>3, <1>6, FS_CardinalityType

\* A large enough buffer keeps Push from ever blocking with the mutex held, also when the
\* stages are congested, and during shutdown.
THEOREM PushSound ==
    ASSUME BufferFits
    PROVE  Spec => []PushNeverBlocks
<1>1. Inv => PushNeverBlocks
  <2> SUFFICES ASSUME Inv, at = "send"
               PROVE  Len(input[PipelineOf[cur]]) < InputBuffer
    BY DEF PushNeverBlocks
  <2>1. PICK p \in Pipelines : p = PipelineOf[cur] /\ cur \in KeysOf(p)
    BY DispatcherAssumption DEF Inv, LoopInv, KeysOf
  <2>2. IsInjective(input[p]) /\ cur \notin Range(input[p]) /\ input[p] \in Seq(Keys)
    BY <2>1, InvParts DEF Separate, NewSend, InFlight, Queued, TypeOK
  <2>3. Range(input[p]) \subseteq KeysOf(p)
    <3>1. Range(input[p]) \subseteq Keys
      BY <2>2, RangeSeq
    <3>2. Separate(p)
      BY <2>1, InvParts
    <3>3. Range(input[p]) \subseteq InFlight(p)
      BY DEF InFlight, Queued
    <3> QED BY <3>1, <3>2, <3>3 DEF Separate, KeysOf
  <2>4. input[p] \in Seq(KeysOf(p))
    BY <2>2, <2>3, RangeSeq
  <2>5. IsFiniteSet(KeysOf(p)) /\ Cardinality(KeysOf(p)) <= InputBuffer
    BY <2>1 DEF BufferFits
  <2>6. Len(input[p]) < Cardinality(KeysOf(p))
    BY <2>1, <2>2, <2>4, <2>5, InjectiveLength
  <2>7. Len(input[p]) \in Nat /\ Cardinality(KeysOf(p)) \in Nat /\ InputBuffer \in Nat
    BY <2>2, <2>5, FS_CardinalityType, DispatcherAssumption
  <2> QED BY <2>1, <2>5, <2>6, <2>7
<1> QED BY <1>1, Invariance, PTL

-----------------------------------------------------------------------------
(* The refinement of TransferCustody.                                      *)

\* The dispatcher is done with what it read before it reads again, only Push has a current
\* transfer, a transfer that nobody has asked for is nowhere, and a pipeline that does not exist
\* has none.
HandInv ==
    /\ at \notin {"submit", "send"} => todo = {}
    /\ at # "send" => cur = Nil
    /\ \A k \in Keys : status[k] = "absent" => k \notin todo /\ k \notin inPipeline[PipelineOf[k]]
    /\ \A p \in Pipelines \ created : inPipeline[p] = {}

\* The steps of the dispatcher's loop, and those that write a row, preserve HandInv, ...
LEMMA HandLoop ==
    ASSUME Inv, HandInv,
           \/ \E k \in Keys : Insert(k) \/ MarkFailed(k) \/ SubmitTransfer(k)
           \/ Cancel \/ Tick \/ Submitted \/ Send \/ BeginClose \/ EndClose
           \/ \E p \in Pipelines : ClosePipeline(p)
           \/ \E p \in Pipelines, k \in Keys : WriteStatus(p, k)
    PROVE  HandInv'
<1>0. TypeOK BY DEF Inv
<1>1. ASSUME NEW k \in Keys, Insert(k) PROVE HandInv'
  BY <1>0, <1>1 DEF TypeOK, HandInv, Insert, dispatcherVars, pipelineVars
<1>2. ASSUME NEW k \in Keys, MarkFailed(k) PROVE HandInv'
  BY <1>0, <1>2 DEF TypeOK, HandInv, MarkFailed, pipelineVars
<1>3. ASSUME NEW k \in Keys, SubmitTransfer(k) PROVE HandInv'
  <2>1. at = "submit" /\ k \in todo /\ status' = status /\ status[k] # "absent"
    BY <1>3 DEF SubmitTransfer, HandInv
  <2>2. CASE Marked(k)
    <3>1. todo' = todo \ {k} /\ UNCHANGED <<at, cur, inPipeline>> /\ created \subseteq created'
      BY <1>3, <2>2 DEF SubmitTransfer
    <3> QED BY <2>1, <3>1 DEF HandInv
  <2>3. CASE ~Marked(k)
    <3>1. /\ at' = "send" /\ todo' = todo
          /\ inPipeline' = [inPipeline EXCEPT ![PipelineOf[k]] = @ \cup {k}]
          /\ created' = created \cup {PipelineOf[k]}
      BY <1>3, <2>3 DEF SubmitTransfer
    <3>2. \A j \in Keys : j \in inPipeline'[PipelineOf[j]] => j = k \/ j \in inPipeline[PipelineOf[j]]
      BY <1>0, <3>1, DispatcherAssumption DEF TypeOK
    <3>3. \A p \in Pipelines \ created' : inPipeline'[p] = {}
      BY <1>0, <3>1 DEF HandInv, TypeOK
    <3> QED BY <2>1, <3>1, <3>2, <3>3 DEF HandInv
  <2> QED BY <2>2, <2>3
<1>4. CASE Tick BY <1>0, <1>4 DEF TypeOK, HandInv, Tick, pipelineVars
<1>5. CASE Send BY <1>0, <1>5 DEF TypeOK, HandInv, Send
<1>6. CASE Cancel \/ Submitted \/ BeginClose \/ EndClose \/ \E p \in Pipelines : ClosePipeline(p)
  BY <1>0, <1>6 DEF TypeOK, HandInv, Cancel, Submitted, BeginClose, EndClose, ClosePipeline,
                    dispatcherVars, pipelineVars
<1>7. ASSUME NEW p \in Pipelines, NEW k \in Keys, WriteStatus(p, k) PROVE HandInv'
  BY <1>0, <1>7 DEF TypeOK, HandInv, WriteStatus, dispatcherVars, pipelineVars
<1> QED BY <1>1, <1>2, <1>3, <1>4, <1>5, <1>6, <1>7

\* ... and the goroutines of a pipeline only take marks away.
LEMMA PipelineTakes ==
    ASSUME Inv, NEW p \in Pipelines,
           Emitter(p) \/ Drainer(p) \/ AwaitDone(p) \/ \E k \in Keys : LeaveStages(p, k)
    PROVE  /\ UNCHANGED <<status, dispatcherVars>>
           /\ \/ UNCHANGED inPipeline
              \/ /\ hand[p] \in Keys /\ PipelineOf[hand[p]] = p /\ hand[p] \in inPipeline[p]
                 /\ inPipeline' = [inPipeline EXCEPT ![p] = @ \ {hand[p]}]
<1>0. TypeOK /\ PipelineInv(p) /\ Separate(p) BY InvParts
<1>1. CASE Emitter(p)
  BY <1>1 DEF Emitter, EmitterTop, EmitterReceive, EmitterSend, dispatcherVars
<1>2. CASE AwaitDone(p) \/ DrainerDone(p) \/ \E k \in Keys : LeaveStages(p, k) \/ DrainerPoll(p, k)
  BY <1>2 DEF AwaitDone, DrainerDone, LeaveStages, DrainerPoll, dispatcherVars
<1>3. CASE DrainerDelete(p)
  <2>1. /\ UNCHANGED <<status, dispatcherVars>>
        /\ inPipeline' = [inPipeline EXCEPT ![p] = @ \ {hand[p]}]
    BY <1>3 DEF DrainerDelete, DeleteMark, dispatcherVars
  <2>2. CASE hand[p] = Nil
    <3>1. inPipeline[p] \ {hand[p]} = inPipeline[p]
      BY <1>0, <2>2, DispatcherAssumption DEF TypeOK
    <3> QED BY <1>0, <2>1, <3>1 DEF TypeOK
  <2>3. CASE hand[p] # Nil
    <3>1. hand[p] \in Keys /\ hand[p] \in InFlight(p)
      BY <1>0, <2>3 DEF TypeOK, InFlight, Keyed
    <3> QED BY <1>0, <2>1, <3>1 DEF PipelineInv, Separate
  <2> QED BY <2>2, <2>3
<1> QED BY <1>1, <1>2, <1>3 DEF Drainer

\* Every step preserves HandInv.
LEMMA HandStep == ASSUME Inv, HandInv, [Next]_vars PROVE HandInv'
<1>1. CASE \/ \E k \in Keys : Insert(k) \/ MarkFailed(k) \/ SubmitTransfer(k)
           \/ Cancel \/ Tick \/ Submitted \/ Send \/ BeginClose \/ EndClose
           \/ \E p \in Pipelines : ClosePipeline(p)
           \/ \E p \in Pipelines, k \in Keys : WriteStatus(p, k)
  BY <1>1, HandLoop
<1>2. ASSUME NEW p \in Pipelines,
             Emitter(p) \/ Drainer(p) \/ AwaitDone(p) \/ \E k \in Keys : LeaveStages(p, k)
      PROVE  HandInv'
  <2>1. UNCHANGED <<status, dispatcherVars>> BY <1>2, PipelineTakes
  <2>2. /\ \A k \in Keys : k \in inPipeline'[PipelineOf[k]] => k \in inPipeline[PipelineOf[k]]
        /\ \A q \in Pipelines : inPipeline[q] = {} => inPipeline'[q] = {}
    <3>1. inPipeline \in [Pipelines -> SUBSET Keys] BY DEF Inv, TypeOK
    <3>2. inPipeline' = inPipeline \/ inPipeline' = [inPipeline EXCEPT ![p] = @ \ {hand[p]}]
      BY <1>2, PipelineTakes
    <3>3. \A q \in Pipelines : inPipeline'[q] \subseteq inPipeline[q] BY <3>1, <3>2
    <3> QED BY <3>3, DispatcherAssumption
  <2> QED BY <2>1, <2>2 DEF HandInv, dispatcherVars
<1>3. CASE UNCHANGED vars
  BY <1>3 DEF vars, HandInv, dispatcherVars, pipelineVars
<1> QED BY <1>1, <1>2, <1>3 DEF Next, Submit, Close

\* The handover: Push marks the transfer, or finds it marked.
LEMMA SubmitIsHandover ==
    ASSUME Inv, HandInv, NEW k \in Keys, SubmitTransfer(k)
    PROVE  Custody!Enter(k) \/ Custody!Drop(k)
<1>0. TypeOK /\ PipelineOf[k] \in Pipelines /\ k # Nil BY DispatcherAssumption DEF Inv
<1>1. k \in todo /\ cur = Nil /\ status' = status
  BY DEF SubmitTransfer, HandInv
<1>2. k \in Polled /\ Open' = Open BY <1>0, <1>1 DEF Polled, Open
<1>3. CASE Marked(k)
  <2>1. todo' = todo \ {k} /\ UNCHANGED <<cur, inPipeline>> BY <1>3 DEF SubmitTransfer
  <2>2. k \in Inside BY <1>3 DEF Marked, Inside
  <2>3. Polled' = Polled \ {k} /\ Inside' = Inside BY <1>1, <2>1 DEF Polled, Inside
  <2> QED BY <1>2, <2>2, <2>3 DEF Custody!Drop
<1>4. CASE ~Marked(k)
  <2>1. /\ cur' = k /\ todo' = todo
        /\ inPipeline' = [inPipeline EXCEPT ![PipelineOf[k]] = @ \cup {k}]
    BY <1>4 DEF SubmitTransfer
  <2>2. k \notin Inside BY <1>4 DEF Marked, Inside
  <2>3. Polled' = Polled \ {k} BY <1>0, <1>1, <2>1, DispatcherAssumption DEF Polled, TypeOK
  <2>4. \A j \in Keys : j \in inPipeline'[PipelineOf[j]] <=> j = k \/ j \in inPipeline[PipelineOf[j]]
    BY <1>0, <2>1, DispatcherAssumption DEF TypeOK
  <2>5. Inside' = Inside \cup {k} BY <2>4 DEF Inside
  <2> QED BY <1>2, <2>2, <2>3, <2>5 DEF Custody!Enter
<1> QED BY <1>3, <1>4

\* What the goroutines of a pipeline do is a Leave or nothing.
LEMMA DrainIsLeave ==
    ASSUME Inv, NEW p \in Pipelines,
           Emitter(p) \/ Drainer(p) \/ AwaitDone(p) \/ \E k \in Keys : LeaveStages(p, k)
    PROVE  UNCHANGED Custody!vars \/ \E k \in Keys : Custody!Leave(k)
<1>1. UNCHANGED <<status, dispatcherVars>> BY PipelineTakes
<1>2. Open' = Open /\ Polled' = Polled BY <1>1 DEF Open, Polled, dispatcherVars
<1>3. CASE UNCHANGED inPipeline
  <2>1. Inside' = Inside BY <1>3 DEF Inside
  <2> QED BY <1>2, <2>1 DEF Custody!vars
<1>4. CASE /\ hand[p] \in Keys /\ PipelineOf[hand[p]] = p /\ hand[p] \in inPipeline[p]
           /\ inPipeline' = [inPipeline EXCEPT ![p] = @ \ {hand[p]}]
  <2>1. PICK k \in Keys : k = hand[p] BY <1>4
  <2>2. inPipeline \in [Pipelines -> SUBSET Keys] BY DEF Inv, TypeOK
  <2>3. \A j \in Keys : j \in inPipeline'[PipelineOf[j]] <=> j # k /\ j \in inPipeline[PipelineOf[j]]
    BY <1>4, <2>1, <2>2, DispatcherAssumption
  <2>4. Inside' = Inside \ {k} BY <2>3 DEF Inside
  <2>5. k \in Inside BY <1>4, <2>1 DEF Inside
  <2> QED BY <1>2, <2>4, <2>5 DEF Custody!Leave
<1> QED BY <1>3, <1>4, PipelineTakes

\* Every step is one that TransferCustody allows, or nothing to it.
LEMMA CustodyStep == ASSUME Inv, HandInv, [Next]_vars PROVE [Custody!Next]_(Custody!vars)
<1>0. TypeOK BY DEF Inv
<1>1. ASSUME NEW k \in Keys, Insert(k) PROVE Custody!Add(k)
  <2>1. /\ status[k] = "absent" /\ status' = [status EXCEPT ![k] = "unfinished"]
        /\ UNCHANGED <<todo, cur, inPipeline>>
    BY <1>1 DEF Insert, dispatcherVars, pipelineVars
  <2>2. k \notin Open /\ k \notin Polled /\ k \notin Inside
    BY <2>1 DEF HandInv, Open, Polled, Inside
  <2>3. Open' = Open \cup {k} BY <1>0, <2>1 DEF TypeOK, Open
  <2>4. Polled' = Polled /\ Inside' = Inside BY <2>1 DEF Polled, Inside
  <2> QED BY <2>2, <2>3, <2>4 DEF Custody!Add
<1>2. CASE Tick
  <2>1. Polled = {} /\ Polled' = Open
    <3>1. cur = Nil /\ cur' = Nil /\ todo = {} /\ todo' = {k \in Keys : status[k] = "unfinished"}
      BY <1>2 DEF Tick, HandInv
    <3> QED BY <3>1, DispatcherAssumption DEF Polled, Open
  <2>2. Open' = Open /\ Inside' = Inside BY <1>2 DEF Tick, Open, Inside, pipelineVars
  <2> QED BY <2>1, <2>2 DEF Custody!Poll, Custody!Next
<1>3. ASSUME NEW k \in Keys, MarkFailed(k) PROVE Custody!GiveUp(k)
  <2>0. k \notin Inside
    BY <1>3, DispatcherAssumption DEF MarkFailed, HandInv, Inside
  <2>1. /\ k \in todo /\ todo' = todo \ {k} /\ UNCHANGED <<cur, inPipeline>> /\ cur = Nil
        /\ status' = status \/ status' = [status EXCEPT ![k] = "FAILED"]
    BY <1>3 DEF MarkFailed, pipelineVars, HandInv
  <2>2. k \in Polled /\ Polled' = Polled \ {k} /\ Inside' = Inside
    BY <2>1, DispatcherAssumption DEF Polled, Inside
  <2>3. Open' = Open \/ Open' = Open \ {k} BY <1>0, <2>1 DEF TypeOK, Open
  <2> QED BY <2>0, <2>2, <2>3 DEF Custody!GiveUp
<1>4. ASSUME NEW p \in Pipelines, NEW k \in Keys, WriteStatus(p, k) PROVE Custody!Write(k)
  <2>1. k \in stages[p] /\ UNCHANGED <<todo, cur, inPipeline>>
    BY <1>4 DEF WriteStatus, dispatcherVars, pipelineVars
  <2>2. k \in InFlight(p) BY <2>1 DEF InFlight
  <2>3. k \in Inside
    <3>1. PipelineInv(p) /\ Separate(p) BY InvParts
    <3> QED BY <2>2, <3>1 DEF PipelineInv, Separate, Inside
  <2>4. Polled' = Polled /\ Inside' = Inside BY <2>1 DEF Polled, Inside
  <2>5. Open' = Open \cup {k} \/ Open' = Open \ {k}
    <3>1. CASE status' = [status EXCEPT ![k] = "unfinished"] BY <1>0, <3>1 DEF TypeOK, Open
    <3>2. CASE status' = [status EXCEPT ![k] = "finished"] BY <1>0, <3>2 DEF TypeOK, Open
    <3> QED BY <1>4, <3>1, <3>2 DEF WriteStatus
  <2> QED BY <2>3, <2>4, <2>5 DEF Custody!Write
<1>5. CASE Send
  <2>1. /\ at = "send" /\ cur' = Nil /\ todo' = todo \ {cur} /\ UNCHANGED <<status, inPipeline>>
        /\ Nil \notin todo
    BY <1>0, <1>5, DispatcherAssumption DEF Send, TypeOK
  <2>2. Open' = Open /\ Polled' = Polled /\ Inside' = Inside
    BY <2>1 DEF Open, Polled, Inside
  <2> QED BY <2>2 DEF Custody!vars
<1>6. CASE \/ Cancel \/ Submitted \/ BeginClose \/ EndClose \/ UNCHANGED vars
           \/ \E p \in Pipelines : ClosePipeline(p)
  <2>1. UNCHANGED <<status, todo, cur, inPipeline>>
    BY <1>6 DEF Cancel, Submitted, BeginClose, EndClose, ClosePipeline, vars, dispatcherVars,
                pipelineVars
  <2>2. Open' = Open /\ Polled' = Polled /\ Inside' = Inside
    BY <2>1 DEF Open, Polled, Inside
  <2> QED BY <2>2 DEF Custody!vars
<1>7. ASSUME NEW k \in Keys,
             Insert(k) \/ MarkFailed(k) \/ SubmitTransfer(k) \/ \E p \in Pipelines : WriteStatus(p, k)
      PROVE  Custody!Next
  <2>1. \/ Custody!Add(k) \/ Custody!GiveUp(k) \/ Custody!Enter(k) \/ Custody!Drop(k)
        \/ Custody!Write(k)
    BY <1>1, <1>3, <1>4, <1>7, SubmitIsHandover
  <2> QED BY <2>1 DEF Custody!Next
<1>8. ASSUME NEW p \in Pipelines,
             Emitter(p) \/ Drainer(p) \/ AwaitDone(p) \/ \E k \in Keys : LeaveStages(p, k)
      PROVE  [Custody!Next]_(Custody!vars)
  <2>1. UNCHANGED Custody!vars \/ \E k \in Keys : Custody!Leave(k) BY <1>8, DrainIsLeave
  <2> QED BY <2>1 DEF Custody!Next
<1> QED BY <1>2, <1>5, <1>6, <1>7, <1>8 DEF Next, Submit, Close

\* The dispatcher, the deduper and the pipelines implement TransferCustody, for any transfers,
\* paths and sizes of channels and stages, also during shutdown.
THEOREM DispatcherKeepsCustody == Spec => ImplementsCustody
<1>1. Init => HandInv /\ Custody!Init
  <2>1. ASSUME Init PROVE HandInv
    BY <2>1, DispatcherAssumption DEF Init, HandInv
  <2>2. ASSUME Init PROVE Custody!Init
    BY <2>2, DispatcherAssumption DEF Init, Custody!Init, Open, Polled, Inside
  <2> QED BY <2>1, <2>2
<1>2. Inv /\ HandInv /\ [Next]_vars => HandInv' /\ [Custody!Next]_(Custody!vars)
  BY HandStep, CustodyStep
<1> QED BY <1>1, <1>2, Invariance, PTL DEF Spec, ImplementsCustody, Custody!Spec
=============================================================================
