-------------------------- MODULE RunStream_proofs --------------------------
(***************************************************************************)
(* Proofs about the run store and the stream that feeds it, for any log    *)
(* and any number of gaps, drops and rehydrations.                         *)
(*                                                                         *)
(* The store is followed one event at a time: the state after a queue with *)
(* one more event is applyEvent of the state after the queue (ApplyOne),   *)
(* so a queue that grows by the log's next event goes on from a state of   *)
(* the log to the next, and a property of the store that no event breaks   *)
(* holds after any queue (ApplyKeepsShape).                                *)
(***************************************************************************)
EXTENDS RunStream, DataFacts

-----------------------------------------------------------------------------
(* Applying a queue of events.                                             *)

(* The states on the way of applying the first n events.                   *)
Path(g, s, evs, n) ==
  g = [i \in 0..n |-> IF i = 0 THEN s ELSE applyEvent(g[i - 1], evs[i])]

LEMMA PathExists ==
  ASSUME NEW s, NEW evs, NEW n \in Nat
  PROVE  \E g : Path(g, s, evs, n)
<1> DEFINE S == {k \in Nat : \E g : Path(g, s, evs, k)}
<1>1. 0 \in S
  <2>1. Path([i \in 0..0 |-> s], s, evs, 0)
    BY DEF Path
  <2> QED
    BY <2>1
<1>2. ASSUME NEW k \in S PROVE k + 1 \in S
  <2>1. PICK g : Path(g, s, evs, k)
    OBVIOUS
  <2> DEFINE h == [i \in 0..(k + 1) |-> IF i = k + 1 THEN applyEvent(g[k], evs[k + 1]) ELSE g[i]]
  <2>2. ASSUME NEW i \in 0..(k + 1)
        PROVE  h[i] = IF i = 0 THEN s ELSE applyEvent(h[i - 1], evs[i])
    <3>1. k \in Nat /\ \A j \in 0..k : g[j] = IF j = 0 THEN s ELSE applyEvent(g[j - 1], evs[j])
      BY <2>1 DEF Path
    <3>2. CASE i = k + 1
      <4>1. i # 0 /\ i - 1 = k /\ k \in 0..(k + 1) /\ k # k + 1
        BY <3>1, <3>2
      <4>2. h[i - 1] = g[k]
        BY <4>1
      <4> QED
        BY <3>2, <4>1, <4>2
    <3>3. CASE i \in 0..k
      <4>1. h[i] = g[i]
        BY <3>1, <3>3
      <4>2. i # 0 => h[i - 1] = g[i - 1]
        BY <3>1, <3>3
      <4> QED
        BY <3>1, <3>3, <4>1, <4>2
    <3> QED
      BY <3>1, <3>2, <3>3
  <2>3. Path(h, s, evs, k + 1)
    BY <2>2 DEF Path
  <2> QED
    BY <2>3
<1>3. S = Nat
  BY <1>1, <1>2, SetInduction
<1> QED
  BY <1>3

LEMMA PathSteps ==
  ASSUME NEW g, NEW s, NEW evs, NEW n \in Nat, Path(g, s, evs, n)
  PROVE  g[0] = s /\ \A i \in 1..n : g[i] = applyEvent(g[i - 1], evs[i])
BY DEF Path

(* The state after the events is the end of any such path.                 *)
LEMMA ApplyIsPath ==
  ASSUME NEW s, NEW evs, Len(evs) \in Nat
  PROVE  \E g : Path(g, s, evs, Len(evs)) /\ ApplyAll(s, evs) = g[Len(evs)]
<1> DEFINE g == CHOOSE f : Path(f, s, evs, Len(evs))
<1>1. Path(g, s, evs, Len(evs))
  BY PathExists
<1>2. ApplyAll(s, evs) = g[Len(evs)]
  BY DEF ApplyAll, Path
<1> QED
  BY <1>1, <1>2

(* Nothing to apply.                                                       *)
LEMMA ApplyNone ==
  ASSUME NEW s, NEW evs, Len(evs) = 0
  PROVE  ApplyAll(s, evs) = s
<1>1. PICK g : Path(g, s, evs, 0) /\ ApplyAll(s, evs) = g[0]
  BY ApplyIsPath
<1> QED
  BY <1>1, PathSteps

(* One event more.                                                         *)
LEMMA ApplyOne ==
  ASSUME NEW s, NEW E, NEW evs \in Seq(E), NEW e \in E
  PROVE  ApplyAll(s, Append(evs, e)) = applyEvent(ApplyAll(s, evs), e)
<1> DEFINE n == Len(evs)
           more == Append(evs, e)
<1>1. n \in Nat /\ Len(more) = n + 1 /\ more[n + 1] = e /\ \A i \in 1..n : more[i] = evs[i]
  BY AppendProperties
<1>2. PICK g : Path(g, s, evs, n) /\ ApplyAll(s, evs) = g[n]
  BY <1>1, ApplyIsPath
<1>3. PICK h : Path(h, s, more, n + 1) /\ ApplyAll(s, more) = h[n + 1]
  <2>1. Len(more) \in Nat
    BY <1>1
  <2>2. \E h : Path(h, s, more, Len(more)) /\ ApplyAll(s, more) = h[Len(more)]
    BY <2>1, ApplyIsPath
  <2> QED
    BY <1>1, <2>2
<1> HIDE DEF n, more
<1>4. h[0] = s /\ g[0] = s
  BY <1>1, <1>2, <1>3, PathSteps
<1>5. \A i \in 1..n : h[i] = applyEvent(h[i - 1], evs[i]) /\ g[i] = applyEvent(g[i - 1], evs[i])
  BY <1>1, <1>2, <1>3, PathSteps
<1> DEFINE S == {i \in Nat : i <= n => h[i] = g[i]}
<1>6. S = Nat
  <2>1. 0 \in S
    BY <1>4
  <2>2. ASSUME NEW i \in S PROVE i + 1 \in S
    <3>1. i \in Nat /\ (i <= n => h[i] = g[i])
      OBVIOUS
    <3>2. ASSUME i + 1 <= n PROVE h[i + 1] = g[i + 1]
      <4>1. i + 1 \in 1..n /\ (i + 1) - 1 = i /\ i <= n
        BY <1>1, <3>1, <3>2
      <4> QED
        BY <1>5, <3>1, <4>1
    <3> QED
      BY <3>1, <3>2
  <2>3. S \in SUBSET Nat
    OBVIOUS
  <2> HIDE DEF S
  <2> QED
    BY <2>1, <2>2, <2>3, SetInduction
<1>7. h[n] = g[n]
  BY <1>1, <1>6
<1>8. h[n + 1] = applyEvent(h[n], e)
  <2>1. n + 1 \in 1..(n + 1) /\ (n + 1) - 1 = n
    BY <1>1
  <2>2. h[n + 1] = applyEvent(h[(n + 1) - 1], more[n + 1])
    BY <1>1, <1>3, <2>1, PathSteps
  <2> QED
    BY <1>1, <2>1, <2>2
<1> QED
  BY <1>2, <1>3, <1>7, <1>8 DEF more

-----------------------------------------------------------------------------
(* The shape of the store: a record whose steps are a sequence of which at *)
(* most one is active.                                                     *)

IsSteps(t) ==
  /\ Len(t) \in Nat
  /\ t = [i \in 1..Len(t) |-> t[i]]
  /\ \A i \in 1..Len(t) : t[i] = [index |-> t[i].index, status |-> t[i].status]

OneActive(t) == \A i, j \in 1..Len(t) : t[i].status = "active" /\ t[j].status = "active" => i = j

NoneActive(t) == \A i \in 1..Len(t) : t[i].status # "active"

IsStore(s) ==
  /\ s = [phase |-> s.phase, steps |-> s.steps, code |-> s.code, observed |-> s.observed,
          verdicts |-> s.verdicts, backtracks |-> s.backtracks, final |-> s.final, answer |-> s.answer]
  /\ IsSteps(s.steps) /\ OneActive(s.steps)

LEMMA InitialStore == IsStore(StoreInit)
<1>1. Len(<<>>) = 0 /\ <<>> = [i \in 1..0 |-> <<>>[i]]
  OBVIOUS
<1> QED
  BY <1>1 DEF IsStore, IsSteps, OneActive, StoreInit

Restatus(p, st) == [p EXCEPT !.status = st]
Marked(t, chosen, st) == [i \in DOMAIN t |-> IF i \in chosen THEN Restatus(t[i], st) ELSE t[i]]

(* Marking some of the steps.                                              *)
LEMMA MarkSteps ==
  ASSUME NEW t, IsSteps(t), NEW chosen, NEW st, NEW u, u = Marked(t, chosen, st)
  PROVE  /\ IsSteps(u) /\ Len(u) = Len(t) /\ DOMAIN t = 1..Len(t)
         /\ \A i \in 1..Len(t) : u[i].status = IF i \in chosen THEN st ELSE t[i].status
<1>1. Len(t) \in Nat /\ DOMAIN t = 1..Len(t)
  BY DEF IsSteps
<1>2. DOMAIN u = 1..Len(t)
  BY <1>1 DEF Marked
<1>3. Len(u) = Len(t)
  BY <1>1, <1>2
<1>4. ASSUME NEW i \in 1..Len(t)
      PROVE  /\ u[i] = [index |-> u[i].index, status |-> u[i].status]
             /\ u[i].status = IF i \in chosen THEN st ELSE t[i].status
  <2>1. t[i] = [index |-> t[i].index, status |-> t[i].status]
    BY DEF IsSteps
  <2>2. i \in chosen => u[i] = [index |-> t[i].index, status |-> st]
    <3>1. i \in chosen => u[i] = Restatus(t[i], st)
      BY <1>1 DEF Marked
    <3>2. Restatus(t[i], st) = [index |-> t[i].index, status |-> st]
      BY <2>1 DEF Restatus
    <3> QED
      BY <3>1, <3>2
  <2>3. i \notin chosen => u[i] = t[i]
    BY <1>1 DEF Marked
  <2> QED
    BY <2>1, <2>2, <2>3
<1>5. u = [i \in 1..Len(u) |-> u[i]]
  BY <1>1, <1>2, <1>3 DEF Marked
<1> QED
  BY <1>1, <1>3, <1>4, <1>5 DEF IsSteps

LEMMA CompleteSteps ==
  ASSUME NEW s, IsSteps(s.steps)
  PROVE  IsSteps(Complete(s)) /\ NoneActive(Complete(s)) /\ Len(Complete(s)) = Len(s.steps)
<1> DEFINE chosen == ActiveAt(s)
<1>1. Complete(s) = Marked(s.steps, chosen, "completed")
  BY DEF Complete, Mark, ActiveAt, Restatus, Marked
<1>2. \A i \in DOMAIN s.steps : i \in chosen <=> s.steps[i].status = "active"
  BY DEF ActiveAt
<1> HIDE DEF chosen
<1>3. /\ IsSteps(Complete(s)) /\ Len(Complete(s)) = Len(s.steps) /\ DOMAIN s.steps = 1..Len(s.steps)
      /\ \A i \in 1..Len(s.steps) :
           Complete(s)[i].status = IF i \in chosen THEN "completed" ELSE s.steps[i].status
  BY <1>1, MarkSteps
<1> QED
  BY <1>2, <1>3 DEF NoneActive

(* Taking steps back.                                                      *)
LEMMA BacktrackSteps ==
  ASSUME NEW s, IsSteps(s.steps), OneActive(s.steps), NEW chosen, NEW u,
         u = Marked(s.steps, chosen, "backtracked")
  PROVE  IsSteps(u) /\ OneActive(u)
<1>1. /\ IsSteps(u) /\ Len(u) = Len(s.steps)
      /\ \A i \in 1..Len(s.steps) :
           u[i].status = IF i \in chosen THEN "backtracked" ELSE s.steps[i].status
  BY MarkSteps
<1> QED
  BY <1>1 DEF OneActive

(* A step more, after none is active.                                      *)
LEMMA AppendStep ==
  ASSUME NEW t, IsSteps(t), NoneActive(t), NEW index
  PROVE  IsSteps(Append(t, [index |-> index, status |-> "active"]))
         /\ OneActive(Append(t, [index |-> index, status |-> "active"]))
<1> DEFINE e == [index |-> index, status |-> "active"]
           E == {t[i] : i \in 1..Len(t)} \cup {e}
           u == Append(t, e)
<1>1. Len(t) \in Nat /\ t \in [1..Len(t) -> E]
  BY DEF IsSteps
<1>2. t \in Seq(E) /\ e \in E
  BY <1>1, SeqDef
<1>3. /\ u \in Seq(E) /\ Len(u) = Len(t) + 1 /\ u[Len(t) + 1] = e
      /\ \A i \in 1..Len(t) : u[i] = t[i]
  BY <1>2, AppendProperties
<1>4. u = [i \in 1..Len(u) |-> u[i]]
  BY <1>3
<1>5. e = [index |-> e.index, status |-> e.status] /\ e.status = "active"
  OBVIOUS
<1> HIDE DEF u, e, E
<1>6. \A i \in 1..Len(u) : i \in 1..Len(t) \/ i = Len(t) + 1
  BY <1>1, <1>3
<1>7. IsSteps(u)
  BY <1>1, <1>3, <1>4, <1>5, <1>6 DEF IsSteps
<1>8. OneActive(u)
  BY <1>1, <1>3, <1>5, <1>6 DEF OneActive, NoneActive
<1> QED
  BY <1>7, <1>8 DEF u, e

(* One field of the store written.                                         *)
LEMMA WriteField ==
  ASSUME NEW s, IsStore(s), NEW v
  PROVE  /\ IsStore([s EXCEPT !.phase = v]) /\ IsStore([s EXCEPT !.code = v])
         /\ IsStore([s EXCEPT !.observed = v]) /\ IsStore([s EXCEPT !.verdicts = v])
         /\ IsStore([s EXCEPT !.backtracks = v]) /\ IsStore([s EXCEPT !.final = v])
         /\ IsStore([s EXCEPT !.answer = v])
<1>1. IsStore([s EXCEPT !.phase = v])
  BY DEF IsStore
<1>2. IsStore([s EXCEPT !.code = v])
  BY DEF IsStore
<1>3. IsStore([s EXCEPT !.observed = v])
  BY DEF IsStore
<1>4. IsStore([s EXCEPT !.verdicts = v])
  BY DEF IsStore
<1>5. IsStore([s EXCEPT !.backtracks = v])
  BY DEF IsStore
<1>6. IsStore([s EXCEPT !.final = v])
  BY DEF IsStore
<1>7. IsStore([s EXCEPT !.answer = v])
  BY DEF IsStore
<1> QED
  BY <1>1, <1>2, <1>3, <1>4, <1>5, <1>6, <1>7

LEMMA WriteSteps ==
  ASSUME NEW s, IsStore(s), NEW t, IsSteps(t), OneActive(t)
  PROVE  IsStore([s EXCEPT !.steps = t])
BY DEF IsStore

(* Every kind of event, by the fields it changes.                          *)
LEMMA EventKeepsShape ==
  ASSUME NEW s, IsStore(s), NEW e
  PROVE  IsStore(applyEvent(s, e))
<1>1. /\ IsSteps(s.steps) /\ OneActive(s.steps)
      /\ IsSteps(Complete(s)) /\ NoneActive(Complete(s)) /\ OneActive(Complete(s))
  BY CompleteSteps DEF NoneActive, OneActive, IsStore
<1>2. ASSUME NEW v PROVE IsStore([s EXCEPT !.phase = v])
  BY WriteField
<1>3. ASSUME NEW v, NEW t, IsSteps(t), OneActive(t) PROVE IsStore([s EXCEPT !.phase = v, !.steps = t])
  <2>1. [s EXCEPT !.phase = v, !.steps = t] = [[s EXCEPT !.phase = v] EXCEPT !.steps = t]
    OBVIOUS
  <2> QED
    BY <1>2, <1>3, <2>1, WriteSteps
<1>5. IsStore(PlanStep(s, e))
  BY <1>1, <1>3, AppendStep DEF PlanStep
<1>6. IsStore(Stdout(s))
  <2> DEFINE o == IF HasActive(s) THEN s.observed \cup {ActiveIndex(s)} ELSE s.observed
             r == [s EXCEPT !.phase = "executing"]
  <2>1. Stdout(s) = [r EXCEPT !.observed = o]
    BY DEF Stdout
  <2>2. IsStore(r)
    BY <1>2
  <2> HIDE DEF o, r
  <2>3. IsStore([r EXCEPT !.observed = o])
    BY <2>2, WriteField
  <2> QED
    BY <2>1, <2>3
<1>7. IsStore(Finished(s))
  <2> DEFINE o == s.observed \cup {ActiveIndex(s)}
             r == [s EXCEPT !.phase = "verifying"]
  <2>1. HasActive(s) => Finished(s) = [r EXCEPT !.observed = o]
    BY DEF Finished
  <2>2. ~HasActive(s) => Finished(s) = s
    BY DEF Finished
  <2>3. IsStore(r)
    BY <1>2
  <2> HIDE DEF o, r
  <2>4. IsStore([r EXCEPT !.observed = o])
    BY <2>3, WriteField
  <2> QED
    BY <2>1, <2>2, <2>4
<1>8. IsStore(VerdictOn(s, e))
  <2> DEFINE v == Append(s.verdicts, [sufficient |-> e.sufficient, hasStep |-> HasActive(s)])
             r == [s EXCEPT !.phase = "verifying"]
  <2>1. VerdictOn(s, e) = [r EXCEPT !.verdicts = v]
    BY DEF VerdictOn
  <2>2. IsStore(r)
    BY <1>2
  <2> HIDE DEF v, r
  <2>3. IsStore([r EXCEPT !.verdicts = v])
    BY <2>2, WriteField
  <2> QED
    BY <2>1, <2>3
<1>9. IsStore(RouteDecision(s, e))
  <2> DEFINE chosen == {i \in DOMAIN s.steps : s.steps[i].index >= e.index}
             t == Marked(s.steps, chosen, "backtracked")
             b == Append(s.backtracks, e.index)
             r == [[s EXCEPT !.phase = "routing"] EXCEPT !.backtracks = b]
  <2>1. IsSteps(t) /\ OneActive(t)
    BY <1>1, BacktrackSteps
  <2>2. Mark(s, LAMBDA p : p.index >= e.index, "backtracked") = t
    BY DEF Mark, Marked, Restatus
  <2>3. IsStore(r)
    BY <1>2, WriteField
  <2>4. IsStore([r EXCEPT !.steps = t])
    <3> HIDE DEF r, t
    <3> QED
      BY <2>1, <2>3, WriteSteps
  <2>5. Backtracks(e) => RouteDecision(s, e) = [r EXCEPT !.steps = t]
    <3> HIDE DEF t
    <3> QED
      BY <2>2 DEF RouteDecision
  <2>6. ~Backtracks(e) => RouteDecision(s, e) = [s EXCEPT !.phase = "routing"]
    BY DEF RouteDecision
  <2> QED
    BY <1>2, <2>4, <2>5, <2>6
<1>10. IsStore(Truncate(s, e))
  <2> DEFINE chosen == {i \in DOMAIN s.steps : s.steps[i].index > e.index}
             t == Marked(s.steps, chosen, "backtracked")
  <2>1. IsSteps(t) /\ OneActive(t)
    BY <1>1, BacktrackSteps
  <2>2. Mark(s, LAMBDA p : p.index > e.index, "backtracked") = t
    BY DEF Mark, Marked, Restatus
  <2>3. Truncate(s, e) = [s EXCEPT !.steps = t]
    BY <2>2 DEF Truncate
  <2> HIDE DEF t
  <2> QED
    BY <2>1, <2>3, WriteSteps
<1>11. IsStore(RunFinished(s, e))
  <2> DEFINE a == CASE e.status = "succeeded" -> "complete"
                    [] e.status = "cancelled" -> "cancelled"
                    [] OTHER -> "failed"
             r == [[[s EXCEPT !.phase = a] EXCEPT !.final = e.status] EXCEPT !.answer = e.answer]
             t == Complete(s)
  <2> HIDE DEF a
  <2>1. IsStore([[s EXCEPT !.phase = a] EXCEPT !.final = e.status])
    BY <1>2, WriteField
  <2>2. IsStore(r)
    BY <2>1, WriteField
  <2>3. RunFinished(s, e) = [r EXCEPT !.steps = t]
    BY DEF RunFinished, a
  <2> HIDE DEF r
  <2> QED
    BY <1>1, <2>2, <2>3, WriteSteps
<1>12. IsStore([s EXCEPT !.phase = "coding", !.code = e.index])
  <2>1. [s EXCEPT !.phase = "coding", !.code = e.index] = [[s EXCEPT !.phase = "coding"] EXCEPT !.code = e.index]
    OBVIOUS
  <2> QED
    BY <1>2, <2>1, WriteField
<1>13. IsStore([s EXCEPT !.phase = "failed", !.final = "failed"])
  <2>1. [s EXCEPT !.phase = "failed", !.final = "failed"] = [[s EXCEPT !.phase = "failed"] EXCEPT !.final = "failed"]
    OBVIOUS
  <2> QED
    BY <1>2, <2>1, WriteField
<1>14. \/ applyEvent(s, e) = [s EXCEPT !.phase = "analyzing"]
       \/ applyEvent(s, e) = [s EXCEPT !.phase = "debugging"]
       \/ applyEvent(s, e) = [s EXCEPT !.phase = "coding", !.code = e.index]
       \/ applyEvent(s, e) = [s EXCEPT !.phase = "failed", !.final = "failed"]
       \/ applyEvent(s, e) \in {PlanStep(s, e), Stdout(s), Finished(s), VerdictOn(s, e), s,
                                RouteDecision(s, e), Truncate(s, e), RunFinished(s, e)}
  BY DEF applyEvent
<1> QED
  BY <1>2, <1>5, <1>6, <1>7, <1>8, <1>9, <1>10, <1>11, <1>12, <1>13, <1>14

(* Whatever the queue holds.                                               *)
LEMMA ApplyKeepsShape ==
  ASSUME NEW s, IsStore(s), NEW evs, Len(evs) \in Nat
  PROVE  IsStore(ApplyAll(s, evs))
<1> DEFINE n == Len(evs)
<1>1. PICK g : Path(g, s, evs, n) /\ ApplyAll(s, evs) = g[n]
  BY ApplyIsPath
<1>2. g[0] = s /\ \A i \in 1..n : g[i] = applyEvent(g[i - 1], evs[i])
  BY <1>1, PathSteps
<1> DEFINE S == {i \in Nat : i <= n => IsStore(g[i])}
<1>3. 0 \in S
  BY <1>2
<1>4. ASSUME NEW i \in S PROVE i + 1 \in S
  <2>1. ASSUME i + 1 <= n PROVE IsStore(g[i + 1])
    <3>1. i + 1 \in 1..n /\ (i + 1) - 1 = i /\ IsStore(g[i])
      BY <2>1
    <3> QED
      BY <1>2, <3>1, EventKeepsShape
  <2> QED
    BY <2>1
<1>5. S \in SUBSET Nat
  OBVIOUS
<1>6. S = Nat
  <2> HIDE DEF S
  <2> QED
    BY <1>3, <1>4, <1>5, SetInduction
<1> QED
  BY <1>1, <1>6

(* What the page shows of such a store.                                    *)
LEMMA StoreHasOneActive ==
  ASSUME NEW s, IsStore(s)
  PROVE  ActiveAt(s) \subseteq DOMAIN s.steps /\ Cardinality(ActiveAt(s)) <= 1
<1>1. \A i, j \in ActiveAt(s) : i = j
  BY DEF IsStore, IsSteps, OneActive, ActiveAt
<1>2. CASE ActiveAt(s) = {}
  BY <1>2, FS_EmptySet
<1>3. ASSUME NEW i \in ActiveAt(s) PROVE Cardinality(ActiveAt(s)) = 1
  <2>1. ActiveAt(s) = {i}
    BY <1>1
  <2> QED
    BY <2>1, FS_Singleton
<1> QED
  BY <1>2, <1>3 DEF ActiveAt

-----------------------------------------------------------------------------
(* The states of the log.                                                  *)

Events == Range(Log)
Waiting(p) == [i \in DOMAIN p |-> Log[p[i]]]

LEMMA LogIsSequence ==
  /\ Log \in Seq(Events) /\ Len(Log) \in Nat \ {0} /\ DOMAIN Log = 1..Len(Log)
  /\ \A i \in DOMAIN Log : Log[i] \in Events
<1>1. Log \in Seq(Events) /\ Log # <<>>
  BY LogAssumption DEF Events
<1>2. Len(Log) \in Nat /\ DOMAIN Log = 1..Len(Log) /\ \A i \in 1..Len(Log) : Log[i] \in Events
  BY <1>1, LenProperties, ElementOfSeq
<1>3. Len(Log) # 0
  BY <1>1, EmptySeq
<1> QED
  BY <1>1, <1>2, <1>3

LEMMA ReplayStates ==
  /\ Replay[0] = StoreInit
  /\ \A n \in DOMAIN Log : Replay[n] = applyEvent(Replay[n - 1], Log[n])
  /\ \A n \in 0..Len(Log) : IsStore(Replay[n])
<1>1. ASSUME NEW n \in 0..Len(Log)
      PROVE  /\ SubSeq(Log, 1, n) \in Seq(Events) /\ Len(SubSeq(Log, 1, n)) = n
             /\ Replay[n] = ApplyAll(StoreInit, SubSeq(Log, 1, n))
             /\ n # 0 => SubSeq(Log, 1, n) = Append(SubSeq(Log, 1, n - 1), Log[n])
  <2>1. SubSeq(Log, 1, n) \in Seq(Events) /\ Len(SubSeq(Log, 1, n)) = n
    BY LogIsSequence, SubSeqProperties
  <2>2. Replay[n] = ApplyAll(StoreInit, SubSeq(Log, 1, n))
    BY DEF Replay
  <2>3. ASSUME n # 0 PROVE SubSeq(Log, 1, n) = Append(SubSeq(Log, 1, n - 1), Log[n])
    BY <2>3, LogIsSequence, SubSeqRecursiveSecond
  <2> QED
    BY <2>1, <2>2, <2>3
<1>2. Replay[0] = StoreInit
  <2>1. 0 \in 0..Len(Log)
    BY LogIsSequence
  <2>2. Len(SubSeq(Log, 1, 0)) = 0 /\ Replay[0] = ApplyAll(StoreInit, SubSeq(Log, 1, 0))
    BY <1>1, <2>1
  <2> QED
    BY <2>2, ApplyNone
<1>3. ASSUME NEW n \in DOMAIN Log PROVE Replay[n] = applyEvent(Replay[n - 1], Log[n])
  <2>1. n \in 0..Len(Log) /\ n - 1 \in 0..Len(Log) /\ n # 0 /\ Log[n] \in Events
    BY LogIsSequence
  <2> DEFINE q == SubSeq(Log, 1, n - 1)
  <2>2. Replay[n] = ApplyAll(StoreInit, Append(q, Log[n]))
    BY <1>1, <2>1
  <2>3. Replay[n - 1] = ApplyAll(StoreInit, q) /\ q \in Seq(Events)
    BY <1>1, <2>1
  <2> HIDE DEF q
  <2>4. ApplyAll(StoreInit, Append(q, Log[n])) = applyEvent(ApplyAll(StoreInit, q), Log[n])
    BY <2>1, <2>3, ApplyOne
  <2> QED
    BY <2>2, <2>3, <2>4
<1>4. ASSUME NEW n \in 0..Len(Log) PROVE IsStore(Replay[n])
  BY <1>1, LogIsSequence, InitialStore, ApplyKeepsShape
<1> QED
  BY <1>2, <1>3, <1>4

(* The queue of events that wait for a frame.                              *)
LEMMA WaitingElements ==
  ASSUME NEW p \in Seq(DOMAIN Log)
  PROVE  /\ Waiting(p) \in Seq(Events) /\ Len(Waiting(p)) = Len(p) /\ Len(p) \in Nat
         /\ \A i \in 1..Len(p) : Waiting(p)[i] = Log[p[i]]
<1>1. Len(p) \in Nat /\ DOMAIN p = 1..Len(p) /\ \A i \in 1..Len(p) : p[i] \in DOMAIN Log
  BY ElementOfSeq, LenProperties
<1>2. Waiting(p) \in [1..Len(p) -> Events] /\ \A i \in 1..Len(p) : Waiting(p)[i] = Log[p[i]]
  BY <1>1, LogIsSequence DEF Waiting
<1> QED
  BY <1>1, <1>2

LEMMA WaitingOneMore ==
  ASSUME NEW p \in Seq(DOMAIN Log), NEW n \in DOMAIN Log
  PROVE  Waiting(Append(p, n)) = Append(Waiting(p), Log[n])
<1> DEFINE q == Append(p, n)
           w == Waiting(p)
           v == Append(w, Log[n])
<1>1. /\ q \in Seq(DOMAIN Log) /\ Len(q) = Len(p) + 1 /\ q[Len(p) + 1] = n
      /\ \A i \in 1..Len(p) : q[i] = p[i]
  BY AppendProperties
<1>2. /\ w \in Seq(Events) /\ Len(w) = Len(p) /\ Len(p) \in Nat
      /\ \A i \in 1..Len(p) : w[i] = Log[p[i]]
  BY WaitingElements
<1> HIDE DEF q, w
<1>3. /\ v \in Seq(Events) /\ Len(v) = Len(p) + 1 /\ v[Len(p) + 1] = Log[n]
      /\ \A i \in 1..Len(p) : v[i] = w[i]
  BY <1>2, LogIsSequence, AppendProperties
<1>4. /\ Waiting(q) \in Seq(Events) /\ Len(Waiting(q)) = Len(p) + 1
      /\ \A i \in 1..(Len(p) + 1) : Waiting(q)[i] = Log[q[i]]
  BY <1>1, WaitingElements
<1> HIDE DEF v
<1>5. ASSUME NEW i \in 1..(Len(p) + 1) PROVE Waiting(q)[i] = v[i]
  <2>1. CASE i = Len(p) + 1
    BY <1>1, <1>3, <1>4, <2>1
  <2>2. CASE i \in 1..Len(p)
    BY <1>1, <1>2, <1>3, <1>4, <2>2
  <2> QED
    BY <1>2, <2>1, <2>2
<1>6. Waiting(q) = v
  BY <1>3, <1>4, <1>5, SeqEqual
<1> QED
  BY <1>6 DEF q, w, v

-----------------------------------------------------------------------------
(* The invariant.                                                          *)

Fetch == [run : Runs, upto : 0..Len(Log)]

ServerTypes == logged \in [Runs -> 0..Len(Log)] /\ run \in Runs

HookTypes ==
  /\ cursor \in 0..logged[run] /\ lastSeq \in 0..Len(Log)
  /\ conn \in {"connecting", "open", "retrying", "closed"}
  /\ status \in {"connecting", "streaming", "reconnecting", "complete", "error"}
  /\ resuming \in BOOLEAN /\ frame \in BOOLEAN /\ exact \in BOOLEAN
  /\ pending \in Seq(DOMAIN Log) /\ events \in Seq(DOMAIN Log)

FetchTypes == asked \in Nat /\ \A k \in DOMAIN fetches : k \in 1..asked /\ fetches[k] \in Fetch

(* The queue leads from the store to the last event received.              *)
QueueLeads == exact => ApplyAll(store, Waiting(pending)) = Replay[cursor]

StreamInv == ServerTypes /\ HookTypes /\ FetchTypes /\ IsStore(store) /\ QueueLeads

LEMMA StreamInvInit == StreamInit => StreamInv
<1> SUFFICES ASSUME StreamInit PROVE StreamInv
  OBVIOUS
<1>1. ServerTypes
  BY LogIsSequence, RunsAssumption DEF StreamInit, ServerTypes
<1>2. HookTypes
  <2>1. <<>> \in Seq(DOMAIN Log)
    BY EmptySeq
  <2>2. logged[run] = 0
    BY RunsAssumption DEF StreamInit
  <2>3. cursor \in 0..logged[run] /\ lastSeq \in 0..Len(Log)
    BY <2>2, LogIsSequence DEF StreamInit
  <2>4. pending \in Seq(DOMAIN Log) /\ events \in Seq(DOMAIN Log)
    BY <2>1 DEF StreamInit
  <2>5. /\ conn = "connecting" /\ status = "connecting"
        /\ resuming = FALSE /\ frame = FALSE /\ exact = TRUE
    BY DEF StreamInit
  <2> QED
    BY <2>3, <2>4, <2>5 DEF HookTypes
<1>3. FetchTypes
  BY DEF StreamInit, FetchTypes
<1>4. IsStore(store)
  BY InitialStore DEF StreamInit
<1>5. QueueLeads
  <2>1. pending = <<>> /\ store = StoreInit /\ cursor = 0
    BY DEF StreamInit
  <2>2. Len(Waiting(pending)) = 0
    BY <2>1, EmptySeq, WaitingElements
  <2>3. ApplyAll(store, Waiting(pending)) = StoreInit
    BY <2>1, <2>2, ApplyNone
  <2> QED
    BY <2>1, <2>3, ReplayStates DEF QueueLeads
<1> QED
  BY <1>1, <1>2, <1>3, <1>4, <1>5 DEF StreamInv

(* An empty queue leads to the store itself.                               *)
LEMMA NothingWaiting == \A s : ApplyAll(s, Waiting(<<>>)) = s
<1> TAKE s
<1>1. Len(Waiting(<<>>)) = 0
  BY EmptySeq, WaitingElements
<1> QED
  BY <1>1, ApplyNone

(* A new request, or none.                                                 *)
LEMMA GapKeepsFetches ==
  ASSUME StreamInv, NEW n, CheckGap(n)
  PROVE  FetchTypes'
<1>1. CASE UNCHANGED <<asked, fetches>>
  BY <1>1 DEF StreamInv, FetchTypes, Fetch
<1>2. CASE /\ asked' = asked + 1
           /\ fetches' = [k \in DOMAIN fetches \cup {asked + 1} |->
                             IF k = asked + 1 THEN [run |-> run, upto |-> 0] ELSE fetches[k]]
  <2>1. asked \in Nat /\ [run |-> run, upto |-> 0] \in Fetch
    BY LogIsSequence DEF StreamInv, FetchTypes, ServerTypes, Fetch
  <2>2. DOMAIN fetches' = {asked + 1} \cup DOMAIN fetches
    BY <1>2
  <2>3. \A k \in DOMAIN fetches' :
          fetches'[k] = IF k = asked + 1 THEN [run |-> run, upto |-> 0] ELSE fetches[k]
    BY <1>2
  <2> QED
    BY <1>2, <2>1, <2>2, <2>3 DEF StreamInv, FetchTypes, Fetch
<1> QED
  BY <1>1, <1>2 DEF CheckGap

(* A request that ends.                                                    *)
LEMMA FetchEnds ==
  ASSUME StreamInv, NEW k, fetches' = [j \in DOMAIN fetches \ {k} |-> fetches[j]], UNCHANGED asked
  PROVE  FetchTypes'
BY DEF StreamInv, FetchTypes, Fetch

(* Steps that leave the server's log, the hook and the store alone.        *)
LEMMA SameHook ==
  ASSUME StreamInv, UNCHANGED <<logged, cursor, run, hook, exact, store>>,
         FetchTypes', conn' \in {"connecting", "open", "retrying", "closed"}
  PROVE  StreamInv'
BY DEF StreamInv, ServerTypes, HookTypes, hook, QueueLeads, Waiting

LEMMA LogEventKeeps ==
  ASSUME StreamInv, NEW r \in Runs, LogEvent(r)
  PROVE  StreamInv'
<1>1. UNCHANGED <<cursor, run, hook, exact, store, conn, asked, fetches>>
  BY DEF LogEvent
<1>2. logged \in [Runs -> 0..Len(Log)] /\ run \in Runs /\ Len(Log) \in Nat /\ logged[r] < Len(Log)
  BY LogIsSequence DEF StreamInv, ServerTypes, LogEvent
<1>3. logged' = [logged EXCEPT ![r] = logged[r] + 1]
  BY DEF LogEvent
<1>4. logged' \in [Runs -> 0..Len(Log)] /\ logged[run] <= logged'[run]
  BY <1>2, <1>3
<1>5. HookTypes'
  BY <1>1, <1>2, <1>4 DEF StreamInv, HookTypes, hook
<1>6. ServerTypes' /\ FetchTypes' /\ IsStore(store)' /\ QueueLeads'
  BY <1>1, <1>2, <1>4 DEF StreamInv, ServerTypes, FetchTypes, QueueLeads, hook, Waiting
<1> QED
  BY <1>5, <1>6 DEF StreamInv

LEMMA ConnectionKeeps ==
  ASSUME StreamInv, Open \/ Drop
  PROVE  StreamInv'
<1>1. UNCHANGED <<logged, cursor, run, lastSeq, pending, frame, events, fetches, asked, store, exact>>
  BY DEF Open, Drop, server
<1>2. /\ conn' \in {"connecting", "open", "retrying", "closed"} /\ resuming' \in BOOLEAN
      /\ status' \in {"connecting", "streaming", "reconnecting", "complete", "error"}
  BY DEF Open, Drop, StreamInv, HookTypes
<1> QED
  BY <1>1, <1>2 DEF StreamInv, ServerTypes, HookTypes, FetchTypes, QueueLeads, Waiting

LEMMA FlushKeeps ==
  ASSUME StreamInv, Flush
  PROVE  StreamInv'
<1>1. /\ store' = ApplyAll(store, Waiting(pending)) /\ pending' = <<>> /\ frame' = FALSE
      /\ events' = events \o pending
      /\ UNCHANGED <<logged, conn, cursor, run, status, lastSeq, resuming, fetches, asked, exact>>
  BY DEF Flush, server, Waiting
<1>2. Len(Waiting(pending)) \in Nat
  BY WaitingElements DEF StreamInv, HookTypes
<1>3. IsStore(store')
  BY <1>1, <1>2, ApplyKeepsShape DEF StreamInv
<1>4. events' \in Seq(DOMAIN Log) /\ pending' \in Seq(DOMAIN Log)
  BY <1>1, ConcatProperties, EmptySeq DEF StreamInv, HookTypes
<1>5. HookTypes' /\ ServerTypes' /\ FetchTypes'
  BY <1>1, <1>4 DEF StreamInv, ServerTypes, HookTypes, FetchTypes
<1>6. QueueLeads'
  BY <1>1, NothingWaiting DEF StreamInv, QueueLeads
<1> QED
  BY <1>3, <1>5, <1>6 DEF StreamInv

(* What the hook keeps of an event that arrives.                           *)
LEMMA CursorMoves ==
  ASSUME StreamInv, NEW n \in (cursor + 1)..logged[run], UNCHANGED <<logged, run>>,
         cursor' = n, lastSeq' = (IF n > lastSeq THEN n ELSE lastSeq)
  PROVE  /\ n \in DOMAIN Log /\ cursor \in Nat
         /\ cursor' \in 0..logged'[run'] /\ lastSeq' \in 0..Len(Log)
<1>1. logged[run] \in 0..Len(Log) /\ cursor \in 0..logged[run] /\ lastSeq \in 0..Len(Log)
  BY DEF StreamInv, ServerTypes, HookTypes
<1>2. Len(Log) \in Nat /\ DOMAIN Log = 1..Len(Log)
  BY LogIsSequence
<1> QED
  BY <1>1, <1>2

LEMMA ReceiveKeeps ==
  ASSUME StreamInv, NEW n \in DOMAIN Log, Receive(n)
  PROVE  StreamInv'
<1>1. /\ cursor' = n /\ pending' = Append(pending, n) /\ frame' = TRUE /\ resuming' = FALSE
      /\ exact' = (exact /\ n = cursor + 1)
      /\ n \in (cursor + 1)..logged[run] /\ lastSeq' = (IF n > lastSeq THEN n ELSE lastSeq)
      /\ UNCHANGED <<logged, run, events, store>>
  BY DEF Receive
<1>2. conn' \in {conn, "closed"} /\ status' \in {status, "complete"}
  BY DEF Receive
<1>3. FetchTypes'
  BY GapKeepsFetches DEF Receive
<1>4. n \in DOMAIN Log /\ cursor \in Nat /\ cursor' \in 0..logged'[run'] /\ lastSeq' \in 0..Len(Log)
  BY <1>1, CursorMoves
<1>5. pending' \in Seq(DOMAIN Log)
  BY <1>1, AppendProperties DEF StreamInv, HookTypes
<1>6. HookTypes' /\ ServerTypes' /\ IsStore(store)'
  BY <1>1, <1>2, <1>4, <1>5 DEF StreamInv, HookTypes, ServerTypes
<1>7. ASSUME exact' PROVE ApplyAll(store', Waiting(pending')) = Replay[cursor']
  <2>0. exact /\ n = cursor + 1
    BY <1>1, <1>7
  <2>1. exact /\ n - 1 = cursor
    BY <1>4, <2>0
  <2> DEFINE w == Waiting(pending)
  <2>2. Waiting(pending') = Append(w, Log[n]) /\ w \in Seq(Events) /\ Log[n] \in Events
    BY <1>1, WaitingOneMore, WaitingElements, LogIsSequence DEF StreamInv, HookTypes
  <2>3. ApplyAll(store, w) = Replay[n - 1]
    BY <2>1 DEF StreamInv, QueueLeads
  <2> HIDE DEF w
  <2>4. ApplyAll(store, Append(w, Log[n])) = applyEvent(ApplyAll(store, w), Log[n])
    BY <2>2, ApplyOne
  <2>5. Replay[n] = applyEvent(Replay[n - 1], Log[n])
    BY ReplayStates
  <2> QED
    BY <1>1, <2>2, <2>3, <2>4, <2>5
<1>8. QueueLeads'
  BY <1>7 DEF QueueLeads
<1> QED
  BY <1>3, <1>6, <1>8 DEF StreamInv

LEMMA UnreadableKeeps ==
  ASSUME StreamInv, NEW n \in DOMAIN Log, ReceiveUnreadable(n)
  PROVE  StreamInv'
<1>1. /\ cursor' = n /\ resuming' = FALSE /\ exact' = FALSE
      /\ n \in (cursor + 1)..logged[run] /\ lastSeq' = (IF n > lastSeq THEN n ELSE lastSeq)
      /\ UNCHANGED <<logged, run, conn, status, pending, frame, events, store>>
  BY DEF ReceiveUnreadable
<1>2. FetchTypes'
  BY GapKeepsFetches DEF ReceiveUnreadable
<1>3. cursor' \in 0..logged'[run'] /\ lastSeq' \in 0..Len(Log)
  BY <1>1, CursorMoves
<1>4. HookTypes' /\ ServerTypes' /\ IsStore(store)' /\ QueueLeads'
  BY <1>1, <1>3 DEF StreamInv, HookTypes, ServerTypes, QueueLeads
<1> QED
  BY <1>2, <1>4 DEF StreamInv

LEMMA FetchKeeps ==
  ASSUME StreamInv, NEW k \in DOMAIN fetches, AnswerFetch(k) \/ FetchFails(k)
  PROVE  StreamInv'
<1>1. UNCHANGED <<logged, cursor, run, hook, exact, store, conn, asked>>
  BY DEF AnswerFetch, FetchFails, server
<1>2. conn' \in {"connecting", "open", "retrying", "closed"}
  BY <1>1 DEF StreamInv, HookTypes
<1>3. FetchTypes'
  <2>1. CASE FetchFails(k)
    BY <1>1, <2>1, FetchEnds DEF FetchFails
  <2>2. CASE AnswerFetch(k)
    <3>1. fetches[k] \in Fetch /\ logged[fetches[k].run] \in 0..Len(Log)
      BY DEF StreamInv, FetchTypes, Fetch, ServerTypes
    <3> DEFINE g == [fetches[k] EXCEPT !.upto = logged[fetches[k].run]]
    <3>2. g \in Fetch
      BY <3>1 DEF Fetch
    <3>3. fetches' = [fetches EXCEPT ![k] = g]
      BY <2>2 DEF AnswerFetch
    <3> HIDE DEF g
    <3>4. DOMAIN fetches' = DOMAIN fetches /\ \A j \in DOMAIN fetches : fetches'[j] \in {fetches[j], g}
      BY <3>3
    <3> QED
      BY <1>1, <3>2, <3>4 DEF StreamInv, FetchTypes, Fetch
  <2> QED
    BY <2>1, <2>2
<1> QED
  BY <1>1, <1>2, <1>3, SameHook

LEMMA RehydrateKeeps ==
  ASSUME StreamInv, NEW k \in DOMAIN fetches, Rehydrate(k)
  PROVE  StreamInv'
<1> DEFINE n == fetches[k].upto
<1>1. /\ lastSeq' = n /\ store' = Replay[n]
      /\ exact' = (fetches[k].run = run /\ n = cursor /\ pending = <<>>)
      /\ fetches' = [j \in DOMAIN fetches \ {k} |-> fetches[j]]
      /\ UNCHANGED <<logged, conn, cursor, run, status, resuming, pending, frame, events, asked>>
  BY DEF Rehydrate, server
<1>2. n \in 0..Len(Log)
  BY DEF StreamInv, FetchTypes, Fetch
<1> HIDE DEF n
<1>3. IsStore(store')
  BY <1>1, <1>2, ReplayStates
<1>4. FetchTypes'
  BY <1>1, FetchEnds
<1>5. HookTypes' /\ ServerTypes'
  BY <1>1, <1>2 DEF StreamInv, HookTypes, ServerTypes
<1>6. QueueLeads'
  BY <1>1, NothingWaiting DEF QueueLeads
<1> QED
  BY <1>3, <1>4, <1>5, <1>6 DEF StreamInv

LEMMA ShowRunKeeps ==
  ASSUME StreamInv, NEW r \in Runs, ShowRun(r)
  PROVE  StreamInv'
<1>1. /\ run' = r /\ conn' = "connecting" /\ cursor' = 0
      /\ status' = "connecting" /\ lastSeq' = 0 /\ resuming' = FALSE
      /\ pending' = <<>> /\ frame' = FALSE /\ events' = <<>>
      /\ exact' = (exact /\ store = StoreInit)
      /\ UNCHANGED <<logged, fetches, asked, store>>
  BY DEF ShowRun, server
<1>2. logged[r] \in 0..Len(Log) /\ <<>> \in Seq(DOMAIN Log)
  BY EmptySeq DEF StreamInv, ServerTypes
<1>3. HookTypes'
  <2>1. cursor' \in 0..logged'[run'] /\ lastSeq' \in 0..Len(Log)
    BY <1>1, <1>2, LogIsSequence
  <2>2. exact' \in BOOLEAN
    BY <1>1
  <2> QED
    BY <1>1, <1>2, <2>1, <2>2 DEF HookTypes
<1>4. ServerTypes' /\ FetchTypes' /\ IsStore(store)'
  BY <1>1 DEF StreamInv, ServerTypes, FetchTypes
<1>5. QueueLeads'
  BY <1>1, NothingWaiting, ReplayStates DEF QueueLeads
<1> QED
  BY <1>3, <1>4, <1>5 DEF StreamInv

LEMMA StreamInvNext == StreamInv /\ [StreamNext]_streamVars => StreamInv'
<1> SUFFICES ASSUME StreamInv, [StreamNext]_streamVars PROVE StreamInv'
  OBVIOUS
<1>1. CASE StreamNext
  BY <1>1, LogEventKeeps, ShowRunKeeps, ConnectionKeeps, FlushKeeps, ReceiveKeeps, UnreadableKeeps,
     FetchKeeps, RehydrateKeeps DEF StreamNext
<1>2. CASE UNCHANGED streamVars
  BY <1>2 DEF streamVars, server, hook, StreamInv, ServerTypes, HookTypes, FetchTypes, QueueLeads
<1> QED
  BY <1>1, <1>2

-----------------------------------------------------------------------------
(* Theorems.                                                               *)

LEMMA StreamInvHolds == StreamInv => StreamTypeOK /\ StoreIsReplay
<1> SUFFICES ASSUME StreamInv PROVE StreamTypeOK /\ StoreIsReplay
  OBVIOUS
<1>1. ActiveAt(store) \subseteq DOMAIN store.steps /\ Cardinality(ActiveAt(store)) <= 1
  BY StoreHasOneActive DEF StreamInv
<1>2. \A q \in {pending, events} : \A i \in DOMAIN q : q[i] \in DOMAIN Log
  <2>1. ASSUME NEW q \in Seq(DOMAIN Log) PROVE \A i \in DOMAIN q : q[i] \in DOMAIN Log
    BY ElementOfSeq, LenProperties
  <2> QED
    BY <2>1 DEF StreamInv, HookTypes
<1>3. \A k \in DOMAIN fetches : k \in 1..asked /\ fetches[k].upto \in 0..Len(Log)
  BY DEF StreamInv, FetchTypes, Fetch
<1>4. StreamTypeOK
  BY <1>1, <1>2, <1>3 DEF StreamInv, ServerTypes, HookTypes, StreamTypeOK
<1>5. StoreIsReplay
  BY <1>1 DEF StreamInv, QueueLeads, Waiting, StoreIsReplay
<1> QED
  BY <1>4, <1>5

(* The hook keeps its state within its types.                              *)
THEOREM TypesKept == StreamSpec => []StreamTypeOK
  BY StreamInvInit, StreamInvNext, StreamInvHolds, PTL DEF StreamSpec

(* For any log, and however events are missed, doubled or followed by a    *)
(* rehydration: applyEvent over the waiting events leads from the store to *)
(* the state of the run at the last event received, unless something that  *)
(* was lost or brought late says otherwise; and no more than one step is   *)
(* ever active.                                                            *)
THEOREM StoreReplaysLog == StreamSpec => []StoreIsReplay
  BY StreamInvInit, StreamInvNext, StreamInvHolds, PTL DEF StreamSpec
=============================================================================
