-------------------------- MODULE Ingestion_proofs --------------------------
(***************************************************************************)
(* Theorems about ingestion, for any number of requests, files and         *)
(* restarts: who cleans an entry up, and that shared counts are exact.     *)
(***************************************************************************)
EXTENDS Ingestion, FiniteSetTheorems, TLAPS

-----------------------------------------------------------------------------

Unstarted == {"idle", "query", "store", "scheduled", "list"}

(* A task attempts each file it listed once.                               *)
AttemptInv ==
  /\ IsFiniteSet(attempts)
  /\ \A t \in attempts :
       /\ pc[t[1]] \notin Unstarted
       /\ pc[t[1]] \in Processing => t[2] \notin listed[t[1]]
       /\ pc[t[1]] = "file" => t[2] # current[t[1]]
  /\ \A r \in Requests : pc[r] = "file" => current[r] \in Files \ listed[r]

IngestionInv == TypeOK /\ EntryIsOwned /\ AttemptInv /\ CountsAreAttempts

LEMMA ListedFinite ==
  ASSUME TypeOK, NEW r \in Requests
  PROVE  Cardinality(listed[r]) \in Nat
<1>1. listed[r] \in SUBSET Files
  BY DEF TypeOK
<1> QED
  BY <1>1, IngestionAssumption, FS_Subset, FS_CardinalityType

LEMMA IngestionInvInit == Init => IngestionInv
<1> SUFFICES ASSUME Init PROVE IngestionInv
  OBVIOUS
<1>1. TypeOK
  BY DEF Init, TypeOK, Processing
<1>2. EntryIsOwned
  BY DEF Init, EntryIsOwned
<1>3. AttemptInv
  BY FS_EmptySet DEF Init, AttemptInv
<1>4. \A p, a : Counted(p, a) = {}
  BY DEF Init, Counted
<1>5. CountsAreAttempts
  BY <1>4, FS_EmptySet DEF Init, CountsAreAttempts
<1> QED
  BY <1>1, <1>2, <1>3, <1>5 DEF IngestionInv

-----------------------------------------------------------------------------
(* Types.                                                                  *)

LEMMA TypeStep == TypeOK /\ Next => TypeOK'
<1> SUFFICES ASSUME TypeOK, Next PROVE TypeOK'
  OBVIOUS
<1> USE DEF TypeOK, Goto, dbVars, taskVars, Processing, Scheduled, Ended
<1>1. ASSUME NEW r \in Requests, Trigger(r) PROVE TypeOK'
  BY <1>1 DEF Trigger
<1>2. ASSUME NEW r \in Requests, Query(r) PROVE TypeOK'
  BY <1>2 DEF Query
<1>3. ASSUME NEW r \in Requests, Store(r) PROVE TypeOK'
  <2>1. Cardinality(listed[r]) \in Nat
    BY ListedFinite
  <2>2. progress' \in [Requests -> [total : Nat, analyzed : Nat, failed : Nat]]
        /\ entry' \in Requests \cup {None}
    <3>1. CASE listed[r] = {}
      BY <1>3, <3>1 DEF Store
    <3>2. CASE listed[r] # {}
      BY <1>3, <2>1, <3>2 DEF Store
    <3> QED
      BY <3>1, <3>2
  <2>3. pc' = [pc EXCEPT ![r] = "done"] \/ pc' = [pc EXCEPT ![r] = "scheduled"]
    BY <1>3 DEF Store
  <2> QED
    BY <1>3, <2>2, <2>3 DEF Store
<1>4. ASSUME NEW r \in Requests, RequestFails(r) PROVE TypeOK'
  BY <1>4 DEF RequestFails
<1>5. ASSUME NEW r \in Requests, Start(r) PROVE TypeOK'
  <2>1. CASE entry = None
    BY <1>5, <2>1 DEF Start
  <2>2. CASE entry # None
    BY <1>5, <2>2 DEF Start
  <2> QED
    BY <2>1, <2>2
<1>6. ASSUME NEW r \in Requests, List(r) \/ ListFails(r) PROVE TypeOK'
  BY <1>6 DEF List, ListFails
<1>7. ASSUME NEW r \in Requests, TakeFile(r) PROVE TypeOK'
  <2>1. PICK f \in listed[r] : current' = [current EXCEPT ![r] = f]
                               /\ listed' = [listed EXCEPT ![r] = @ \ {f}]
    BY <1>7 DEF TakeFile
  <2>2. listed' \in [Requests -> SUBSET Files] /\ current' \in [Requests -> Files \cup {None}]
    BY <2>1
  <2> QED
    BY <1>7, <2>2 DEF TakeFile
<1>8. ASSUME NEW r \in Requests, Describe(r) PROVE TypeOK'
  <2>1. record[r] \in Requests /\ current[r] \in Files
    BY <1>8 DEF Describe
  <2>2. progress' \in [Requests -> [total : Nat, analyzed : Nat, failed : Nat]]
    BY <1>8, <2>1 DEF Describe
  <2>3. attempts' \subseteq Requests \X Files \X BOOLEAN
    <3>1. <<r, current[r], TRUE>> \in Requests \X Files \X BOOLEAN
      BY <2>1
    <3> QED
      BY <1>8, <3>1 DEF Describe, Attempt
  <2> QED
    BY <1>8, <2>2, <2>3 DEF Describe
<1>9. ASSUME NEW r \in Requests, Fail(r) PROVE TypeOK'
  <2>1. record[r] \in Requests /\ current[r] \in Files
    BY <1>9 DEF Fail
  <2>2. progress' \in [Requests -> [total : Nat, analyzed : Nat, failed : Nat]]
    BY <1>9, <2>1 DEF Fail
  <2>3. attempts' \subseteq Requests \X Files \X BOOLEAN
    <3>1. <<r, current[r], FALSE>> \in Requests \X Files \X BOOLEAN
      BY <2>1
    <3> QED
      BY <1>9, <3>1 DEF Fail, Attempt
  <2> QED
    BY <1>9, <2>2, <2>3 DEF Fail
<1>10. ASSUME NEW r \in Requests, Finish(r) \/ Pop(r) PROVE TypeOK'
  BY <1>10 DEF Finish, Pop
<1>11. ASSUME NEW f \in Files, Upload(f) \/ Delete(f) \/ Reanalyze(f) PROVE TypeOK'
  BY <1>11 DEF Upload, Delete, Reanalyze
<1>12. CASE Restart
  BY <1>12 DEF Restart
<1> QED
  BY <1>1, <1>2, <1>3, <1>4, <1>5, <1>6, <1>7, <1>8, <1>9, <1>10, <1>11, <1>12
  DEF Next, Task

-----------------------------------------------------------------------------
(* The entry's owner.                                                      *)

LEMMA OwnerStep == TypeOK /\ EntryIsOwned /\ Next => EntryIsOwned'
<1> SUFFICES ASSUME TypeOK, EntryIsOwned, Next PROVE EntryIsOwned'
  OBVIOUS
<1> USE DEF EntryIsOwned, Goto, Scheduled, Processing, TypeOK
<1>1. ASSUME NEW r \in Requests, Trigger(r) PROVE EntryIsOwned'
  BY <1>1 DEF Trigger
<1>2. ASSUME NEW r \in Requests, Query(r) \/ RequestFails(r) PROVE EntryIsOwned'
  BY <1>2 DEF Query, RequestFails
<1>3. ASSUME NEW r \in Requests, Store(r) PROVE EntryIsOwned'
  BY <1>3 DEF Store
<1>4. ASSUME NEW r \in Requests, Start(r) PROVE EntryIsOwned'
  <2>1. CASE entry = None
    BY <1>4, <2>1 DEF Start, dbVars
  <2>2. CASE entry # None
    BY <1>4, <2>2 DEF Start, dbVars
  <2> QED
    BY <2>1, <2>2
<1>5. ASSUME NEW r \in Requests, List(r) \/ ListFails(r) \/ TakeFile(r) \/ Finish(r)
      PROVE EntryIsOwned'
  BY <1>5 DEF List, ListFails, TakeFile, Finish
<1>6. ASSUME NEW r \in Requests, Describe(r) \/ Fail(r) PROVE EntryIsOwned'
  <2>1. pc' = [pc EXCEPT ![r] = "files"] /\ entry' = entry
    BY <1>6 DEF Describe, Fail
  <2> QED
    BY <2>1
<1>7. ASSUME NEW r \in Requests, Pop(r) PROVE EntryIsOwned'
  BY <1>7 DEF Pop
<1>8. ASSUME NEW f \in Files, Upload(f) \/ Delete(f) \/ Reanalyze(f) PROVE EntryIsOwned'
  BY <1>8 DEF Upload, Delete, Reanalyze
<1>9. CASE Restart
  BY <1>9 DEF Restart
<1> QED
  BY <1>1, <1>2, <1>3, <1>4, <1>5, <1>6, <1>7, <1>8, <1>9 DEF Next, Task

-----------------------------------------------------------------------------
(* Attempts and counts.                                                    *)

LEMMA AttemptTypes ==
  ASSUME TypeOK, NEW t \in attempts
  PROVE  t[1] \in Requests /\ t[2] \in Files /\ t[3] \in BOOLEAN
BY DEF TypeOK

(* Steps that attempt nothing and leave the counted records as they are.   *)
LEMMA CountsUntouched ==
  ASSUME CountsAreAttempts, attempts' = attempts,
         \A t \in attempts : record'[t[1]] = record[t[1]],
         \A p \in Requests : /\ progress'[p].analyzed = progress[p].analyzed
                             /\ progress'[p].failed = progress[p].failed
  PROVE  CountsAreAttempts'
<1>1. \A p, a : Counted(p, a)' = Counted(p, a)
  BY DEF Counted
<1> QED
  BY <1>1 DEF CountsAreAttempts

(* An attempt: the record's count and the set it counts grow by one.       *)
LEMMA AttemptStep ==
  ASSUME IngestionInv, NEW r \in Requests, Describe(r) \/ Fail(r)
  PROVE  AttemptInv' /\ CountsAreAttempts'
<1>1. /\ pc[r] = "file" /\ pc' = [pc EXCEPT ![r] = "files"]
      /\ UNCHANGED <<listed, current, record>>
  BY DEF Describe, Fail, Goto, taskVars
<1>2. PICK a \in BOOLEAN :
        /\ attempts' = attempts \cup {<<r, current[r], a>>}
        /\ IF a THEN progress' = [progress EXCEPT ![record[r]].analyzed = @ + 1]
                ELSE progress' = [progress EXCEPT ![record[r]].failed = @ + 1]
  BY DEF Describe, Fail, Attempt
<1>3. record[r] \in Requests /\ current[r] \in Files \ listed[r]
  BY <1>1 DEF IngestionInv, TypeOK, AttemptInv, Processing
<1>4. \A t \in attempts : ~(t[1] = r /\ t[2] = current[r])
  BY <1>1 DEF IngestionInv, AttemptInv
<1>5. PICK x \in Requests \X Files \X BOOLEAN : x = <<r, current[r], a>>
  BY <1>3
<1>6. /\ x[1] = r /\ x[2] = current[r] /\ x[3] = a /\ x \notin attempts
      /\ attempts' = attempts \cup {x}
  BY <1>2, <1>4, <1>5
<1>7. AttemptInv'
  <2>1. IsFiniteSet(attempts')
    BY <1>6, FS_AddElement DEF IngestionInv, AttemptInv
  <2>2. \A t \in attempts : t[1] \in Requests
    BY AttemptTypes DEF IngestionInv
  <2>3. \A t \in attempts' : /\ pc'[t[1]] \notin Unstarted
                             /\ pc'[t[1]] \in Processing => t[2] \notin listed'[t[1]]
                             /\ pc'[t[1]] = "file" => t[2] # current'[t[1]]
    <3>1. ASSUME NEW t \in attempts'
          PROVE  /\ pc'[t[1]] \notin Unstarted
                 /\ pc'[t[1]] \in Processing => t[2] \notin listed'[t[1]]
                 /\ pc'[t[1]] = "file" => t[2] # current'[t[1]]
      <4>1. CASE t[1] = r
        <5>1. pc'[t[1]] = "files" /\ listed' = listed
          BY <1>1, <4>1 DEF IngestionInv, TypeOK
        <5>2. CASE t \in attempts
          BY <1>1, <4>1, <5>1, <5>2 DEF IngestionInv, AttemptInv, Unstarted, Processing
        <5>3. CASE t = x
          BY <1>3, <1>6, <5>1, <5>3 DEF Unstarted
        <5> QED
          BY <1>6, <5>2, <5>3
      <4>2. CASE t[1] # r
        <5>1. t \in attempts
          BY <1>6, <4>2
        <5>2. pc'[t[1]] = pc[t[1]]
          BY <1>1, <2>2, <4>2, <5>1 DEF IngestionInv, TypeOK
        <5> QED
          BY <1>1, <5>1, <5>2 DEF IngestionInv, AttemptInv
      <4> QED
        BY <4>1, <4>2
    <3> QED
      BY <3>1
  <2>4. \A q \in Requests : pc'[q] = "file" => current'[q] \in Files \ listed'[q]
    BY <1>1 DEF IngestionInv, TypeOK, AttemptInv
  <2> QED
    BY <2>1, <2>3, <2>4 DEF AttemptInv
<1>8. ASSUME NEW p \in Requests, NEW b \in BOOLEAN
      PROVE  Cardinality(Counted(p, b)') =
               IF p = record[r] /\ b = a THEN Cardinality(Counted(p, b)) + 1
                                         ELSE Cardinality(Counted(p, b))
  <2>1. Counted(p, b) \in SUBSET attempts /\ IsFiniteSet(attempts)
    BY DEF Counted, IngestionInv, AttemptInv
  <2>2. IsFiniteSet(Counted(p, b)) /\ x \notin Counted(p, b)
    BY <1>6, <2>1, FS_Subset
  <2>3. CASE p = record[r] /\ b = a
    <3>1. Counted(p, b)' = Counted(p, b) \cup {x}
      BY <1>1, <1>6, <2>3 DEF Counted
    <3> QED
      BY <2>2, <2>3, <3>1, FS_AddElement
  <2>4. CASE ~(p = record[r] /\ b = a)
    <3>1. Counted(p, b)' = Counted(p, b)
      BY <1>1, <1>6, <2>4 DEF Counted
    <3> QED
      BY <2>4, <3>1
  <2> QED
    BY <2>3, <2>4
<1>9. ASSUME NEW p \in Requests
      PROVE  /\ progress'[p].analyzed = IF p = record[r] /\ a = TRUE
                                          THEN progress[p].analyzed + 1 ELSE progress[p].analyzed
             /\ progress'[p].failed = IF p = record[r] /\ a = FALSE
                                        THEN progress[p].failed + 1 ELSE progress[p].failed
  <2>1. CASE a = TRUE
    BY <1>2, <1>3, <2>1 DEF IngestionInv, TypeOK
  <2>2. CASE a = FALSE
    BY <1>2, <1>3, <2>2 DEF IngestionInv, TypeOK
  <2> QED
    BY <1>2, <2>1, <2>2
<1>10. ASSUME NEW p \in Requests
       PROVE  /\ progress'[p].analyzed = Cardinality(Counted(p, TRUE)')
              /\ progress'[p].failed = Cardinality(Counted(p, FALSE)')
  <2>1. progress[p].analyzed = Cardinality(Counted(p, TRUE))
        /\ progress[p].failed = Cardinality(Counted(p, FALSE))
    BY DEF IngestionInv, CountsAreAttempts
  <2>2. Cardinality(Counted(p, TRUE)') = IF p = record[r] /\ TRUE = a
                                           THEN Cardinality(Counted(p, TRUE)) + 1
                                           ELSE Cardinality(Counted(p, TRUE))
    BY <1>8
  <2>3. Cardinality(Counted(p, FALSE)') = IF p = record[r] /\ FALSE = a
                                            THEN Cardinality(Counted(p, FALSE)) + 1
                                            ELSE Cardinality(Counted(p, FALSE))
    BY <1>8
  <2>4. progress'[p].analyzed = Cardinality(Counted(p, TRUE)')
    <3>1. progress'[p].analyzed = IF p = record[r] /\ a = TRUE
                                    THEN progress[p].analyzed + 1 ELSE progress[p].analyzed
      BY <1>9
    <3>2. CASE p = record[r] /\ a = TRUE
      BY <2>1, <2>2, <3>1, <3>2
    <3>3. CASE ~(p = record[r] /\ a = TRUE)
      BY <2>1, <2>2, <3>1, <3>3
    <3> QED
      BY <3>2, <3>3
  <2>5. progress'[p].failed = Cardinality(Counted(p, FALSE)')
    <3>1. progress'[p].failed = IF p = record[r] /\ a = FALSE
                                  THEN progress[p].failed + 1 ELSE progress[p].failed
      BY <1>9
    <3>2. CASE p = record[r] /\ a = FALSE
      BY <2>1, <2>3, <3>1, <3>2
    <3>3. CASE ~(p = record[r] /\ a = FALSE)
      BY <2>1, <2>3, <3>1, <3>3
    <3> QED
      BY <3>2, <3>3
  <2> QED
    BY <2>4, <2>5
<1>11. CountsAreAttempts'
  BY <1>10 DEF CountsAreAttempts
<1> QED
  BY <1>7, <1>11

LEMMA AttemptsStep == IngestionInv /\ Next => AttemptInv' /\ CountsAreAttempts'
<1> SUFFICES ASSUME IngestionInv, Next PROVE AttemptInv' /\ CountsAreAttempts'
  OBVIOUS
<1>0. /\ TypeOK /\ AttemptInv /\ CountsAreAttempts
      /\ \A t \in attempts : t[1] \in Requests
  BY AttemptTypes DEF IngestionInv
<1> USE DEF AttemptInv, Goto, Unstarted, Processing
(* Steps that keep the records and the counts.                             *)
<1>1. ASSUME NEW r \in Requests, Trigger(r) \/ Query(r) \/ RequestFails(r) \/ List(r)
                                 \/ ListFails(r) \/ Finish(r) \/ Pop(r)
      PROVE  AttemptInv' /\ CountsAreAttempts'
  <2>1. UNCHANGED <<attempts, record, progress, current>>
    BY <1>1 DEF Trigger, Query, RequestFails, List, ListFails, Finish, Pop, taskVars
  <2>2. CountsAreAttempts'
    BY <1>0, <2>1, CountsUntouched
  <2>3. CASE pc[r] \in Unstarted
    <3>1. PICK q : pc' = [pc EXCEPT ![r] = q] /\ q # "file"
      BY <1>1, <2>3 DEF Trigger, Query, RequestFails, List, ListFails, Finish, Pop
    <3>2. \A p \in Requests : p # r => listed'[p] = listed[p]
      BY <1>0, <1>1 DEF Trigger, Query, RequestFails, List, ListFails, Finish, Pop, taskVars, TypeOK
    <3>3. \A t \in attempts : t[1] # r
      BY <1>0, <2>3
    <3>4. AttemptInv'
      BY <1>0, <2>1, <3>1, <3>2, <3>3 DEF TypeOK
    <3> QED
      BY <2>2, <3>4
  <2>4. CASE pc[r] \in {"files", "grace"}
    <3>1. PICK q \in {"grace", "done"} : pc' = [pc EXCEPT ![r] = q]
      BY <1>1, <2>4 DEF Trigger, Query, RequestFails, List, ListFails, Finish, Pop
    <3>2. listed' = listed
      BY <1>1, <2>4 DEF Trigger, Query, RequestFails, List, ListFails, Finish, Pop, taskVars
    <3>3. AttemptInv'
      BY <1>0, <2>1, <3>1, <3>2 DEF TypeOK
    <3> QED
      BY <2>2, <3>3
  <2>5. pc[r] \in Unstarted \cup {"files", "grace"}
    BY <1>1 DEF Trigger, Query, RequestFails, List, ListFails, Finish, Pop
  <2> QED
    BY <2>3, <2>4, <2>5
<1>2. ASSUME NEW r \in Requests, Store(r) PROVE AttemptInv' /\ CountsAreAttempts'
  <2>1. UNCHANGED <<attempts, record, listed, current>>
    BY <1>2 DEF Store, taskVars
  <2>2. \A p \in Requests : /\ progress'[p].analyzed = progress[p].analyzed
                            /\ progress'[p].failed = progress[p].failed
    <3>1. CASE listed[r] = {}
      BY <1>2, <3>1 DEF Store
    <3>2. CASE listed[r] # {}
      BY <1>0, <1>2, <3>2 DEF Store, TypeOK
    <3> QED
      BY <3>1, <3>2
  <2>3. CountsAreAttempts'
    BY <1>0, <2>1, <2>2, CountsUntouched
  <2>4. pc[r] = "store" /\ (pc' = [pc EXCEPT ![r] = "done"] \/ pc' = [pc EXCEPT ![r] = "scheduled"])
    BY <1>2 DEF Store
  <2>5. AttemptInv'
    BY <1>0, <2>1, <2>4 DEF TypeOK
  <2> QED
    BY <2>3, <2>5
<1>3. ASSUME NEW r \in Requests, Start(r) PROVE AttemptInv' /\ CountsAreAttempts'
  <2>1. UNCHANGED <<attempts, progress, listed, current>>
        /\ record' = [record EXCEPT ![r] = entry]
    BY <1>3 DEF Start
  <2>2. pc[r] = "scheduled"
        /\ (pc' = [pc EXCEPT ![r] = "done"] \/ pc' = [pc EXCEPT ![r] = "list"])
    BY <1>3 DEF Start
  <2>3. \A t \in attempts : t[1] # r
    BY <1>0, <2>2
  <2>4. CountsAreAttempts'
    BY <1>0, <2>1, <2>3, CountsUntouched DEF TypeOK
  <2>5. AttemptInv'
    BY <1>0, <2>1, <2>2, <2>3 DEF TypeOK
  <2> QED
    BY <2>4, <2>5
<1>4. ASSUME NEW r \in Requests, TakeFile(r) PROVE AttemptInv' /\ CountsAreAttempts'
  <2>1. UNCHANGED <<attempts, progress, record>>
    BY <1>4 DEF TakeFile
  <2>2. CountsAreAttempts'
    BY <1>0, <2>1, CountsUntouched
  <2>3. PICK f \in listed[r] : /\ current' = [current EXCEPT ![r] = f]
                               /\ listed' = [listed EXCEPT ![r] = @ \ {f}]
    BY <1>4 DEF TakeFile
  <2>4. pc[r] = "files" /\ pc' = [pc EXCEPT ![r] = "file"] /\ f \in Files
    BY <1>0, <1>4, <2>3 DEF TakeFile, TypeOK
  <2>5. \A t \in attempts : t[1] = r => t[2] # f
    BY <1>0, <2>3, <2>4
  <2>6. AttemptInv'
    BY <1>0, <2>1, <2>3, <2>4, <2>5 DEF TypeOK
  <2> QED
    BY <2>2, <2>6
<1>5. ASSUME NEW f \in Files, Upload(f) \/ Delete(f) \/ Reanalyze(f)
      PROVE  AttemptInv' /\ CountsAreAttempts'
  <2>1. UNCHANGED <<attempts, progress, record, listed, current, pc>>
    BY <1>5 DEF Upload, Delete, Reanalyze, taskVars
  <2>2. CountsAreAttempts'
    BY <1>0, <2>1, CountsUntouched
  <2> QED
    BY <1>0, <2>1, <2>2
<1>6. CASE Restart
  <2>1. UNCHANGED <<attempts, progress, record, listed, current>>
        /\ pc' = [r \in Requests |-> IF pc[r] = "idle" THEN "idle" ELSE "done"]
    BY <1>6 DEF Restart, taskVars
  <2>2. CountsAreAttempts'
    BY <1>0, <2>1, CountsUntouched
  <2>3. AttemptInv'
    BY <1>0, <2>1
  <2> QED
    BY <2>2, <2>3
<1> QED
  BY <1>1, <1>2, <1>3, <1>4, <1>5, <1>6, AttemptStep DEF Next, Task

-----------------------------------------------------------------------------

LEMMA IngestionInvStep == IngestionInv /\ [Next]_vars => IngestionInv'
<1> SUFFICES ASSUME IngestionInv, [Next]_vars PROVE IngestionInv'
  OBVIOUS
<1>1. CASE Next
  BY <1>1, TypeStep, OwnerStep, AttemptsStep DEF IngestionInv
<1>2. CASE UNCHANGED vars
  <2>1. UNCHANGED <<files, deleted, described, listed, current, record, pc, entry, progress,
                    attempts>>
    BY <1>2 DEF vars, dbVars, taskVars
  <2>2. TypeOK'
    BY <2>1 DEF IngestionInv, TypeOK
  <2>3. EntryIsOwned'
    BY <2>1 DEF IngestionInv, EntryIsOwned
  <2>4. AttemptInv'
    BY <2>1 DEF IngestionInv, AttemptInv
  <2>5. CountsAreAttempts'
    BY <2>1, CountsUntouched DEF IngestionInv
  <2> QED
    BY <2>2, <2>3, <2>4, <2>5 DEF IngestionInv
<1> QED
  BY <1>1, <1>2

THEOREM IngestionInvHolds == SafeSpec => []IngestionInv
BY IngestionInvInit, IngestionInvStep, PTL DEF SafeSpec

(* However requests, tasks, uploads, deletions and restarts interleave, an *)
(* entry in the table has a task that will remove it, unless that task's   *)
(* own query raised.                                                       *)
THEOREM EntryIsOwnedHolds == SafeSpec => []EntryIsOwned
<1>1. IngestionInv => EntryIsOwned
  BY DEF IngestionInv
<1> QED
  BY IngestionInvHolds, <1>1, PTL

(* The counts of a record are exactly the attempts of all the tasks that   *)
(* took it up, however many share it.                                      *)
THEOREM CountsAreAttemptsHolds == SafeSpec => []CountsAreAttempts
<1>1. IngestionInv => CountsAreAttempts
  BY DEF IngestionInv
<1> QED
  BY IngestionInvHolds, <1>1, PTL

(* Every variable keeps its type, and a task that is past its query always *)
(* has a record to work on.                                                *)
THEOREM IngestionTypesHold == SafeSpec => []TypeOK
<1>1. IngestionInv => TypeOK
  BY DEF IngestionInv
<1> QED
  BY IngestionInvHolds, <1>1, PTL

-----------------------------------------------------------------------------
(* A task's steps run out: two for every file its query may still find or  *)
(* has found, and those before and after.                                  *)

StagesAhead ==
  [idle |-> 8, query |-> 7, store |-> 6, scheduled |-> 5, list |-> 4, file |-> 3, files |-> 2,
   grace |-> 1, done |-> 0, lost |-> 0]

FilesAhead(r) ==
  IF pc[r] \in Unstarted THEN Cardinality(Files)
  ELSE IF pc[r] \in Processing THEN Cardinality(listed[r]) ELSE 0

StepsLeft(r) == 2 * FilesAhead(r) + StagesAhead[pc[r]]

StepsBounded(r) == StepsLeft(r) \in 0..(2 * Cardinality(Files) + 8)

StepsFall(r) == StepsLeft(r)' <= StepsLeft(r) /\ (Task(r) => StepsLeft(r)' < StepsLeft(r))

LEMMA FilesAheadTypes ==
  ASSUME TypeOK, NEW r \in Requests
  PROVE  /\ Cardinality(Files) \in Nat /\ FilesAhead(r) \in 0..Cardinality(Files)
         /\ StagesAhead[pc[r]] \in 0..8
<1>1. Cardinality(Files) \in Nat
  BY IngestionAssumption, FS_CardinalityType
<1>2. listed[r] \in SUBSET Files
  BY DEF TypeOK
<1>3. Cardinality(listed[r]) \in 0..Cardinality(Files)
  BY <1>1, <1>2, IngestionAssumption, ListedFinite, FS_Subset
<1>4. pc[r] \in {"idle", "query", "store"} \cup Scheduled \cup Ended
  BY DEF TypeOK
<1> QED
  BY <1>1, <1>3, <1>4 DEF FilesAhead, StagesAhead, Scheduled, Processing, Ended

LEMMA StepsTyped ==
  ASSUME TypeOK, NEW r \in Requests
  PROVE  StepsBounded(r)
BY FilesAheadTypes DEF StepsBounded, StepsLeft

(* A request's own step, by where it was and where it is now.              *)
LEMMA OwnSteps ==
  ASSUME TypeOK, NEW r \in Requests, Task(r)
  PROVE  \/ /\ pc[r] \in Unstarted /\ pc'[r] \in Unstarted \cup Ended
            /\ StagesAhead[pc'[r]] < StagesAhead[pc[r]]
         \/ pc[r] = "list" /\ pc'[r] = "files"
         \/ pc[r] = "files" /\ pc'[r] = "file" /\ \E f \in listed[r] : listed'[r] = listed[r] \ {f}
         \/ pc[r] = "file" /\ pc'[r] = "files" /\ listed'[r] = listed[r]
         \/ pc[r] = "files" /\ pc'[r] = "grace"
         \/ pc[r] = "grace" /\ pc'[r] = "done"
<1> USE DEF TypeOK, Goto, taskVars, StagesAhead, Unstarted, Ended
<1>1. CASE Query(r) \/ Store(r) \/ RequestFails(r) \/ Start(r) \/ ListFails(r)
  BY <1>1 DEF Query, Store, RequestFails, Start, ListFails
<1>2. CASE List(r)
  BY <1>2 DEF List
<1>3. CASE TakeFile(r)
  BY <1>3 DEF TakeFile
<1>4. CASE Describe(r) \/ Fail(r)
  BY <1>4 DEF Describe, Fail
<1>5. CASE Finish(r) \/ Pop(r)
  BY <1>5 DEF Finish, Pop
<1> QED
  BY <1>1, <1>2, <1>3, <1>4, <1>5 DEF Task

LEMMA OwnStepsFall ==
  ASSUME TypeOK, TypeOK', NEW r \in Requests, Task(r)
  PROVE  StepsLeft(r)' < StepsLeft(r)
<1> DEFINE C == Cardinality(Files)
           c == Cardinality(listed[r])
<1>1. /\ C \in Nat /\ c \in Nat /\ listed[r] \in SUBSET Files /\ listed'[r] \in SUBSET Files
      /\ IsFiniteSet(listed[r])
  BY FilesAheadTypes, ListedFinite, IngestionAssumption, FS_Subset DEF TypeOK
<1>2. Cardinality(listed'[r]) \in 0..C
  BY <1>1, IngestionAssumption, FS_Subset, FS_CardinalityType
<1> USE DEF StepsLeft, FilesAhead, Unstarted, Processing
<1>3. CASE /\ pc[r] \in Unstarted /\ pc'[r] \in Unstarted \cup Ended
           /\ StagesAhead[pc'[r]] < StagesAhead[pc[r]]
  BY <1>1, <1>3 DEF StagesAhead, Ended
<1>4. CASE pc[r] = "list" /\ pc'[r] = "files"
  BY <1>1, <1>2, <1>4 DEF StagesAhead
<1>5. CASE pc[r] = "files" /\ pc'[r] = "file" /\ \E f \in listed[r] : listed'[r] = listed[r] \ {f}
  <2>1. PICK f \in listed[r] : listed'[r] = listed[r] \ {f}
    BY <1>5
  <2>2. Cardinality(listed[r] \ {f}) = c - 1
    BY <1>1, FS_RemoveElement
  <2>3. Cardinality(listed'[r]) = c - 1
    BY <2>1, <2>2
  <2> QED
    BY <1>1, <1>2, <1>5, <2>3 DEF StagesAhead
<1>6. CASE pc[r] = "file" /\ pc'[r] = "files" /\ listed'[r] = listed[r]
  BY <1>1, <1>6 DEF StagesAhead
<1>7. CASE (pc[r] = "files" /\ pc'[r] = "grace") \/ (pc[r] = "grace" /\ pc'[r] = "done")
  BY <1>1, <1>7 DEF StagesAhead
<1> QED
  BY <1>3, <1>4, <1>5, <1>6, <1>7, OwnSteps

(* What anyone else does leaves a request where it was; a restart ends it. *)
LEMMA OthersSteps ==
  ASSUME TypeOK, NEW r \in Requests, Next, ~Task(r)
  PROVE  \/ pc'[r] = pc[r] /\ listed'[r] = listed[r]
         \/ pc[r] = "idle" /\ pc'[r] \in {"scheduled", "query"}
         \/ pc'[r] = "done"
<1> USE DEF TypeOK, Goto, taskVars
<1>1. ASSUME NEW q \in Requests, Trigger(q)
      PROVE  \/ pc'[r] = pc[r] /\ listed'[r] = listed[r]
             \/ pc[r] = "idle" /\ pc'[r] \in {"scheduled", "query"}
  BY <1>1 DEF Trigger
<1>2. ASSUME NEW q \in Requests \ {r}, Task(q) PROVE pc'[r] = pc[r] /\ listed'[r] = listed[r]
  <2>1. CASE Query(q) \/ Store(q) \/ RequestFails(q) \/ Start(q) \/ List(q) \/ ListFails(q)
    BY <2>1 DEF Query, Store, RequestFails, Start, List, ListFails
  <2>2. CASE TakeFile(q) \/ Describe(q) \/ Fail(q) \/ Finish(q) \/ Pop(q)
    BY <2>2 DEF TakeFile, Describe, Fail, Finish, Pop
  <2> QED
    BY <1>2, <2>1, <2>2 DEF Task
<1>3. ASSUME NEW f \in Files, Upload(f) \/ Delete(f) \/ Reanalyze(f)
      PROVE  pc'[r] = pc[r] /\ listed'[r] = listed[r]
  BY <1>3 DEF Upload, Delete, Reanalyze
<1>4. CASE Restart
  BY <1>4 DEF Restart
<1> QED
  BY <1>1, <1>2, <1>3, <1>4 DEF Next

LEMMA StepsFallAlways ==
  ASSUME IngestionInv, [Next]_vars, NEW r \in Requests
  PROVE  [StepsFall(r)]_vars
<1>1. TypeOK /\ TypeOK'
  BY IngestionInvStep DEF IngestionInv
<1>2. /\ Cardinality(Files) \in Nat /\ FilesAhead(r) \in 0..Cardinality(Files)
      /\ StagesAhead[pc[r]] \in 0..8
  BY <1>1, FilesAheadTypes
<1>3. StepsLeft(r) \in Nat
  BY <1>2 DEF StepsLeft
<1>4. CASE Next /\ Task(r)
  <2>1. StepsLeft(r)' < StepsLeft(r)
    BY <1>1, <1>4, OwnStepsFall
  <2>2. StepsLeft(r)' \in Nat
    <3>1. listed'[r] \in SUBSET Files /\ pc'[r] \in {"idle", "query", "store"} \cup Scheduled \cup Ended
      BY <1>1 DEF TypeOK
    <3>2. Cardinality(listed'[r]) \in Nat
      BY <3>1, IngestionAssumption, FS_Subset, FS_CardinalityType
    <3>3. FilesAhead(r)' \in Nat
      BY <1>2, <3>2 DEF FilesAhead
    <3>4. StagesAhead[pc'[r]] \in Nat
      BY <3>1 DEF StagesAhead, Scheduled, Processing, Ended
    <3> QED
      BY <3>3, <3>4 DEF StepsLeft
  <2> QED
    BY <1>3, <2>1, <2>2 DEF StepsFall
<1>5. CASE Next /\ ~Task(r)
  <2>1. CASE pc'[r] = pc[r] /\ listed'[r] = listed[r]
    <3>1. StepsLeft(r)' = StepsLeft(r)
      BY <2>1 DEF StepsLeft, FilesAhead
    <3> QED
      BY <1>3, <1>5, <3>1 DEF StepsFall
  <2>2. CASE pc[r] = "idle" /\ pc'[r] \in {"scheduled", "query"}
    BY <1>2, <1>5, <2>2 DEF StepsFall, StepsLeft, FilesAhead, StagesAhead, Unstarted
  <2>3. CASE pc'[r] = "done"
    <3>1. StepsLeft(r)' = 0
      BY <2>3 DEF StepsLeft, FilesAhead, StagesAhead, Unstarted, Processing
    <3> QED
      BY <1>3, <1>5, <3>1 DEF StepsFall
  <2> QED
    BY <1>1, <1>5, <2>1, <2>2, <2>3, OthersSteps
<1> QED
  BY <1>4, <1>5

(* However many requests, uploads and restarts there are: no request takes *)
(* more than 2 * |Files| + 8 steps, each leaves it fewer, and nothing that *)
(* anyone else does gives it more.  Files uploaded while a task works are  *)
(* not added to it, so uploads cannot keep an ingestion going.             *)
THEOREM TasksRunOut ==
  SafeSpec => \A r \in Requests : []StepsBounded(r) /\ [][StepsFall(r)]_vars
<1> SUFFICES ASSUME NEW r \in Requests PROVE SafeSpec => []StepsBounded(r) /\ [][StepsFall(r)]_vars
  OBVIOUS
<1>1. IngestionInv => StepsBounded(r)
  BY StepsTyped DEF IngestionInv
<1>2. IngestionInv /\ [Next]_vars => [StepsFall(r)]_vars
  BY StepsFallAlways
<1> QED
  BY <1>1, <1>2, IngestionInvHolds, PTL DEF SafeSpec
=============================================================================
