--------------------------- MODULE AuditOutboxProofs ---------------------------
(***************************************************************************)
(* Proofs about AuditOutbox, for any number of request threads, outbox     *)
(* rows, lines and faults: the log chains, delivers once and in commit     *)
(* order, and the outbox implements AuditLog.                              *)
(***************************************************************************)
EXTENDS AuditOutbox, TLAPS

USE DEF Event, PCs

(* What a new line adds to the log.                                        *)
LEMMA AppendedLine ==
    ASSUME NEW l \in Line, file \in Seq(Line), file' = Append(file, l)
    PROVE  /\ file' \in Seq(Line)
           /\ Len(file') = Len(file) + 1
           /\ DOMAIN file' = DOMAIN file \union {Len(file) + 1}
           /\ \A k \in DOMAIN file : k <= Len(file) /\ file'[k] = file[k]
           /\ file'[Len(file) + 1] = l
           /\ Logged' = Logged \union ({l.event} \ {0})
  <1>1. /\ file' \in Seq(Line)
        /\ Len(file') = Len(file) + 1
        /\ DOMAIN file' = DOMAIN file \union {Len(file) + 1}
        /\ \A k \in DOMAIN file : k <= Len(file) /\ file'[k] = file[k]
        /\ file'[Len(file) + 1] = l
    OBVIOUS
  <1>2. Logged' = Logged \union ({l.event} \ {0})
    BY <1>1 DEF Logged
  <1>3. QED
    BY <1>1, <1>2

LEMMA NextRow ==
    ASSUME TypeOK, NEW t \in Threads, NEW e, IsNext(t, e)
    PROVE  /\ e # 0 => e \in todo[t] /\ \A f \in todo[t] : e <= f
           /\ e = 0 => todo[t] = {}
  BY DEF IsNext, TypeOK

LEMMA InitInvariant == Init => IInv
  <1> SUFFICES ASSUME Init PROVE IInv
    OBVIOUS
  <1>1. Logged = {}
    BY DEF Init, Logged
  <1>2. TypeOK
    BY OutboxAssumption DEF Init, TypeOK, Line, NoLine
  <1>3. QED
    BY <1>1, <1>2, OutboxAssumption
       DEF Init, IInv, LockIsExclusive, WritesFreshLine, ChainVerifies,
           DeliveredOnce, MarkedIsLogged, DoneIsLogged, LoggedIsCommitted,
           LogHasNoGap, FlushHasNoGap

-----------------------------------------------------------------------------
(* The step that matters: a line is written.                               *)
LEMMA WriteStep ==
    ASSUME IInv, NEW t \in Threads, Write(t)
    PROVE  IInv'
  <1> DEFINE l == line[t]
             e == line[t].event
  <1>0. /\ TypeOK /\ LockIsExclusive /\ WritesFreshLine /\ ChainVerifies
        /\ DeliveredOnce /\ MarkedIsLogged /\ DoneIsLogged
        /\ LoggedIsCommitted /\ LogHasNoGap /\ FlushHasNoGap
    BY DEF IInv
  <1>1. /\ l \in Line /\ e \in Nat /\ file \in Seq(Line) /\ file' = Append(file, l)
        /\ committed \in Nat
    BY <1>0 DEF Write, TypeOK, Line
  <1>2. /\ file' \in Seq(Line)
        /\ Len(file') = Len(file) + 1
        /\ DOMAIN file' = DOMAIN file \union {Len(file) + 1}
        /\ \A k \in DOMAIN file : k <= Len(file) /\ file'[k] = file[k]
        /\ file'[Len(file) + 1] = l
        /\ Logged' = Logged \union ({e} \ {0})
    BY <1>1, AppendedLine
  <1>3. /\ pc[t] = "write" /\ l.prev = Len(file)
        /\ e \in 0..committed /\ e \notin Logged /\ IsNext(t, e)
    BY <1>0 DEF Write, WritesFreshLine
  <1>4. /\ e # 0 => e \in todo[t] /\ \A f \in todo[t] : e <= f
        /\ e = 0 => todo[t] = {}
    BY <1>0, <1>3, NextRow
  <1>5. /\ lock' = Nobody
        /\ todo' = [todo EXCEPT ![t] = @ \ {e}]
        /\ done' = [done EXCEPT ![t] = IF e = 0 THEN @ ELSE @ \union {e}]
        /\ line' = [line EXCEPT ![t] = NoLine]
        /\ pc' = [pc EXCEPT ![t] = IF e = 0 THEN "idle"
                                   ELSE IF todo[t] = {e} THEN "mark" ELSE "append"]
        /\ committed' = committed /\ marked' = marked /\ faults' = faults
    BY DEF Write, Appended
  <1> HIDE DEF l, e
  <1>6. TypeOK'
    BY <1>0, <1>1, <1>2, <1>3, <1>5 DEF TypeOK, Line, NoLine
  <1>7. lock = t
    BY <1>0, <1>3 DEF LockIsExclusive
  <1>8. LockIsExclusive' /\ WritesFreshLine'
    <2>1. \A u \in Threads : pc'[u] \notin {"read", "write"}
      BY <1>0, <1>3, <1>5, <1>7 DEF LockIsExclusive, TypeOK
    <2>2. QED
      BY <1>5, <2>1, OutboxAssumption DEF LockIsExclusive, WritesFreshLine
  <1>9. ChainVerifies'
    BY <1>0, <1>1, <1>2, <1>3 DEF ChainVerifies
  <1>10. DeliveredOnce'
    <2>1. \A k \in DOMAIN file : file[k].event # e \/ e = 0
      BY <1>3 DEF Logged
    <2>2. \A k \in DOMAIN file : file'[k] = file[k]
      BY <1>2
    <2>3. file'[Len(file) + 1].event = e
      BY <1>2 DEF l, e
    <2>4. QED
      BY <1>0, <1>2, <2>1, <2>2, <2>3 DEF DeliveredOnce
  <1>11. MarkedIsLogged'
    BY <1>0, <1>2, <1>5 DEF MarkedIsLogged
  <1>12. DoneIsLogged'
    BY <1>0, <1>2, <1>5 DEF DoneIsLogged, TypeOK
  <1>13. LoggedIsCommitted'
    BY <1>0, <1>1, <1>2, <1>3, <1>5 DEF LoggedIsCommitted
  <1>14. LogHasNoGap'
    <2>1. ASSUME e # 0 PROVE 1..(e - 1) \subseteq Logged
      <3>1. 1..(e - 1) \subseteq todo[t] \union Logged
        BY <1>0, <1>4, <2>1 DEF FlushHasNoGap
      <3>2. \A m \in 1..(e - 1) : m \notin todo[t]
        BY <1>1, <1>4, <2>1
      <3>3. QED
        BY <3>1, <3>2
    <2>2. QED
      BY <1>0, <1>2, <2>1 DEF LogHasNoGap
  <1>15. FlushHasNoGap'
    <2>1. ASSUME NEW u \in Threads, NEW n \in todo'[u], NEW m \in 1..(n - 1)
          PROVE  m \in todo'[u] \union Logged'
      <3>1. n \in todo[u]
        BY <1>0, <1>5, <2>1 DEF TypeOK
      <3>2. m \in todo[u] \union Logged
        BY <1>0, <2>1, <3>1 DEF FlushHasNoGap
      <3>3. CASE m \in Logged
        BY <1>2, <3>3
      <3>4. CASE m \in todo[u] /\ u # t
        BY <1>0, <1>5, <3>4 DEF TypeOK
      <3>5. CASE m \in todo[u] /\ u = t /\ m # e
        BY <1>0, <1>5, <3>5 DEF TypeOK
      <3>6. CASE m = e
        <4>1. m # 0
          BY <2>1
        <4>2. QED
          BY <1>2, <3>6, <4>1
      <3>7. QED
        BY <3>2, <3>3, <3>4, <3>5, <3>6
    <2>2. QED
      BY <2>1 DEF FlushHasNoGap
  <1>16. QED
    BY <1>6, <1>8, <1>9, <1>10, <1>11, <1>12, <1>13, <1>14, <1>15 DEF IInv

(* The event was there already.                                            *)
LEMMA AlreadyThereStep ==
    ASSUME IInv, NEW t \in Threads, AlreadyThere(t)
    PROVE  IInv'
  <1>0. /\ TypeOK /\ LockIsExclusive /\ WritesFreshLine /\ ChainVerifies
        /\ DeliveredOnce /\ MarkedIsLogged /\ DoneIsLogged
        /\ LoggedIsCommitted /\ LogHasNoGap /\ FlushHasNoGap
    BY DEF IInv
  <1>1. PICK e \in Logged : IsNext(t, e) /\ Appended(t, e)
    BY DEF AlreadyThere
  <1>2. e # 0 /\ e \in todo[t] /\ e \in 1..committed
    BY <1>0, <1>1, NextRow DEF Logged, TypeOK
  <1>3. /\ pc[t] = "read" /\ file' = file /\ marked' = marked
        /\ committed' = committed /\ line' = line /\ faults' = faults
        /\ Logged' = Logged
    BY DEF AlreadyThere, Logged
  <1>4. /\ lock' = Nobody
        /\ todo' = [todo EXCEPT ![t] = @ \ {e}]
        /\ done' = [done EXCEPT ![t] = @ \union {e}]
        /\ pc'[t] \in {"mark", "append"}
        /\ pc' = [pc EXCEPT ![t] = pc'[t]]
    BY <1>0, <1>1, <1>2 DEF Appended, TypeOK
  <1>5. TypeOK'
    BY <1>0, <1>2, <1>3, <1>4 DEF TypeOK
  <1>6. lock = t
    BY <1>0, <1>3 DEF LockIsExclusive
  <1>7. LockIsExclusive' /\ WritesFreshLine'
    <2>1. \A u \in Threads : pc'[u] \notin {"read", "write"}
      BY <1>0, <1>4, <1>6 DEF LockIsExclusive, TypeOK
    <2>2. QED
      BY <1>4, <2>1, OutboxAssumption DEF LockIsExclusive, WritesFreshLine
  <1>8. DoneIsLogged'
    BY <1>0, <1>1, <1>3, <1>4 DEF DoneIsLogged, TypeOK
  <1>9. FlushHasNoGap'
    BY <1>0, <1>1, <1>3, <1>4 DEF FlushHasNoGap, TypeOK
  <1>10. QED
    BY <1>0, <1>3, <1>5, <1>7, <1>8, <1>9
       DEF IInv, ChainVerifies, DeliveredOnce, MarkedIsLogged,
           LoggedIsCommitted, LogHasNoGap

-----------------------------------------------------------------------------
(* Every other step leaves the file alone.                                 *)
LEMMA OtherStep ==
    ASSUME IInv, [Next]_vars,
           \A t \in Threads : ~Write(t) /\ ~AlreadyThere(t)
    PROVE  IInv' /\ file' = file
  <1> DEFINE Goal == IInv' /\ file' = file
  <1>0. /\ TypeOK /\ LockIsExclusive /\ WritesFreshLine /\ ChainVerifies
        /\ DeliveredOnce /\ MarkedIsLogged /\ DoneIsLogged
        /\ LoggedIsCommitted /\ LogHasNoGap /\ FlushHasNoGap
    BY DEF IInv
  <1>a. committed \in Nat /\ Nobody \notin Threads /\ NoLine \in Line
    BY <1>0, OutboxAssumption DEF TypeOK, NoLine, Line
  <1>b. ASSUME file' = file, committed' = committed, TypeOK', LockIsExclusive',
               WritesFreshLine', MarkedIsLogged', DoneIsLogged', FlushHasNoGap'
        PROVE  Goal
    <2>1. Logged' = Logged
      BY <1>b DEF Logged
    <2>2. QED
      BY <1>0, <1>b, <2>1
         DEF IInv, ChainVerifies, DeliveredOnce, LoggedIsCommitted, LogHasNoGap
  <1>c. file' = file => Logged' = Logged
    BY DEF Logged
  <1>1. ASSUME NEW t \in Threads, CommitMutation(t) PROVE Goal
    <2>1. /\ committed' \in Nat /\ committed' >= committed
          /\ pc' = [pc EXCEPT ![t] = "select"]
          /\ UNCHANGED <<marked, file, lock, todo, done, line, faults>>
          /\ pc[t] = "idle"
      BY <1>1, <1>a, OutboxAssumption DEF CommitMutation
    <2>2. 1..committed \subseteq 1..committed' /\ 0..committed \subseteq 0..committed'
      BY <1>a, <2>1
    <2>3. TypeOK'
      BY <1>0, <2>1, <2>2 DEF TypeOK
    <2>4. LockIsExclusive' /\ WritesFreshLine'
      BY <1>0, <1>a, <1>c, <2>1, <2>2 DEF LockIsExclusive, WritesFreshLine, TypeOK, IsNext
    <2>5. QED
      BY <1>0, <1>c, <2>1, <2>2, <2>3, <2>4
         DEF IInv, ChainVerifies, DeliveredOnce, MarkedIsLogged, DoneIsLogged,
             LoggedIsCommitted, LogHasNoGap, FlushHasNoGap
  <1>2. ASSUME NEW t \in Threads, CommitNothing(t) \/ CommitDirect(t) PROVE Goal
    <2>1. /\ pc[t] = "idle"
          /\ pc'[t] \in {"select", "append"} /\ pc' = [pc EXCEPT ![t] = pc'[t]]
          /\ UNCHANGED <<committed, marked, file, lock, todo, done, line, faults>>
      BY <1>0, <1>2 DEF CommitNothing, CommitDirect, TypeOK
    <2>2. TypeOK' /\ LockIsExclusive' /\ WritesFreshLine'
      BY <1>0, <1>a, <1>c, <2>1 DEF LockIsExclusive, WritesFreshLine, TypeOK, IsNext
    <2>3. QED
      BY <1>0, <1>b, <1>c, <2>1, <2>2 DEF MarkedIsLogged, DoneIsLogged, FlushHasNoGap
  <1>3. ASSUME NEW t \in Threads, SelectPending(t) PROVE Goal
    <2>1. /\ pc[t] = "select"
          /\ pc'[t] \in {"idle", "append"} /\ pc' = [pc EXCEPT ![t] = pc'[t]]
          /\ todo' = [todo EXCEPT ![t] = 1..committed \ marked]
          /\ UNCHANGED <<committed, marked, file, lock, done, line, faults>>
      BY <1>0, <1>3 DEF SelectPending, TypeOK
    <2>2. TypeOK' /\ LockIsExclusive' /\ WritesFreshLine'
      BY <1>0, <1>a, <1>c, <2>1 DEF LockIsExclusive, WritesFreshLine, TypeOK, IsNext
    <2>3. ASSUME NEW u \in Threads, NEW n \in todo'[u], NEW m \in 1..(n - 1)
          PROVE  m \in todo'[u] \union Logged'
      <3>1. CASE u = t
        <4>1. todo'[t] = 1..committed \ marked
          BY <1>0, <2>1 DEF TypeOK
        <4>2. m \in 1..committed
          BY <1>a, <2>3, <3>1, <4>1
        <4>3. QED
          BY <1>0, <1>c, <2>1, <3>1, <4>1, <4>2 DEF MarkedIsLogged
      <3>2. CASE u # t
        BY <1>0, <1>c, <2>1, <2>3, <3>2 DEF FlushHasNoGap, TypeOK
      <3>3. QED
        BY <3>1, <3>2
    <2>4. QED
      BY <1>0, <1>b, <1>c, <2>1, <2>2, <2>3 DEF MarkedIsLogged, DoneIsLogged, FlushHasNoGap
  <1>4. ASSUME NEW t \in Threads, Acquire(t) PROVE Goal
    <2>1. /\ pc[t] = "append" /\ lock = Nobody /\ lock' = t
          /\ pc' = [pc EXCEPT ![t] = "read"]
          /\ UNCHANGED <<committed, marked, file, todo, done, line, faults>>
      BY <1>4 DEF Acquire
    <2>2. TypeOK' /\ LockIsExclusive' /\ WritesFreshLine'
      BY <1>0, <1>a, <1>c, <2>1 DEF LockIsExclusive, WritesFreshLine, TypeOK, IsNext
    <2>3. QED
      BY <1>0, <1>b, <1>c, <2>1, <2>2 DEF MarkedIsLogged, DoneIsLogged, FlushHasNoGap
  <1>5. ASSUME NEW t \in Threads, ReadTail(t) PROVE Goal
    <2>1. PICK e \in 0..committed :
            /\ IsNext(t, e) /\ e \notin Logged
            /\ line' = [line EXCEPT ![t] = [event |-> e, prev |-> Len(file)]]
      BY <1>5 DEF ReadTail
    <2>2. /\ pc[t] = "read" /\ pc' = [pc EXCEPT ![t] = "write"]
          /\ UNCHANGED <<committed, marked, file, lock, todo, done, faults>>
      BY <1>5 DEF ReadTail
    <2>3. [event |-> e, prev |-> Len(file)] \in Line
      BY <1>0, <1>a, <2>1 DEF TypeOK, Line
    <2>4. TypeOK' /\ LockIsExclusive'
      BY <1>0, <2>1, <2>2, <2>3 DEF TypeOK, LockIsExclusive
    <2>5. WritesFreshLine'
      <3>1. line'[t].event = e /\ line'[t].prev = Len(file)
        BY <1>0, <2>1 DEF TypeOK
      <3>2. \A u \in Threads : u # t => line'[u] = line[u] /\ pc'[u] = pc[u]
        BY <1>0, <2>1, <2>2 DEF TypeOK
      <3>3. QED
        BY <1>0, <1>c, <2>1, <2>2, <3>1, <3>2 DEF WritesFreshLine, IsNext
    <2>6. QED
      BY <1>0, <1>b, <1>c, <2>2, <2>4, <2>5 DEF MarkedIsLogged, DoneIsLogged, FlushHasNoGap
  <1>6. ASSUME NEW t \in Threads, Mark(t) \/ AppendFails(t) \/ DatabaseFails(t)
        PROVE  Goal
    <2>1. /\ marked' \in {marked, marked \union done[t]}
          /\ Leave(t)
          /\ UNCHANGED <<committed, file>>
          /\ faults' \in Nat
          /\ \/ pc[t] \notin {"read", "write"} /\ lock' = lock
             \/ pc[t] \in {"read", "write"} /\ lock' = Nobody
      BY <1>0, <1>6, OutboxAssumption DEF Mark, AppendFails, DatabaseFails, TypeOK
    <2>2. TypeOK'
      BY <1>0, <1>a, <2>1 DEF TypeOK, Leave
    <2>3. LockIsExclusive' /\ WritesFreshLine'
      BY <1>0, <1>a, <1>c, <2>1 DEF LockIsExclusive, WritesFreshLine, TypeOK, Leave, IsNext
    <2>4. MarkedIsLogged' /\ DoneIsLogged' /\ FlushHasNoGap'
      BY <1>0, <1>c, <2>1
         DEF MarkedIsLogged, DoneIsLogged, FlushHasNoGap, TypeOK, Leave
    <2>5. QED
      BY <1>b, <2>1, <2>2, <2>3, <2>4
  <1>7. ASSUME Crash PROVE Goal
    <2>1. TypeOK'
      BY <1>0, <1>7, <1>a DEF Crash, TypeOK
    <2>2. LockIsExclusive' /\ WritesFreshLine'
      BY <1>7, <1>a DEF Crash, LockIsExclusive, WritesFreshLine
    <2>3. MarkedIsLogged' /\ DoneIsLogged' /\ FlushHasNoGap'
      BY <1>0, <1>7, <1>c DEF Crash, MarkedIsLogged, DoneIsLogged, FlushHasNoGap
    <2>4. QED
      BY <1>7, <1>b, <2>1, <2>2, <2>3 DEF Crash
  <1>8. CASE UNCHANGED vars
    BY <1>0, <1>8, <1>b, <1>c
       DEF vars, TypeOK, LockIsExclusive, WritesFreshLine, IsNext,
           MarkedIsLogged, DoneIsLogged, FlushHasNoGap
  <1>9. QED
    BY <1>1, <1>2, <1>3, <1>4, <1>5, <1>6, <1>7, <1>8 DEF Next, Request, ThreadStep

LEMMA StepInvariant == IInv /\ [Next]_vars => IInv'
  BY WriteStep, AlreadyThereStep, OtherStep

LEMMA Invariant == Spec => []IInv
  BY InitInvariant, StepInvariant, PTL DEF Spec

-----------------------------------------------------------------------------
(* The types hold for every number of threads, rows, lines and faults.     *)
THEOREM TypeCorrect == Spec => []TypeOK
  <1>1. IInv => TypeOK
    BY DEF IInv
  <1>2. QED
    BY <1>1, Invariant, PTL

(* The hash chain verifies after every step of every interleaving.         *)
THEOREM ChainIsValid == Spec => []ChainVerifies
  <1>1. IInv => ChainVerifies
    BY DEF IInv
  <1>2. QED
    BY <1>1, Invariant, PTL

(* No event is in the log twice, whatever was retried or repeated.         *)
THEOREM AtMostOnce == Spec => []DeliveredOnce
  <1>1. IInv => DeliveredOnce
    BY DEF IInv
  <1>2. QED
    BY <1>1, Invariant, PTL

(* A row that no later flush will look at is in the log.                   *)
THEOREM NothingDropped == Spec => []MarkedIsLogged
  <1>1. IInv => MarkedIsLogged
    BY DEF IInv
  <1>2. QED
    BY <1>1, Invariant, PTL

(* The outbox implements AuditLog: committed events arrive one at a time,  *)
(* in commit order; a line for a direct event or a repeat is a stutter.    *)
THEOREM Refinement == Spec => RefinesLog
  <1>1. Init => Log!Init
    BY DEF Init, Log!Init, Logged
  <1>2. IInv /\ [Next]_vars => [Log!Next]_<<committed, Logged>>
    <2> SUFFICES ASSUME IInv, [Next]_vars
                 PROVE  \/ Log!Next
                        \/ committed' = committed /\ Logged' = Logged
      OBVIOUS
    <2>1. CASE \E t \in Threads : Write(t)
      <3>1. PICK t \in Threads : Write(t)
        BY <2>1
      <3> DEFINE e == line[t].event
      <3>2. line[t] \in Line /\ file \in Seq(Line) /\ file' = Append(file, line[t])
        BY <3>1 DEF IInv, TypeOK, Write
      <3>3. Logged' = Logged \union ({e} \ {0}) /\ committed' = committed
        BY <3>1, <3>2, AppendedLine DEF Write
      <3>4. e \in 0..committed \ Logged /\ IsNext(t, e) /\ committed \in Nat
        BY <3>1 DEF IInv, WritesFreshLine, Write, TypeOK
      <3> HIDE DEF e
      <3>5. CASE e = 0
        BY <3>3, <3>5
      <3>6. CASE e # 0
        <4>1. e \in 1..committed /\ e \in Logged'
          BY <3>3, <3>4, <3>6
        <4>2. LogHasNoGap'
          BY <3>1, WriteStep DEF IInv
        <4>3. 1..(e - 1) \subseteq Logged'
          BY <4>1, <4>2 DEF LogHasNoGap
        <4>4. 1..(e - 1) \subseteq Logged
          BY <3>3, <3>4, <4>3
        <4>5. Log!Deliver(e)
          BY <3>3, <3>4, <3>6, <4>1, <4>4 DEF Log!Deliver
        <4>6. QED
          BY <4>1, <4>5 DEF Log!Next
      <3>7. QED
        BY <3>5, <3>6
    <2>2. CASE ~\E t \in Threads : Write(t)
      <3>1. file' = file
        <4>1. CASE \E t \in Threads : AlreadyThere(t)
          BY <4>1 DEF AlreadyThere
        <4>2. CASE ~\E t \in Threads : AlreadyThere(t)
          BY <2>2, <4>2, OtherStep
        <4>3. QED
          BY <4>1, <4>2
      <3>2. Logged' = Logged
        BY <3>1 DEF Logged
      <3>3. committed' = committed \/ (committed' \in Nat /\ committed' > committed)
        <4>1. committed \in Nat
          BY DEF IInv, TypeOK
        <4>2. ASSUME NEW t \in Threads, CommitMutation(t)
              PROVE  committed' \in Nat /\ committed' > committed
          BY <4>1, <4>2, OutboxAssumption DEF CommitMutation
        <4>3. ASSUME NEW t \in Threads,
                     \/ CommitNothing(t) \/ CommitDirect(t) \/ ThreadStep(t)
                     \/ AppendFails(t) \/ DatabaseFails(t)
              PROVE  committed' = committed
          BY <4>3 DEF CommitNothing, CommitDirect, ThreadStep, SelectPending,
                      Acquire, AlreadyThere, ReadTail, Write, Mark,
                      AppendFails, DatabaseFails
        <4>4. CASE Crash \/ UNCHANGED vars
          BY <4>4 DEF Crash, vars
        <4>5. QED
          BY <4>2, <4>3, <4>4 DEF Next, Request
      <3>4. QED
        BY <3>2, <3>3 DEF Log!Next, Log!Accept
    <2>3. QED
      BY <2>1, <2>2
  <1>3. QED
    BY <1>1, <1>2, Invariant, PTL DEF Spec, RefinesLog, Log!Spec
=============================================================================
