---------------------------- MODULE AuditOutbox ----------------------------
(***************************************************************************)
(* The audit outbox and the hash-chained JSONL log (app/services/audit.py, *)
(* commit_and_flush_audit in dispatch_workflow.py).                        *)
(*                                                                         *)
(* A request handler commits its mutation together with outbox rows, then  *)
(* flushes: it selects the rows that are not marked, appends each to the   *)
(* log under a process-wide lock unless its event id is already there, and *)
(* marks them in one commit.  Other handlers commit and append an event of *)
(* their own without the outbox.  Handlers run in a thread pool and share  *)
(* nothing but the database, the file and the lock; the process may die    *)
(* between any two steps.                                                  *)
(*                                                                         *)
(* Abstractions.  Outbox rows are numbered by their id, which SQLite gives *)
(* out in commit order.  Event 0 is any event of a direct append (a fresh  *)
(* uuid each).  The row_hash of a line is its position, 0 the genesis hash.*)
(* A line is written as a whole.                                           *)
(***************************************************************************)
EXTENDS Integers, Sequences, FiniteSets

CONSTANTS Threads,    \* request threads of the one server process
          Nobody,     \* the lock is free
          MaxEvents,  \* bound on the outbox rows
          MaxQueued,  \* rows one mutation may queue
          MaxLines,   \* bound on the lines of the file
          MaxFaults   \* bound on crashes and failing appends and commits

ASSUME OutboxAssumption ==
    /\ Nobody \notin Threads
    /\ MaxEvents \in Nat /\ MaxQueued \in Nat /\ MaxLines \in Nat
    /\ MaxFaults \in Nat

VARIABLES committed,  \* outbox rows 1 .. committed exist
          marked,     \* those whose flushed_ts_ms is set
          file,       \* the lines of the JSONL log
          lock,       \* _AUDIT_LOCK
          pc,         \* where each thread is
          todo,       \* rows of its SELECT that the flush has not reached
          done,       \* rows it delivered and has not marked yet
          line,       \* the line it is about to write
          faults

vars == <<committed, marked, file, lock, pc, todo, done, line, faults>>

Event == Nat
Line == [event: Event, prev: Nat]
NoLine == [event |-> 0, prev |-> 0]

(* The outbox events that are in the log.                                  *)
Logged == {file[k].event : k \in DOMAIN file} \ {0}

Init ==
    /\ committed = 0
    /\ marked = {}
    /\ file = << >>
    /\ lock = Nobody
    /\ pc = [t \in Threads |-> "idle"]
    /\ todo = [t \in Threads |-> {}]
    /\ done = [t \in Threads |-> {}]
    /\ line = [t \in Threads |-> NoLine]
    /\ faults = 0

-----------------------------------------------------------------------------
(* session.commit(): the mutation and the rows of queue_audit_event.       *)
CommitMutation(t) ==
    /\ pc[t] = "idle"
    /\ \E n \in 1..MaxQueued :
         /\ committed + n <= MaxEvents
         /\ committed' = committed + n
    /\ pc' = [pc EXCEPT ![t] = "select"]
    /\ UNCHANGED <<marked, file, lock, todo, done, line, faults>>

(* A handler whose mutation queued nothing flushes all the same.           *)
CommitNothing(t) ==
    /\ pc[t] = "idle"
    /\ pc' = [pc EXCEPT ![t] = "select"]
    /\ UNCHANGED <<committed, marked, file, lock, todo, done, line, faults>>

(* A handler that calls append_audit_event after its commit.               *)
CommitDirect(t) ==
    /\ pc[t] = "idle"
    /\ Len(file) < MaxLines
    /\ pc' = [pc EXCEPT ![t] = "append"]
    /\ UNCHANGED <<committed, marked, file, lock, todo, done, line, faults>>

\* mutant: the backlog is left to the handler that queued it
SelectNewest(t) ==
    /\ pc[t] = "select"
    /\ todo' = [todo EXCEPT ![t] = {committed} \ (marked \union {0})]
    /\ pc' = [pc EXCEPT ![t] = IF todo'[t] = {} THEN "idle" ELSE "append"]
    /\ UNCHANGED <<committed, marked, file, lock, done, line, faults>>

\* mutant: the rows are numbered from 0
SelectFromZero(t) ==
    /\ pc[t] = "select"
    /\ todo' = [todo EXCEPT ![t] = 0..committed \ marked]
    /\ pc' = [pc EXCEPT ![t] = IF todo'[t] = {} THEN "idle" ELSE "append"]
    /\ UNCHANGED <<committed, marked, file, lock, done, line, faults>>

(* flush_audit_outbox: the SELECT.                                         *)
SelectPending(t) ==
    /\ pc[t] = "select"
    /\ todo' = [todo EXCEPT ![t] = 1..committed \ marked]
    /\ pc' = [pc EXCEPT ![t] = IF todo'[t] = {} THEN "idle" ELSE "append"]
    /\ UNCHANGED <<committed, marked, file, lock, done, line, faults>>

-----------------------------------------------------------------------------
(* append_audit_event: with _AUDIT_LOCK ...                                *)
IsNext(t, e) ==
    IF todo[t] = {} THEN e = 0 ELSE e \in todo[t] /\ \A f \in todo[t] : e <= f

\* mutant: the file is read without the lock
AcquireUnlocked(t) ==
    /\ pc[t] = "append"
    /\ lock' = t
    /\ pc' = [pc EXCEPT ![t] = "read"]
    /\ UNCHANGED <<committed, marked, file, todo, done, line, faults>>

Acquire(t) ==
    /\ pc[t] = "append"
    /\ lock = Nobody
    /\ lock' = t
    /\ pc' = [pc EXCEPT ![t] = "read"]
    /\ UNCHANGED <<committed, marked, file, todo, done, line, faults>>

(* What follows an append: the flush goes on to its next row, or to the    *)
(* commit that marks them; a direct append ends the handler.               *)
Appended(t, e) ==
    /\ lock' = Nobody
    /\ todo' = [todo EXCEPT ![t] = @ \ {e}]
    /\ done' = [done EXCEPT ![t] = IF e = 0 THEN @ ELSE @ \union {e}]
    /\ pc' = [pc EXCEPT ![t] = IF e = 0 THEN "idle"
                               ELSE IF todo[t] = {e} THEN "mark" ELSE "append"]

(* ... the event id is in the file: it was delivered before ...            *)
AlreadyThere(t) ==
    /\ pc[t] = "read"
    /\ \E e \in Logged : IsNext(t, e) /\ Appended(t, e)
    /\ UNCHANGED <<committed, marked, file, line, faults>>

\* mutant: the event id is not looked up
ReadTailOnly(t) ==
    /\ pc[t] = "read"
    /\ \E e \in 0..committed :
         /\ IsNext(t, e)
         /\ line' = [line EXCEPT ![t] = [event |-> e, prev |-> Len(file)]]
    /\ pc' = [pc EXCEPT ![t] = "write"]
    /\ UNCHANGED <<committed, marked, file, lock, todo, done, faults>>

(* ... or not: _last_hash is read into the new row ...                     *)
ReadTail(t) ==
    /\ pc[t] = "read"
    /\ \E e \in 0..committed :
         /\ IsNext(t, e)
         /\ e \notin Logged
         /\ line' = [line EXCEPT ![t] = [event |-> e, prev |-> Len(file)]]
    /\ pc' = [pc EXCEPT ![t] = "write"]
    /\ UNCHANGED <<committed, marked, file, lock, todo, done, faults>>

(* ... and the row is written.                                             *)
Write(t) ==
    /\ pc[t] = "write"
    /\ file' = Append(file, line[t])
    /\ line' = [line EXCEPT ![t] = NoLine]
    /\ Appended(t, line[t].event)
    /\ UNCHANGED <<committed, marked, faults>>

-----------------------------------------------------------------------------
(* The thread is back in the pool, its session closed.                     *)
Leave(t) ==
    /\ pc' = [pc EXCEPT ![t] = "idle"]
    /\ todo' = [todo EXCEPT ![t] = {}]
    /\ done' = [done EXCEPT ![t] = {}]
    /\ line' = [line EXCEPT ![t] = NoLine]

(* The commit at the end of flush_audit_outbox sets flushed_ts_ms.         *)
Mark(t) ==
    /\ pc[t] = "mark"
    /\ marked' = marked \union done[t]
    /\ Leave(t)
    /\ UNCHANGED <<committed, file, lock, faults>>

\* mutant: the row that failed is marked with the others
AppendFailsMarked(t) ==
    /\ pc[t] \in {"read", "write"}
    /\ faults < MaxFaults /\ faults' = faults + 1
    /\ lock' = Nobody
    /\ marked' = marked \union done[t] \union {e \in todo[t] : IsNext(t, e)}
    /\ Leave(t)
    /\ UNCHANGED <<committed, file>>

(* The file cannot be read or written: last_error is committed with the    *)
(* rows that were delivered so far, if that commit succeeds, and an        *)
(* exception is raised.                                                    *)
AppendFails(t) ==
    /\ pc[t] \in {"read", "write"}
    /\ faults < MaxFaults /\ faults' = faults + 1
    /\ lock' = Nobody
    /\ marked' \in {marked, marked \union done[t]}
    /\ Leave(t)
    /\ UNCHANGED <<committed, file>>

(* The database is locked, or the SELECT fails: nothing is marked.         *)
DatabaseFails(t) ==
    /\ pc[t] \in {"select", "mark"}
    /\ faults < MaxFaults /\ faults' = faults + 1
    /\ Leave(t)
    /\ UNCHANGED <<committed, marked, file, lock>>

(* The process dies and is started again.                                  *)
Crash ==
    /\ \E t \in Threads : pc[t] # "idle"
    /\ faults < MaxFaults /\ faults' = faults + 1
    /\ lock' = Nobody
    /\ pc' = [t \in Threads |-> "idle"]
    /\ todo' = [t \in Threads |-> {}]
    /\ done' = [t \in Threads |-> {}]
    /\ line' = [t \in Threads |-> NoLine]
    /\ UNCHANGED <<committed, marked, file>>

ThreadStep(t) ==
    \/ SelectPending(t)
    \/ Acquire(t)
    \/ AlreadyThere(t)
    \/ ReadTail(t)
    \/ Write(t)
    \/ Mark(t)

Request(t) == CommitMutation(t) \/ CommitNothing(t) \/ CommitDirect(t)

Next ==
    \/ \E t \in Threads : Request(t) \/ ThreadStep(t) \/ AppendFails(t) \/ DatabaseFails(t)
    \/ Crash

Spec == Init /\ [][Next]_vars

(* A handler that has begun runs on.  The lock is not assumed to be fair,  *)
(* and no request is ever promised.                                        *)
FairSpec == Spec /\ \A t \in Threads : WF_vars(ThreadStep(t))

-----------------------------------------------------------------------------
PCs == {"idle", "select", "append", "read", "write", "mark"}

(* The types of the tables, the file, the lock and the threads of a flush. *)
TypeOK ==
    /\ committed \in Nat
    /\ marked \subseteq 1..committed
    /\ file \in Seq(Line)
    /\ lock \in Threads \union {Nobody}
    /\ pc \in [Threads -> PCs]
    /\ todo \in [Threads -> SUBSET (1..committed)]
    /\ done \in [Threads -> SUBSET (1..committed)]
    /\ line \in [Threads -> Line]
    /\ faults \in Nat

(* verify_audit_chain: every line carries the hash of the line before it,  *)
(* although handlers with and without the outbox append at the same time.  *)
ChainVerifies == \A k \in DOMAIN file : file[k].prev = k - 1

(* Two flushes of the same backlog, and a flush repeated after a crash,    *)
(* deliver an event once.                                                  *)
DeliveredOnce ==
    \A k, l \in DOMAIN file :
        k # l => file[k].event # file[l].event \/ file[k].event = 0

(* A row whose flushed_ts_ms is set is never looked at again: its event is *)
(* in the log by then.                                                     *)
MarkedIsLogged == marked \subseteq Logged

(* What makes these inductive, and the order of delivery: a flush holds    *)
(* every unlogged row older than one it still has to deliver, so the log   *)
(* never has a gap.                                                        *)
LockIsExclusive == \A t \in Threads : (pc[t] \in {"read", "write"}) <=> (lock = t)

WritesFreshLine ==
    \A t \in Threads : pc[t] = "write" =>
        /\ line[t].prev = Len(file)
        /\ line[t].event \in 0..committed \ Logged
        /\ IsNext(t, line[t].event)

DoneIsLogged == \A t \in Threads : done[t] \subseteq Logged

LoggedIsCommitted == Logged \subseteq 1..committed

LogHasNoGap == \A n \in Logged : 1..(n - 1) \subseteq Logged

FlushHasNoGap ==
    \A t \in Threads : \A n \in todo[t] : 1..(n - 1) \subseteq todo[t] \union Logged

IInv ==
    /\ TypeOK
    /\ LockIsExclusive
    /\ WritesFreshLine
    /\ ChainVerifies
    /\ DeliveredOnce
    /\ MarkedIsLogged
    /\ DoneIsLogged
    /\ LoggedIsCommitted
    /\ LogHasNoGap
    /\ FlushHasNoGap

(* The outbox refines the promised log.                                    *)
Log == INSTANCE AuditLog WITH accepted <- committed, delivered <- Logged
RefinesLog == Log!Spec

(* As long as handlers that flush keep arriving, every committed event     *)
(* reaches the log, after any fault.                                       *)
FlushesKeepComing == []<>(\E t \in Threads : pc[t] = "select")

EventuallyLogged ==
    FlushesKeepComing =>
        \A n \in 1..MaxEvents : (n <= committed) ~> (n \in Logged)
=============================================================================
