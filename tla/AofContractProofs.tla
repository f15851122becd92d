------------------------- MODULE AofContractProofs -------------------------
(* aof.c keeps its contract with the Reactor, and its file ends at an error. *)
EXTENDS AofProofs

-----------------------------------------------------------------------------
(* What the Reactor relies on *)

\* Only a restart and a publication change written_sequence, and what is
\* published has been assigned: the cases of consume_written and "always".
LEMMA PublishStep ==
    ASSUME StreamTiled, NEW n \in Nat, Publish(n), n <= Len(ends), ~error,
           UNCHANGED <<ends, error>>
    PROVE  Contract!Publish \/ UNCHANGED <<ends, written, error>>
<1>1. /\ written \in Nat /\ Len(ends) \in Nat
  BY DEF StreamTiled, TypeOK, SequenceTypeOK, FileTypeOK
<1>2. CASE n > written
  <2>1. written' = n
    BY <1>1, <1>2 DEF Publish, Greatest
  <2>2. written' \in (written + 1)..Len(ends)
    BY <1>1, <1>2, <2>1
  <2>3. QED BY <2>2 DEF Contract!Publish
<1>3. CASE ~(n > written)
  BY <1>1, <1>3 DEF Publish, Greatest
<1>4. QED BY <1>2, <1>3

\* Every step of the two threads, and a crash, is a step of the contract.
LEMMA ContractStep ==
    ASSUME StreamTiled, [Next]_vars
    PROVE  [Contract!Next]_<<Len(ends), written, error>>
<1> USE DEF Contract!Next, Contract!contractVars
<1> DEFINE Step == [Contract!Next]_<<Len(ends), written, error>>
<1>1. CASE UNCHANGED <<ends, written, error>>
  BY <1>1
<1>2. ends \in Seq(Nat) /\ Len(ends) \in Nat /\ copied \in Nat
  BY DEF StreamTiled, TypeOK, FileTypeOK
<1>3. ASSUME NEW e \in Nat, ends' = Append(ends, e), UNCHANGED <<written, error>>
      PROVE  Contract!Next
  <2>1. Len(ends') = Len(ends) + 1
    BY <1>2, <1>3
  <2>2. QED BY <1>3, <2>1 DEF Contract!Enqueue
<1>4. CASE TransactionCommit
  <2>1. txn.used \in Nat
    BY DEF StreamTiled, TypeOK, BufferTypeOK
  <2>2. /\ ends' = ends \/ ends' = Append(ends, copied + txn.used)
        /\ UNCHANGED <<written, error>>
    BY <1>4 DEF TransactionCommit, seqVars
  <2>3. QED BY <1>1, <1>2, <1>3, <2>1, <2>2
<1>5. CASE CommitAllocFails
  <2>1. Len(ends') = Len(ends) /\ UNCHANGED <<written, error>>
    BY <1>2, <1>5 DEF CommitAllocFails, seqVars
  <2>2. QED BY <2>1
<1>6. CASE FlushPending
  <2>1. pending.used \in Nat
    BY DEF StreamTiled, TypeOK, BufferTypeOK, Buffer
  <2>2. ends' = Append(ends, copied + pending.used) /\ UNCHANGED <<written, error>>
    BY <1>6 DEF FlushPending, seqVars
  <2>3. QED BY <1>2, <1>3, <2>1, <2>2
<1>7. CASE CheckpointBegin
  <2>1. ends' = Append(ends, copied + TokenSize) /\ UNCHANGED <<written, error>>
    BY <1>7 DEF CheckpointBegin, seqVars
  <2>2. QED BY <1>2, <1>3, <2>1, AofAssumption
<1>8. CASE ConsumeWritten
  <2>1. ~error /\ UNCHANGED <<ends, error>>
    BY <1>8 DEF ConsumeWritten, fileVars, StreamTiled, ThreadsAgree
  <2>2. CASE Policy = "always"
    BY <1>1, <1>8, <2>1, <2>2 DEF ConsumeWritten
  <2>3. CASE Policy # "always"
    <3>1. Publish(CompletedSequence)
      BY <1>8, <2>3 DEF ConsumeWritten
    <3>2. CompletedSequence \in Nat /\ CompletedSequence <= Len(ends)
      BY <1>8, CompletedType DEF ConsumeWritten
    <3>3. QED BY <1>1, <2>1, <3>1, <3>2, PublishStep
  <2>4. QED BY <2>2, <2>3
<1>9. CASE PublishAlways
  <2>1. ~error /\ UNCHANGED <<ends, error>> /\ Publish(target)
    BY <1>9 DEF PublishAlways, fileVars, StreamTiled, ThreadsAgree
  <2>2. target \in Nat /\ target <= Len(ends)
    BY DEF StreamTiled, TypeOK, WriterTypeOK, SequencesAssigned
  <2>3. QED BY <1>1, <2>1, <2>2, PublishStep
<1>10. CASE WritevFails
  BY <1>10 DEF WritevFails, fileVars, Contract!Fail
<1>11. CASE WriterSyncDone
  <2>1. UNCHANGED <<ends, written>> /\ (error' = error \/ error' = TRUE)
    BY <1>11 DEF WriterSyncDone
  <2>2. QED BY <1>1, <2>1 DEF Contract!Fail
<1>12. CASE Crash \/ Restart
  <2>1. Len(ends') = 0 /\ written' = 0 /\ error' = FALSE
    BY <1>12 DEF Crash, Restart, ForgetMemory
  <2>2. QED BY <2>1 DEF Contract!Restart
<1>13. CASE CheckpointSyncDone
  BY <1>1, <1>13 DEF CheckpointSyncDone
<1>14. SUFFICES ASSUME ~TransactionCommit, ~CommitAllocFails, ~FlushPending,
                       ~CheckpointBegin, ~ConsumeWritten, ~PublishAlways,
                       ~WritevFails, ~WriterSyncDone, ~Crash, ~Restart,
                       ~CheckpointSyncDone
                PROVE  UNCHANGED <<ends, written, error>>
  BY <1>1, <1>4, <1>5, <1>6, <1>7, <1>8, <1>9, <1>10, <1>11, <1>12, <1>13
<1>15. ASSUME NEW size \in RecordSizes, AofAppend(size)
       PROVE  UNCHANGED <<ends, written, error>>
  BY <1>15 DEF AofAppend, fileVars, seqVars
<1>16. QED
  BY <1>14, <1>15
     DEF Next, ReactorWaits, Writer, vars, fileVars, seqVars, TransactionBegin,
         TransactionRollback, CommitCopy, FlushAllocFails, Flush, FlushReturn,
         CloseBegin, CheckpointQueue, CheckpointWritten, CheckpointSyncStart,
         CheckpointDone, PauseReturn, ResumeAfterFork, CloseStop, CloseJoin,
         WriterPause, WriterResume, WriterStop, WriterGather, WritevChunk,
         WriterSyncStart, WriterTimeout, RestartRefused

\* aof.c implements the contract the Reactor is modelled on.
THEOREM ContractKept == Spec => KeepsContract
<1>1. Init => Contract!Init
  BY DEF Init, Contract!Init
<1>2. QED
  BY <1>1, ContractStep, StreamTiledInvariant, PTL
     DEF Spec, KeepsContract, Contract!Spec, Contract!contractVars

\* Once the error is published no step makes the file longer.
THEOREM ErrorEndsFile == Spec => NoWriteAfterError
<1>1. StreamTiled /\ [Next]_vars => [error => Len(file') <= Len(file)]_vars
  <2> SUFFICES ASSUME StreamTiled, Next, error PROVE Len(file') <= Len(file)
    OBVIOUS
  <2>1. file \in Seq(Nat) /\ Len(file) \in Nat
    BY DEF StreamTiled, TypeOK, FileTypeOK
  <2>2. ASSUME NEW keep \in 0..Len(file), file' = SubSeq(file, 1, keep)
        PROVE  Len(file') <= Len(file)
    BY <2>1, <2>2
  <2>3. wpc # "writev" /\ (syncer = "reactor" => rpc = "ckptSync")
    BY DEF StreamTiled, ThreadsAgree
  <2>4. CASE Crash
    <3>1. PICK keep \in durable..Len(file) : file' = SubSeq(file, 1, keep)
      BY <2>4 DEF Crash
    <3>2. durable \in Nat
      BY DEF StreamTiled, TypeOK, FileTypeOK
    <3>3. QED BY <2>1, <2>2, <3>1, <3>2
  <2>5. CASE Restart
    <3>1. PICK keep \in 0..Len(file) : file' = SubSeq(file, 1, keep)
      BY <2>5, RestartFacts DEF Reopen, StreamTiled
    <3>2. QED BY <2>2, <3>1
  <2>6. SUFFICES ASSUME ~Crash, ~Restart PROVE UNCHANGED file
    BY <2>1, <2>4, <2>5
  <2>7. ASSUME NEW size \in RecordSizes, AofAppend(size) PROVE UNCHANGED file
    BY <2>7 DEF AofAppend, fileVars
  <2>8. QED
    BY <2>3, <2>6, <2>7
       DEF Next, ReactorWaits, Writer, vars, fileVars, TransactionBegin,
           TransactionRollback, TransactionCommit, CommitCopy,
           CommitAllocFails, FlushAllocFails, Flush, FlushPending, FlushReturn,
           CheckpointBegin, CloseBegin, CheckpointQueue, CheckpointWritten,
           CheckpointSyncStart, CheckpointSyncDone, CheckpointDone,
           PauseReturn, ResumeAfterFork, CloseStop, CloseJoin, WriterPause,
           WriterResume, WriterStop, WriterGather, WritevChunk,
           ConsumeWritten, PublishAlways, WriterSyncStart, WriterSyncDone,
           WriterTimeout, WritevFails, RestartRefused
<1>2. QED BY <1>1, StreamTiledInvariant, PTL DEF Spec, NoWriteAfterError

=============================================================================
