---------------------------- MODULE SshPort_proofs ----------------------------
(***************************************************************************)
(* Theorems about SshPort, for every limit, chunk size, amount of output   *)
(* and number of shells.                                                   *)
(***************************************************************************)
EXTENDS SshPort, TLAPS

USE SshAssumption
    DEF shellVars, jobVars, guiVars, readerVars, JobAlive, JobStates

-----------------------------------------------------------------------------
(* Every variable keeps its type: no size becomes negative, although Read  *)
(* subtracts what Available reported in an earlier critical section.       *)
THEOREM TypeCorrect == Spec => []TypeOK
<1>1. Init => TypeOK
  <2>. SUFFICES ASSUME Init  PROVE TypeOK
    OBVIOUS
  <2>1. /\ mShell \in BOOLEAN /\ mRunning \in BOOLEAN /\ mShouldExit \in BOOLEAN
        /\ aborted \in BOOLEAN /\ again \in BOOLEAN
    BY DEF Init
  <2>2. chunk \in 0 .. MaxChunk /\ 0 \in Nat
    BY DEF Init
  <2>. QED  BY <2>1, <2>2 DEF Init, TypeOK
<1>2. TypeOK /\ [Next]_vars => TypeOK'
  <2>. SUFFICES ASSUME TypeOK, [Next]_vars  PROVE TypeOK'
    OBVIOUS
  <2>. USE DEF TypeOK
  <2>1. CASE JobOutput
    BY <2>1 DEF JobOutput
  <2>2. CASE JobTest
    BY <2>2 DEF JobTest
  <2>3. CASE JobBlock
    BY <2>3 DEF JobBlock
  <2>4. CASE JobPut
    BY <2>4 DEF JobPut
  <2>5. CASE JobSpurious
    BY <2>5 DEF JobSpurious
  <2>6. CASE JobEnd
    BY <2>6 DEF JobEnd
  <2>7. CASE Start
    <3>1. /\ mRunning' \in BOOLEAN /\ mShell' \in BOOLEAN /\ aborted' \in BOOLEAN
          /\ mShouldExit' \in BOOLEAN /\ job' \in JobStates
      <4>1. CASE CanStart
        BY <2>7, <4>1 DEF Start
      <4>2. CASE ~CanStart
        BY <2>7, <4>2 DEF Start
      <4>. QED  BY <4>1, <4>2
    <3>2. again' \in BOOLEAN
      BY <2>7 DEF Start
    <3>3. starts' \in Nat
      BY <2>7 DEF Start
    <3>. QED  BY <2>7, <3>1, <3>2, <3>3 DEF Start
  <2>8. CASE ReconnectFailed
    BY <2>8 DEF ReconnectFailed
  <2>9. CASE StopFlag
    BY <2>9 DEF StopFlag
  <2>10. CASE StopNotify
    BY <2>10 DEF StopNotify, Notify
  <2>11. CASE StopAbort
    BY <2>11 DEF StopAbort
  <2>12. CASE StopJoin
    BY <2>12 DEF StopJoin
  <2>13. CASE ReaderStart
    BY <2>13 DEF ReaderStart
  <2>14. CASE ReaderStop
    BY <2>14 DEF ReaderStop
  <2>15. CASE Poll
    BY <2>15 DEF Poll, Available
  <2>16. CASE Read
    BY <2>16 DEF Read, Notify
  <2>17. CASE UNCHANGED vars
    BY <2>17 DEF vars
  <2>. QED
    BY <2>1, <2>2, <2>3, <2>4, <2>5, <2>6, <2>7, <2>8, <2>9, <2>10, <2>11,
       <2>12, <2>13, <2>14, <2>15, <2>16, <2>17
    DEF Next, Job, Stop
<1>. QED  BY <1>1, <1>2, PTL DEF Spec

-----------------------------------------------------------------------------
(* ThreadInv's bound on the buffer is not inductive: it needs what a       *)
(* producer that is about to put knows, that there was room or that it     *)
(* will throw its output away.  It stays true until the put because Read   *)
(* only makes room, and mShouldExit is reset only when there is no job.    *)
PutInv == job = "put" => ~Full \/ mShouldExit

(* mRunning is the life of the job, Stop deletes the shell only without    *)
(* one, mLock is held across the job's steps alone, and mRxBuffer never    *)
(* exceeds its limit by a whole chunk, spurious wake-ups included          *)
(* (SSHPort.cpp 43-81).                                                    *)
THEOREM ThreadsSafe == Spec => []ThreadInv
<1>. DEFINE IInv == ThreadInv /\ PutInv
<1>1. Init => IInv
  BY DEF Init, ThreadInv, PutInv
<1>2. TypeOK /\ IInv /\ [Next]_vars => IInv'
  <2>. SUFFICES ASSUME TypeOK, ThreadInv, PutInv, [Next]_vars
                PROVE  IInv'
    OBVIOUS
  <2>. USE DEF TypeOK, ThreadInv, PutInv, Full
  <2>1. CASE JobOutput
    BY <2>1 DEF JobOutput
  <2>2. CASE JobTest
    BY <2>2 DEF JobTest
  <2>3. CASE JobPut
    <3>1. chunk \in 0 .. MaxChunk /\ size \in Nat
      OBVIOUS
    <3>2. size' < Limit + MaxChunk
      BY <2>3, <3>1 DEF JobPut
    <3>. QED  BY <2>3, <3>2 DEF JobPut
  <2>4. CASE JobBlock \/ JobSpurious \/ JobEnd
    BY <2>4 DEF JobBlock, JobSpurious, JobEnd
  <2>5. CASE Start
    BY <2>5 DEF Start, CanStart
  <2>6. CASE ReconnectFailed \/ StopFlag
    BY <2>6 DEF ReconnectFailed, StopFlag
  <2>7. CASE StopNotify
    BY <2>7 DEF StopNotify, Notify
  <2>8. CASE StopAbort
    BY <2>8 DEF StopAbort
  <2>9. CASE StopJoin
    BY <2>9 DEF StopJoin
  <2>10. CASE ReaderStart \/ ReaderStop \/ Poll
    BY <2>10 DEF ReaderStart, ReaderStop, Poll
  <2>11. CASE Read
    <3>1. size' \in Nat /\ size' <= size
      BY <2>11 DEF Read
    <3>. QED  BY <2>11, <3>1 DEF Read, Notify
  <2>12. CASE UNCHANGED vars
    BY <2>12 DEF vars
  <2>. QED
    BY <2>1, <2>2, <2>3, <2>4, <2>5, <2>6, <2>7, <2>8, <2>9, <2>10, <2>11,
       <2>12
    DEF Next, Job, Stop
<1>. QED  BY <1>1, <1>2, TypeCorrect, PTL DEF Spec

-----------------------------------------------------------------------------
(* What the terminal is about to read is there, because nothing but its    *)
(* own Read takes bytes out, not even Stop.                                *)
WantInv == reader = "read" => want <= size

(* Read returns as many bytes as Available announced in the critical       *)
(* section before: ReadRaw never pads (SSHPort.cpp 95-127).                *)
THEOREM ReadsComplete == Spec => ReadIsNeverShort
<1>1. Init => WantInv
  BY DEF Init, WantInv
<1>2. TypeOK /\ TypeOK' /\ WantInv /\ [Next]_vars => WantInv'
  <2>. SUFFICES ASSUME TypeOK, WantInv, [Next]_vars  PROVE WantInv'
    OBVIOUS
  <2>. USE DEF TypeOK, WantInv
  <2>1. CASE JobPut
    BY <2>1 DEF JobPut
  <2>2. CASE JobOutput \/ JobTest \/ JobBlock \/ JobSpurious \/ JobEnd
    BY <2>2 DEF JobOutput, JobTest, JobBlock, JobSpurious, JobEnd
  <2>3. CASE Start \/ ReconnectFailed \/ StopFlag \/ Stop
    BY <2>3 DEF Start, ReconnectFailed, StopFlag, Stop, StopNotify, StopAbort,
                StopJoin
  <2>4. CASE ReaderStart \/ ReaderStop \/ Poll \/ Read
    BY <2>4 DEF ReaderStart, ReaderStop, Poll, Read, Available
  <2>5. CASE UNCHANGED vars
    BY <2>5 DEF vars
  <2>. QED  BY <2>1, <2>2, <2>3, <2>4, <2>5 DEF Next, Job
<1>3. TypeOK /\ WantInv => [Read => nread' = nread + want]_vars
  BY DEF TypeOK, WantInv, Read
<1>. QED  BY <1>1, <1>2, <1>3, TypeCorrect, PTL DEF Spec, ReadIsNeverShort
=============================================================================
