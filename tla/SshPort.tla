------------------------------- MODULE SshPort -------------------------------
(***************************************************************************)
(* comxd/ioimpls/SSHPort.cpp: the SSH device.  A job thread runs the shell *)
(* and hands its output to WhenOutput, which fills mRxBuffer and waits on  *)
(* mCondWrite while the buffer is full; the terminal's thread drains it    *)
(* with Available and Read; the GUI thread starts and stops the whole.     *)
(*                                                                         *)
(* Only the number of bytes in mRxBuffer matters here: it is filled at one *)
(* end and drained at the other under mLock.  The shell (Upp::SshShell) is *)
(* external: it may produce output, end by itself, and ends once aborted.  *)
(***************************************************************************)
EXTENDS Integers

CONSTANTS Limit,      (* size at which the producer waits, 8192 in the code *)
          MaxChunk,   (* most bytes the shell hands out at once             *)
          MaxOutput,  (* bytes the shell hands out in a behaviour (a bound) *)
          MaxStarts   (* shells created in a behaviour (a bound)            *)

ASSUME SshAssumption == /\ Limit \in Nat \ {0}
                        /\ MaxChunk \in Nat \ {0}
                        /\ MaxOutput \in Nat
                        /\ MaxStarts \in Nat

VARIABLES
  mShell,       (* TRUE when the shell exists                              *)
  mRunning,
  mShouldExit,
  aborted,      (* mShell->Abort() was called: Run returns when it can     *)
  job,          (* mJob, see JobStates                                     *)
  chunk,        (* out_len of the WhenOutput call in progress              *)
  lock,         (* mLock: "free", or "job" across the job's steps          *)
  size,         (* mRxBuffer.size()                                        *)
  gui,          (* GUI thread: where in Stop or Reconnect                  *)
  again,        (* TRUE in a Reconnect, which starts again after Stop      *)
  reader,       (* terminal thread                                         *)
  want,         (* the size Available reported to it                       *)
  nread,        (* history: bytes Read returned                            *)
  output,       (* history: bytes the shell handed out                     *)
  starts        (* history: shells created                                 *)

shellVars == <<mShell, aborted, starts>>
jobVars == <<job, chunk, output>>
guiVars == <<gui, again>>
readerVars == <<reader, want, nread>>
vars == <<mShell, mRunning, mShouldExit, aborted, job, chunk, lock, size,
          gui, again, reader, want, nread, output, starts>>

(* "none": not joinable.  "run": in mShell->Run, between two outputs.      *)
(* "enter": in WhenOutput, about to lock or to lock again after a wake-up. *)
(* "put": lock held, predicate true.  "block": lock held, predicate false. *)
(* "wait": asleep on mCondWrite.  "ended": returned, joinable.             *)
JobAlive == {"run", "enter", "put", "block", "wait"}
JobStates == {"none", "ended"} \cup JobAlive

Init == /\ mShell = FALSE /\ mRunning = FALSE /\ mShouldExit = FALSE
        /\ aborted = FALSE /\ starts = 0
        /\ job = "none" /\ chunk = 0 /\ output = 0
        /\ lock = "free" /\ size = 0
        /\ gui = "fresh" /\ again = FALSE
        /\ reader = "off" /\ want = 0 /\ nread = 0

-----------------------------------------------------------------------------
(* The job: mShell->Run and its WhenOutput callback. *)

Full == size >= Limit

(* WhenOutput is called; it drops the output of a shell told to exit. *)
JobOutput == /\ job = "run"
             /\ \E n \in 1 .. MaxChunk :
                  /\ output + n <= MaxOutput
                  /\ output' = output + n
                  /\ IF mShouldExit THEN UNCHANGED <<job, chunk>>
                                    ELSE job' = "enter" /\ chunk' = n
             /\ UNCHANGED <<shellVars, mRunning, mShouldExit, lock, size,
                            guiVars, readerVars>>

JobTest_IgnoresLimit ==
           /\ job = "enter"
           /\ lock = "free"
           /\ lock' = "job"
           /\ job' = "put"
           /\ UNCHANGED <<shellVars, mRunning, mShouldExit, chunk, output,
                          size, guiVars, readerVars>>

(* The lock is taken and the predicate of mCondWrite.wait evaluated. *)
JobTest == /\ job = "enter"
           /\ lock = "free"
           /\ lock' = "job"
           /\ job' = IF ~Full \/ mShouldExit THEN "put" ELSE "block"
           /\ UNCHANGED <<shellVars, mRunning, mShouldExit, chunk, output,
                          size, guiVars, readerVars>>

(* The predicate was false: release the lock and fall asleep, in one step. *)
JobBlock == /\ job = "block"
            /\ job' = "wait"
            /\ lock' = "free"
            /\ UNCHANGED <<shellVars, mRunning, mShouldExit, chunk, output,
                           size, guiVars, readerVars>>

(* Condition variables may wake without a notification. *)
JobSpurious == /\ job = "wait"
               /\ job' = "enter"
               /\ UNCHANGED <<shellVars, mRunning, mShouldExit, chunk, output,
                              lock, size, guiVars, readerVars>>

(* mShouldExit, read again, decides whether the output is kept. *)
JobPut == /\ job = "put"
          /\ size' = IF mShouldExit THEN size ELSE size + chunk
          /\ chunk' = 0
          /\ lock' = "free"
          /\ job' = "run"
          /\ UNCHANGED <<shellVars, mRunning, mShouldExit, output, guiVars,
                         readerVars>>

JobEnd_LeavesRunning ==
          /\ job = "run"
          /\ job' = "ended"
          /\ UNCHANGED <<shellVars, mRunning, mShouldExit, chunk, output, lock,
                         size, guiVars, readerVars>>

(* Run returns, because it was aborted or the remote side ended the shell, *)
(* and the job clears mRunning.                                            *)
JobEnd == /\ job = "run"
          /\ job' = "ended"
          /\ mRunning' = FALSE
          /\ UNCHANGED <<shellVars, mShouldExit, chunk, output, lock, size,
                         guiVars, readerVars>>

-----------------------------------------------------------------------------
(* The GUI thread. *)

Notify == job' = IF job = "wait" THEN "enter" ELSE job

CanStart == ~mRunning /\ job = "none" /\ ~mShell

(* Start, after SSHDevsDialog connected the session: it does nothing when *)
(* a shell is there.                                                      *)
Start == /\ gui \in {"fresh", "connect"}
         /\ starts < MaxStarts
         /\ starts' = starts + 1
         /\ IF CanStart
            THEN /\ mRunning' = TRUE
                 /\ mShell' = TRUE
                 /\ aborted' = FALSE
                 /\ mShouldExit' = FALSE
                 /\ job' = "run"
            ELSE UNCHANGED <<mRunning, mShell, aborted, mShouldExit, job>>
         /\ gui' = "idle"
         /\ again' = FALSE
         /\ UNCHANGED <<chunk, output, lock, size, readerVars>>

(* The session could not be connected: Reconnect returns false. *)
ReconnectFailed == /\ gui = "connect"
                   /\ gui' = "idle"
                   /\ again' = FALSE
                   /\ UNCHANGED <<shellVars, mRunning, mShouldExit, jobVars,
                                  lock, size, readerVars>>

(* Stop with a shell raises mShouldExit first, without mLock; without a    *)
(* shell it does nothing.  The terminal was stopped before (main.cpp).     *)
StopFlag == /\ gui = "idle"
            /\ reader = "off"
            /\ again' \in BOOLEAN
            /\ IF mShell THEN mShouldExit' = TRUE /\ gui' = "notify"
                         ELSE /\ UNCHANGED mShouldExit
                              /\ gui' = IF again' THEN "connect" ELSE "idle"
            /\ UNCHANGED <<shellVars, mRunning, jobVars, lock, size,
                           readerVars>>

(* mCondWrite.notify_all(), also without mLock. *)
StopNotify == /\ gui = "notify"
              /\ gui' = "abort"
              /\ Notify
              /\ UNCHANGED <<shellVars, mRunning, mShouldExit, chunk, output,
                             lock, size, again, readerVars>>

StopAbort_NotCalled ==
             /\ gui = "abort"
             /\ gui' = "join"
             /\ UNCHANGED <<shellVars, mRunning, mShouldExit, jobVars, lock,
                            size, again, readerVars>>

(* mShell->Timeout(200), Abort(), Close(). *)
StopAbort == /\ gui = "abort"
             /\ gui' = "join"
             /\ aborted' = TRUE
             /\ UNCHANGED <<mShell, starts, mRunning, mShouldExit, jobVars,
                            lock, size, again, readerVars>>

StopJoin_NoJoin ==
            /\ gui = "join"
            /\ mShell' = FALSE
            /\ gui' = IF again THEN "connect" ELSE "idle"
            /\ UNCHANGED <<aborted, starts, mRunning, mShouldExit, jobVars,
                           lock, size, again, readerVars>>

(* mJob.join(), delete mShell, and the session is disconnected. *)
StopJoin == /\ gui = "join"
            /\ job \in {"none", "ended"}
            /\ job' = "none"
            /\ mShell' = FALSE
            /\ gui' = IF again THEN "connect" ELSE "idle"
            /\ UNCHANGED <<aborted, starts, mRunning, mShouldExit, chunk,
                           output, lock, size, again, readerVars>>

-----------------------------------------------------------------------------
(* The terminal's thread. *)

Available == IF job = "none" \/ ~mShell \/ ~mRunning THEN -1 ELSE size

(* The terminal starts after the device and stops between two rounds. *)
ReaderStart == /\ gui = "idle"
               /\ reader = "off"
               /\ reader' = "poll"
               /\ UNCHANGED <<shellVars, mRunning, mShouldExit, jobVars, lock,
                              size, guiVars, want, nread>>

ReaderStop == /\ gui = "idle"
              /\ reader \in {"poll", "dead"}
              /\ reader' = "off"
              /\ UNCHANGED <<shellVars, mRunning, mShouldExit, jobVars, lock,
                             size, guiVars, want, nread>>

(* Available takes mLock for the size; -1 ends the terminal's thread. *)
Poll == /\ reader = "poll"
        /\ \/ /\ Available < 0
              /\ reader' = "dead"
              /\ UNCHANGED want
           \/ /\ Available > 0
              /\ lock = "free"
              /\ reader' = "read"
              /\ want' = Available
        /\ UNCHANGED <<shellVars, mRunning, mShouldExit, jobVars, lock, size,
                       guiVars, nread>>

Read_TakesChunk ==
        /\ reader = "read"
        /\ lock = "free"
        /\ nread' = nread + MaxChunk /\ size' = size - MaxChunk
        /\ Notify
        /\ want' = 0
        /\ reader' = "poll"
        /\ UNCHANGED <<shellVars, mRunning, mShouldExit, chunk, output, lock,
                       guiVars>>

Read_NoNotify ==
        /\ reader = "read"
        /\ lock = "free"
        /\ LET minsz == IF want <= size THEN want ELSE size
           IN  nread' = nread + minsz /\ size' = size - minsz
        /\ want' = 0
        /\ reader' = "poll"
        /\ UNCHANGED <<shellVars, mRunning, mShouldExit, jobVars, lock,
                       guiVars>>

Read_Drains ==
        /\ reader = "read"
        /\ lock = "free"
        /\ nread' = nread + size /\ size' = 0
        /\ Notify
        /\ want' = 0
        /\ reader' = "poll"
        /\ UNCHANGED <<shellVars, mRunning, mShouldExit, chunk, output, lock,
                       guiVars>>

(* Read takes at most what was asked for and notifies the producer; the    *)
(* 50 ms it would wait for an empty buffer return 0.                       *)
Read == /\ reader = "read"
        /\ lock = "free"
        /\ LET minsz == IF want <= size THEN want ELSE size
           IN  /\ nread' = nread + minsz
               /\ size' = size - minsz
               /\ IF minsz > 0 THEN Notify ELSE UNCHANGED job
        /\ want' = 0
        /\ reader' = "poll"
        /\ UNCHANGED <<shellVars, mRunning, mShouldExit, chunk, output, lock,
                       guiVars>>

-----------------------------------------------------------------------------
Job == JobTest \/ JobBlock \/ JobPut
Stop == StopNotify \/ StopAbort \/ StopJoin

Next == \/ JobOutput \/ Job \/ JobSpurious \/ JobEnd
        \/ Start \/ ReconnectFailed \/ StopFlag \/ Stop
        \/ ReaderStart \/ ReaderStop \/ Poll \/ Read

Spec == Init /\ [][Next]_vars

(* Threads are scheduled and mLock is handed over; an aborted shell        *)
(* returns.  Nothing obliges the shell to speak, the user to act, or a     *)
(* condition variable to wake by itself.                                   *)
Fairness == /\ SF_vars(Job)
            /\ WF_vars(aborted /\ JobEnd)
            /\ WF_vars(Stop)
            /\ WF_vars(Poll)
            /\ SF_vars(Poll /\ reader' = "read")
            /\ SF_vars(Read)

FairSpec == Spec /\ Fairness

-----------------------------------------------------------------------------
(* Every variable keeps its type; sizes are never negative. *)
TypeOK == /\ mShell \in BOOLEAN /\ mRunning \in BOOLEAN
          /\ mShouldExit \in BOOLEAN /\ aborted \in BOOLEAN /\ again \in BOOLEAN
          /\ job \in JobStates
          /\ chunk \in 0 .. MaxChunk
          /\ lock \in {"free", "job"}
          /\ gui \in {"fresh", "idle", "notify", "abort", "join", "connect"}
          /\ reader \in {"off", "poll", "read", "dead"}
          /\ size \in Nat /\ want \in Nat /\ nread \in Nat
          /\ output \in Nat /\ starts \in Nat

(* mRunning follows the job, the shell outlives the job that runs it (Stop *)
(* deletes it only after the join), and mLock is held across steps by the  *)
(* job alone.  The producer stops adding once Limit is reached, so that the *)
(* buffer exceeds it by less than one chunk (SSHPort.cpp 43-81, 95-109).    *)
ThreadInv == /\ mRunning <=> job \in JobAlive
             /\ job # "none" => mShell
             /\ lock = "job" <=> job \in {"put", "block"}
             /\ gui \in {"notify", "abort", "join"} => mShell /\ mShouldExit
             /\ size < Limit + MaxChunk

(* ReadRaw(n) pads with zeros what Read did not return, so the terminal    *)
(* must find what Available reported, polled in another critical section.  *)
ReadIsNeverShort == [][Read => nread' = nread + want]_vars

(* A producer waiting for room is woken as long as the terminal reads.     *)
ProducerResumes == job = "wait" ~> job # "wait" \/ reader \in {"off", "dead"}

(* Stop of a port whose buffer is not full returns, whatever the shell is  *)
(* doing: the job sees mShouldExit before it can fall asleep.              *)
StopReturnsWithRoom ==
  (gui = "notify" /\ ~Full) ~> gui \in {"idle", "connect"}

(* The terminal of a shell that ended is told so. *)
EndIsReported ==
  (job = "ended" /\ reader \in {"poll", "read"}) ~> reader \in {"dead", "off"}

(* VERSION.txt 4 lists "SSH will block forever on exitting tab" among what *)
(* V2.2.2a repaired: Stop, once begun, returns.                            *)
StopReturns == gui = "notify" ~> gui \in {"idle", "connect"}
=============================================================================
