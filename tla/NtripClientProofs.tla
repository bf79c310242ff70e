-------------------------- MODULE NtripClientProofs --------------------------
(***************************************************************************)
(* Safety of the NTRIP client's two threads for every set of parameters,   *)
(* every batch, any number of fixes and of calls, and every record count.  *)
(***************************************************************************)
EXTENDS NtripClient, SequenceTheorems, TLAPS

\* The thread that is inside a critical section of params_mutex_ holds it.
ParamsLock ==
    /\ params_mutex = "stream" <=> streamPc \in {"copy", "header", "clear_flag"}
    /\ params_mutex = "exec" <=> execPc = "setting"

\* A reconfigure is announced until it is finished.
ReconfigureAnnounced ==
    streamPc \in {"lock", "copy", "header", "clear_flag"} => reconfigure_needed

\* What no failed call has touched is as the last successful call left it.
OnlySpoiledDiffer == \A p \in Param \ spoiled : pending[p] = accepted[p]

\* desired_count_reached_ is about the request that has just returned.
CountReachedMeansWriteError ==
    /\ streamPc = "perform" => desired_count_reached = FALSE
    /\ streamPc = "load_flag" /\ desired_count_reached = TRUE => res = "write_error"

\* A reconfigure that is under way agrees with pending_*, which no call changes
\* while the streaming thread holds params_mutex_.
CopiedAgree ==
    /\ streamPc = "copy" => \A p \in copied : active[p] = pending[p]
    /\ streamPc \in {"header", "clear_flag"} => handle.params = pending

\* pending_* changes only inside a call.
SettledPending == execPc # "setting" => pending \in left

\* Between the failure and the next request lies the back-off or a reconfigure.
OwedUntilBackOff ==
    owed => /\ streamPc \in {"load_flag", "backoff", "lock", "copy", "header", "clear_flag"}
            /\ streamPc = "load_flag" => res = "failed"

\* The inductive invariant.
IInv ==
    /\ TypeOK
    /\ ParamsLock
    /\ ReconfigureAnnounced
    /\ OnlySpoiledDiffer
    /\ CountReachedMeansWriteError
    /\ CopiedAgree
    /\ SettledPending
    /\ SnapshotIsWhole
    /\ AcceptedParamsInForce
    /\ HeaderNotFreedInUse
    /\ OwedUntilBackOff

USE DEF execVars, history, streamVars, streamOnly

-----------------------------------------------------------------------------
(* The type invariant *)

\* The constructor leaves every member in its type.
LEMMA InitTypeOK == Init => TypeOK
<1> SUFFICES ASSUME Init PROVE TypeOK
  OBVIOUS
<1>1. record_count \in 0..(DesiredCount - 1)
  BY BoundAssumption DEF Init
<1>2. batch \in Seq(Param \X Value)
  BY DEF Init
<1> QED
  BY <1>1, <1>2, ParamAssumption DEF Init, TypeOK, StreamPcs, ExecPcs

\* Actions of the executor thread keep the types.
LEMMA ExecutorTypeOK == TypeOK /\ Executor => TypeOK'
<1> SUFFICES ASSUME TypeOK, Executor PROVE TypeOK'
  OBVIOUS
<1> USE DEF TypeOK, StreamPcs, ExecPcs
<1>1. CASE FixArrives
  BY <1>1 DEF FixArrives
<1>2. CASE ForceReconnect
  BY <1>2 DEF ForceReconnect
<1>3. CASE RefreshTimer
  BY <1>3 DEF RefreshTimer
<1>4. CASE SetParameters
  <2>1. batch' \in Seq(Param \X Value)
    BY <1>4, ParamAssumption DEF SetParameters
  <2> QED
    BY <1>4, <2>1 DEF SetParameters
<1>5. CASE SetOne
  <2>1. Head(batch) \in Param \X Value /\ Tail(batch) \in Seq(Param \X Value)
    BY <1>5, HeadTailProperties DEF SetOne
  <2>2. Head(batch)[1] \in Param /\ Head(batch)[2] \in Value
    BY <2>1
  <2>3. pending' \in [Param -> Value]
    BY <1>5, <2>2 DEF SetOne
  <2>4. spoiled' \in SUBSET Param
    BY <1>5, <2>2 DEF SetOne
  <2> QED
    BY <1>5, <2>1, <2>3, <2>4 DEF SetOne
<1>6. CASE RefuseBatch
  <2>1. batch' \in Seq(Param \X Value)
    BY <1>6 DEF RefuseBatch
  <2> QED
    BY <1>6, <2>1 DEF RefuseBatch
<1>7. CASE AcceptBatch
  BY <1>7 DEF AcceptBatch
<1>8. CASE Shutdown
  BY <1>8 DEF Shutdown
<1>9. CASE Join
  BY <1>9 DEF Join
<1> QED
  BY <1>1, <1>2, <1>3, <1>4, <1>5, <1>6, <1>7, <1>8, <1>9 DEF Executor, Serving

\* Actions of the caster and of the streaming thread keep them too.
LEMMA StreamingTypeOK == TypeOK /\ (Caster \/ Streaming) => TypeOK'
<1> SUFFICES ASSUME TypeOK, Caster \/ Streaming PROVE TypeOK'
  OBVIOUS
<1> USE DEF TypeOK, StreamPcs, ExecPcs
<1>1. CASE Record
  <2>1. record_count' \in 0..(DesiredCount - 1)
    BY <1>1, BoundAssumption DEF Record, CountReached
  <2> QED
    BY <1>1, <2>1 DEF Record
<1>2. CASE LastRecord
  <2>1. record_count' \in 0..(DesiredCount - 1)
    BY <1>2, BoundAssumption DEF LastRecord
  <2> QED
    BY <1>2, <2>1 DEF LastRecord
<1>3. CASE RequestEnds
  BY <1>3 DEF RequestEnds
<1>4. CASE Exit
  BY <1>4 DEF Exit
<1>5. CASE Connect
  BY <1>5 DEF Connect
<1>6. CASE NextRequest
  <2>1. streamPc' \in StreamPcs
    BY <1>6 DEF NextRequest
  <2> QED
    BY <1>6, <2>1 DEF NextRequest
<1>7. CASE WakeUp
  BY <1>7 DEF WakeUp
<1>8. CASE Reconfigure
  BY <1>8 DEF Reconfigure
<1>9. CASE LockParams
  BY <1>9 DEF LockParams
<1>10. CASE CopyOne
  <2>1. PICK p \in Param \ copied : /\ active' = [active EXCEPT ![p] = pending[p]]
                                    /\ copied' = copied \cup {p}
    BY <1>10 DEF CopyOne
  <2>2. active' \in [Param -> Value] /\ copied' \in SUBSET Param
    BY <2>1
  <2> QED
    BY <1>10, <2>2 DEF CopyOne
<1>11. CASE ApplyParams
  BY <1>11 DEF ApplyParams
<1>12. CASE ApplyHeader
  BY ZenonT(30), <1>12 DEF ApplyHeader
<1>13. CASE ClearFlag
  BY <1>13 DEF ClearFlag
<1> QED
  BY <1>1, <1>2, <1>3, <1>4, <1>5, <1>6, <1>7, <1>8, <1>9, <1>10, <1>11, <1>12, <1>13
  DEF Caster, Streaming

\* Nothing changes in a stuttering step or after the end.
LEMMA StutterKeepsIInv == IInv /\ (UNCHANGED vars \/ Terminated) => IInv'
<1> SUFFICES ASSUME IInv, UNCHANGED vars PROVE IInv'
  BY DEF Terminated
<1>1. TypeOK'
  BY DEF IInv, TypeOK, vars
<1>2. ParamsLock' /\ ReconfigureAnnounced' /\ OnlySpoiledDiffer' /\ CountReachedMeansWriteError'
  BY DEF IInv, ParamsLock, ReconfigureAnnounced, OnlySpoiledDiffer,
         CountReachedMeansWriteError, vars
<1>3. CopiedAgree' /\ SettledPending'
  BY DEF IInv, CopiedAgree, SettledPending, vars
<1>4. SnapshotIsWhole' /\ AcceptedParamsInForce'
  BY DEF IInv, SnapshotIsWhole, AcceptedParamsInForce, vars
<1>5. HeaderNotFreedInUse' /\ OwedUntilBackOff'
  BY DEF IInv, HeaderNotFreedInUse, OwedUntilBackOff, vars
<1> QED
  BY <1>1, <1>2, <1>3, <1>4, <1>5 DEF IInv

-----------------------------------------------------------------------------
(* The two critical sections of params_mutex_ exclude each other *)

\* params_mutex_ is taken on entering a critical section and released on leaving it.
LEMMA ParamsLockStep == IInv /\ (Executor \/ Caster \/ Streaming) => ParamsLock'
<1> SUFFICES ASSUME IInv, Executor \/ Caster \/ Streaming PROVE ParamsLock'
  OBVIOUS
<1> USE DEF ParamsLock, IInv
\* actions that take or release the lock...
<1>1. CASE SetParameters
  BY <1>1 DEF SetParameters
<1>2. CASE RefuseBatch \/ AcceptBatch
  BY <1>2 DEF RefuseBatch, AcceptBatch
<1>3. CASE LockParams
  BY <1>3 DEF LockParams
<1>4. CASE ClearFlag
  BY <1>4 DEF ClearFlag
\* ...that run inside a critical section, and that run outside
<1>5. CASE SetOne
  BY <1>5 DEF SetOne
<1>6. CASE CopyOne \/ ApplyParams \/ ApplyHeader
  BY <1>6 DEF CopyOne, ApplyParams, ApplyHeader
<1>7. CASE FixArrives \/ ForceReconnect \/ RefreshTimer \/ Shutdown \/ Join
  BY <1>7 DEF FixArrives, ForceReconnect, RefreshTimer, Shutdown, Join
<1>8. CASE Caster
  BY <1>8 DEF Caster, Record, LastRecord, RequestEnds
<1>9. CASE Exit \/ Connect \/ NextRequest \/ WakeUp \/ Reconfigure
  BY <1>9 DEF Exit, Connect, NextRequest, WakeUp, Reconfigure
<1> QED
  BY <1>1, <1>2, <1>3, <1>4, <1>5, <1>6, <1>7, <1>8, <1>9
  DEF Executor, Serving, Streaming

\* Only the streaming thread, at the end of a reconfigure, takes the flag back.
LEMMA AnnouncedStep == IInv /\ (Executor \/ Caster \/ Streaming) => ReconfigureAnnounced'
<1> SUFFICES ASSUME IInv, Executor \/ Caster \/ Streaming PROVE ReconfigureAnnounced'
  OBVIOUS
<1> USE DEF ReconfigureAnnounced, IInv
<1>1. CASE Executor
  BY <1>1 DEF Executor, Serving, FixArrives, ForceReconnect, RefreshTimer, SetParameters,
              SetOne, RefuseBatch, AcceptBatch, Shutdown, Join
<1>2. CASE Caster
  BY <1>2 DEF Caster, Record, LastRecord, RequestEnds
<1>3. CASE Reconfigure
  BY <1>3 DEF Reconfigure, FlagSeen
<1>4. CASE LockParams \/ CopyOne \/ ApplyParams \/ ApplyHeader
  BY <1>4 DEF LockParams, CopyOne, ApplyParams, ApplyHeader
<1>5. CASE ClearFlag
  BY <1>5 DEF ClearFlag
<1>6. CASE Exit \/ Connect \/ NextRequest \/ WakeUp
  BY <1>6 DEF Exit, Connect, NextRequest, WakeUp
<1> QED
  BY <1>1, <1>2, <1>3, <1>4, <1>5, <1>6 DEF Streaming

-----------------------------------------------------------------------------
(* The parameters *)

\* A call writes one parameter at a time, and spoils it until it succeeds.
LEMMA OnlySpoiledDifferStep ==
    IInv /\ (Executor \/ Caster \/ Streaming) => OnlySpoiledDiffer'
<1> SUFFICES ASSUME IInv, Executor \/ Caster \/ Streaming PROVE OnlySpoiledDiffer'
  OBVIOUS
<1> USE DEF OnlySpoiledDiffer, IInv
<1>1. CASE SetOne
  <2>1. pending \in [Param -> Value]
    BY DEF TypeOK
  <2>2. \A p \in Param : p # Head(batch)[1] => pending'[p] = pending[p]
    BY <1>1, <2>1 DEF SetOne
  <2>3. accepted' = accepted /\ spoiled' = spoiled \cup {Head(batch)[1]}
    BY <1>1 DEF SetOne
  <2> QED
    BY <2>2, <2>3
<1>2. CASE AcceptBatch
  BY <1>2 DEF AcceptBatch
<1>3. CASE ~ (SetOne \/ AcceptBatch)
  <2>1. pending' = pending /\ accepted' = accepted /\ spoiled' = spoiled
    <3>1. CASE Executor
      BY <1>3, <3>1 DEF Executor, Serving, FixArrives, ForceReconnect, RefreshTimer,
                        SetParameters, RefuseBatch, Shutdown, Join
    <3>2. CASE Caster
      BY <3>2 DEF Caster, Record, LastRecord, RequestEnds
    <3>3. CASE Streaming
      BY <3>3 DEF Streaming, Exit, Connect, NextRequest, WakeUp, Reconfigure, LockParams,
                  CopyOne, ApplyParams, ApplyHeader, ClearFlag
    <3> QED
      BY <3>1, <3>2, <3>3
  <2> QED
    BY <2>1
<1> QED
  BY <1>1, <1>2, <1>3

\* pending_* cannot change under a reconfigure, which holds params_mutex_.
LEMMA CopiedAgreeStep == IInv /\ (Executor \/ Caster \/ Streaming) => CopiedAgree'
<1> SUFFICES ASSUME IInv, Executor \/ Caster \/ Streaming PROVE CopiedAgree'
  OBVIOUS
<1> USE DEF CopiedAgree, IInv
<1>1. CASE SetOne
  <2>1. streamPc \notin {"copy", "header", "clear_flag"} /\ streamPc' = streamPc
    BY <1>1 DEF SetOne, ParamsLock
  <2> QED
    BY <2>1
<1>2. CASE Executor /\ ~ SetOne
  BY <1>2 DEF Executor, Serving, FixArrives, ForceReconnect, RefreshTimer, SetParameters,
              RefuseBatch, AcceptBatch, Shutdown, Join
<1>3. CASE LockParams
  BY <1>3 DEF LockParams
<1>4. CASE CopyOne
  <2>1. PICK p \in Param \ copied : /\ active' = [active EXCEPT ![p] = pending[p]]
                                    /\ copied' = copied \cup {p}
    BY <1>4 DEF CopyOne
  <2>2. streamPc = "copy" /\ streamPc' = "copy" /\ pending' = pending
    BY <1>4 DEF CopyOne
  <2>3. active \in [Param -> Value] /\ copied \in SUBSET Param
    BY DEF TypeOK
  <2>4. \A q \in copied' : active'[q] = pending[q]
    BY <2>1, <2>2, <2>3
  <2> QED
    BY <2>2, <2>4
<1>5. CASE ApplyParams
  <2>1. \A p \in Param : active[p] = pending[p]
    BY <1>5 DEF ApplyParams
  <2>2. active \in [Param -> Value] /\ pending \in [Param -> Value]
    BY DEF TypeOK
  <2>3. active = pending
    BY <2>1, <2>2
  <2>4. handle \in [params : [Param -> Value], gga : Nat]
    BY DEF TypeOK
  <2>5. handle'.params = active
    BY <1>5, <2>4 DEF ApplyParams
  <2>6. streamPc' = "header" /\ active' = active /\ pending' = pending
    BY <1>5 DEF ApplyParams
  <2> QED
    BY <2>3, <2>5, <2>6
<1>6. CASE ApplyHeader
  <2>1. handle \in [params : [Param -> Value], gga : Nat]
    BY DEF TypeOK
  <2>2. handle'.params = handle.params
    BY <1>6, <2>1 DEF ApplyHeader
  <2> QED
    BY <1>6, <2>2 DEF ApplyHeader
<1>7. CASE Caster
  BY <1>7 DEF Caster, Record, LastRecord, RequestEnds
<1>8. CASE Exit \/ Connect \/ NextRequest \/ WakeUp \/ Reconfigure \/ ClearFlag
  BY <1>8 DEF Exit, Connect, NextRequest, WakeUp, Reconfigure, ClearFlag
<1> QED
  BY <1>1, <1>2, <1>3, <1>4, <1>5, <1>6, <1>7, <1>8 DEF Streaming

\* A call, accepted or refused, ends with pending_* as it leaves it.
LEMMA SettledStep == IInv /\ (Executor \/ Caster \/ Streaming) => SettledPending'
<1> SUFFICES ASSUME IInv, Executor \/ Caster \/ Streaming PROVE SettledPending'
  OBVIOUS
<1> USE DEF SettledPending, IInv
<1>1. CASE SetOne
  BY <1>1 DEF SetOne
<1>2. CASE SetParameters
  BY <1>2 DEF SetParameters
<1>3. CASE RefuseBatch \/ AcceptBatch
  BY <1>3 DEF RefuseBatch, AcceptBatch
<1>4. CASE FixArrives \/ ForceReconnect \/ RefreshTimer \/ Shutdown \/ Join
  BY <1>4 DEF FixArrives, ForceReconnect, RefreshTimer, Shutdown, Join
<1>5. CASE Caster
  BY <1>5 DEF Caster, Record, LastRecord, RequestEnds
<1>6. CASE Streaming
  BY <1>6 DEF Streaming, Exit, Connect, NextRequest, WakeUp, Reconfigure, LockParams,
              CopyOne, ApplyParams, ApplyHeader, ClearFlag
<1> QED
  BY <1>1, <1>2, <1>3, <1>4, <1>5, <1>6 DEF Executor, Serving

\* The options change only under params_mutex_, when no call is being served,
\* and then to pending_*.
LEMMA SnapshotStep == IInv /\ (Executor \/ Caster \/ Streaming) => SnapshotIsWhole'
<1> SUFFICES ASSUME IInv, Executor \/ Caster \/ Streaming PROVE SnapshotIsWhole'
  OBVIOUS
<1> USE DEF SnapshotIsWhole, IInv
<1>1. handle \in [params : [Param -> Value], gga : Nat]
  BY DEF TypeOK
<1>2. CASE ApplyParams
  <2>1. \A p \in Param : active[p] = pending[p]
    BY <1>2 DEF ApplyParams, CopiedAgree
  <2>2. active = pending
    BY <2>1 DEF TypeOK
  <2>3. handle'.params = active /\ left' = left
    BY <1>1, <1>2 DEF ApplyParams
  <2>4. execPc # "setting"
    BY <1>2 DEF ApplyParams, ParamsLock
  <2> QED
    BY <2>2, <2>3, <2>4 DEF SettledPending
<1>3. CASE ApplyHeader
  BY <1>1, <1>3 DEF ApplyHeader
<1>4. CASE Executor
  BY <1>4 DEF Executor, Serving, FixArrives, ForceReconnect, RefreshTimer, SetParameters,
              SetOne, RefuseBatch, AcceptBatch, Shutdown, Join
<1>5. CASE Caster
  BY <1>5 DEF Caster, Record, LastRecord, RequestEnds
<1>6. CASE Exit \/ Connect \/ NextRequest \/ WakeUp \/ Reconfigure \/ LockParams \/ CopyOne
             \/ ClearFlag
  BY <1>6 DEF Exit, Connect, NextRequest, WakeUp, Reconfigure, LockParams, CopyOne, ClearFlag
<1> QED
  BY <1>2, <1>3, <1>4, <1>5, <1>6 DEF Streaming

\* What a reconfigure leaves in force is what the calls asked for.
LEMMA AcceptedStep == IInv /\ (Executor \/ Caster \/ Streaming) => AcceptedParamsInForce'
<1> SUFFICES ASSUME IInv, Executor \/ Caster \/ Streaming,
                    ~ reconfigure_needed'
             PROVE  \A p \in Param \ spoiled' : handle'.params[p] = accepted'[p]
  BY DEF AcceptedParamsInForce
<1> USE DEF AcceptedParamsInForce, IInv
\* the flag is cleared: the snapshot that was applied is pending_* as it is now
<1>1. CASE ClearFlag
  <2>1. handle.params = pending
    BY <1>1 DEF ClearFlag, CopiedAgree
  <2>2. handle' = handle /\ spoiled' = spoiled /\ accepted' = accepted
    BY <1>1 DEF ClearFlag
  <2> QED
    BY <2>1, <2>2 DEF OnlySpoiledDiffer
\* the flag was clear before: the options of the handle have not changed
<1>2. CASE ~ ClearFlag
  <2>1. ~ reconfigure_needed /\ handle' = handle
    <3>1. CASE Executor
      BY <3>1 DEF Executor, Serving, FixArrives, ForceReconnect, RefreshTimer, SetParameters,
                  SetOne, RefuseBatch, AcceptBatch, Shutdown, Join
    <3>2. CASE Caster
      BY <3>2 DEF Caster, Record, LastRecord, RequestEnds
    <3>3. CASE Exit \/ Connect \/ NextRequest \/ WakeUp \/ Reconfigure \/ LockParams \/ CopyOne
      BY <3>3 DEF Exit, Connect, NextRequest, WakeUp, Reconfigure, LockParams, CopyOne
    <3>4. CASE ApplyParams \/ ApplyHeader
      BY <3>4 DEF ApplyParams, ApplyHeader, ReconfigureAnnounced
    <3> QED
      BY <1>2, <3>1, <3>2, <3>3, <3>4 DEF Streaming
  <2>2. \A p \in Param \ spoiled : handle.params[p] = accepted[p]
    BY <2>1
  <2>3. spoiled \subseteq spoiled' /\ accepted' = accepted
    <3>1. CASE Executor
      BY <3>1, <2>1 DEF Executor, Serving, FixArrives, ForceReconnect, RefreshTimer,
                  SetParameters, SetOne, RefuseBatch, AcceptBatch, Shutdown, Join
    <3>2. CASE Caster
      BY <3>2 DEF Caster, Record, LastRecord, RequestEnds
    <3>3. CASE Streaming
      BY <3>3 DEF Streaming, Exit, Connect, NextRequest, WakeUp, Reconfigure, LockParams,
                  CopyOne, ApplyParams, ApplyHeader, ClearFlag
    <3> QED
      BY <3>1, <3>2, <3>3
  <2> QED
    BY <2>1, <2>2, <2>3
<1> QED
  BY <1>1, <1>2

-----------------------------------------------------------------------------
(* The header and the back-off *)

\* The header is freed by the streaming thread, between two requests, or when
\* that thread has ended.
LEMMA HeaderStep == IInv /\ (Executor \/ Caster \/ Streaming) => HeaderNotFreedInUse'
<1> SUFFICES ASSUME IInv, Executor \/ Caster \/ Streaming PROVE HeaderNotFreedInUse'
  OBVIOUS
<1> USE DEF HeaderNotFreedInUse, IInv
<1>1. CASE Join
  BY <1>1 DEF Join
<1>2. CASE Executor /\ ~ Join
  BY <1>2 DEF Executor, Serving, FixArrives, ForceReconnect, RefreshTimer, SetParameters,
              SetOne, RefuseBatch, AcceptBatch, Shutdown
<1>3. CASE ApplyParams \/ ApplyHeader
  BY <1>3 DEF ApplyParams, ApplyHeader
<1>4. CASE Caster
  BY <1>4 DEF Caster, Record, LastRecord, RequestEnds
<1>5. CASE Exit \/ Connect \/ NextRequest \/ WakeUp \/ Reconfigure
  BY <1>5 DEF Exit, Connect, NextRequest, WakeUp, Reconfigure
<1>6. CASE LockParams \/ CopyOne \/ ClearFlag
  BY <1>6 DEF LockParams, CopyOne, ClearFlag
<1> QED
  BY <1>1, <1>2, <1>3, <1>4, <1>5, <1>6 DEF Streaming

\* desired_count_reached_ is cleared before a request and set only by the
\* record that ends one.
LEMMA CountReachedStep ==
    IInv /\ (Executor \/ Caster \/ Streaming) => CountReachedMeansWriteError'
<1> SUFFICES ASSUME IInv, Executor \/ Caster \/ Streaming
             PROVE  CountReachedMeansWriteError'
  OBVIOUS
<1> USE DEF CountReachedMeansWriteError, IInv
<1>1. CASE Executor
  BY <1>1 DEF Executor, Serving, FixArrives, ForceReconnect, RefreshTimer, SetParameters,
              SetOne, RefuseBatch, AcceptBatch, Shutdown, Join
<1>2. CASE Record \/ RequestEnds
  BY <1>2 DEF Record, RequestEnds
<1>3. CASE LastRecord
  BY <1>3 DEF LastRecord
<1>4. CASE Connect
  BY <1>4 DEF Connect
<1>5. CASE NextRequest
  <2>1. streamPc' \in {"check", "nap", "backoff"}
    BY <1>5 DEF NextRequest
  <2> QED
    BY <2>1
<1>6. CASE Exit \/ WakeUp \/ Reconfigure
  BY <1>6 DEF Exit, WakeUp, Reconfigure
<1>7. CASE LockParams \/ CopyOne \/ ApplyParams \/ ApplyHeader \/ ClearFlag
  BY <1>7 DEF LockParams, CopyOne, ApplyParams, ApplyHeader, ClearFlag
<1> QED
  BY <1>1, <1>2, <1>3, <1>4, <1>5, <1>6, <1>7 DEF Caster, Streaming

\* After a failure the loop goes to the one-second back-off or to a reconfigure.
LEMMA BackOffStep == IInv /\ (Executor \/ Caster \/ Streaming) => OwedUntilBackOff'
<1> SUFFICES ASSUME IInv, Executor \/ Caster \/ Streaming PROVE OwedUntilBackOff'
  OBVIOUS
<1> USE DEF OwedUntilBackOff, IInv
<1>1. CASE Executor
  BY <1>1 DEF Executor, Serving, FixArrives, ForceReconnect, RefreshTimer, SetParameters,
              SetOne, RefuseBatch, AcceptBatch, Shutdown, Join
<1>2. CASE Record \/ LastRecord
  BY <1>2 DEF Record, LastRecord
<1>3. CASE RequestEnds
  BY <1>3 DEF RequestEnds
<1>4. CASE NextRequest
  <2>1. owed' = owed /\ streamPc = "load_flag"
    BY <1>4 DEF NextRequest
  <2>2. SUFFICES ASSUME owed PROVE streamPc' = "backoff"
    BY <2>1
  <2>3. res = "failed"
    BY <2>1, <2>2
  <2>4. ~ desired_count_reached
    BY <2>1, <2>3 DEF CountReachedMeansWriteError, TypeOK
  <2> QED
    BY <1>4, <2>3, <2>4 DEF NextRequest
<1>5. CASE WakeUp
  BY <1>5 DEF WakeUp
<1>6. CASE Reconfigure \/ LockParams \/ CopyOne \/ ApplyParams \/ ApplyHeader
  BY <1>6 DEF Reconfigure, LockParams, CopyOne, ApplyParams, ApplyHeader
<1>7. CASE ClearFlag
  BY <1>7 DEF ClearFlag
<1>8. CASE Exit \/ Connect
  BY <1>8 DEF Exit, Connect
<1> QED
  BY <1>1, <1>2, <1>3, <1>4, <1>5, <1>6, <1>7, <1>8 DEF Caster, Streaming

-----------------------------------------------------------------------------
(* The theorems *)

\* The invariant holds when the constructor has returned.
LEMMA InitIInv == Init => IInv
<1> SUFFICES ASSUME Init PROVE IInv
  OBVIOUS
<1>1. TypeOK
  BY InitTypeOK
<1>2. ParamsLock /\ ReconfigureAnnounced /\ OnlySpoiledDiffer /\ CountReachedMeansWriteError
  BY DEF Init, ParamsLock, ReconfigureAnnounced, OnlySpoiledDiffer, CountReachedMeansWriteError
<1>3. CopiedAgree /\ SettledPending
  BY DEF Init, CopiedAgree, SettledPending
<1>4. SnapshotIsWhole /\ AcceptedParamsInForce
  BY DEF Init, SnapshotIsWhole, AcceptedParamsInForce
<1>5. HeaderNotFreedInUse /\ OwedUntilBackOff
  BY DEF Init, HeaderNotFreedInUse, OwedUntilBackOff
<1> QED
  BY <1>1, <1>2, <1>3, <1>4, <1>5 DEF IInv

\* Every step of either thread, and the end of the node, keeps the invariant.
LEMMA NextIInv == IInv /\ [Next]_vars => IInv'
<1> SUFFICES ASSUME IInv, [Next]_vars PROVE IInv'
  OBVIOUS
<1>1. CASE Executor \/ Caster \/ Streaming
  <2>1. TypeOK'
    BY <1>1, ExecutorTypeOK, StreamingTypeOK DEF IInv
  <2> QED
    BY <1>1, <2>1, ParamsLockStep, AnnouncedStep, OnlySpoiledDifferStep, CopiedAgreeStep,
       SettledStep, SnapshotStep, AcceptedStep, HeaderStep, CountReachedStep, BackOffStep
    DEF IInv
<1>2. CASE Terminated \/ UNCHANGED vars
  BY <1>2, StutterKeepsIInv
<1> QED
  BY <1>1, <1>2 DEF Next

\* The invariant holds whatever the executor, the caster and the scheduler do.
THEOREM ClientInvariant == Spec => []IInv
<1>1. Init => IInv
  BY InitIInv
<1>2. IInv /\ [Next]_vars => IInv'
  BY NextIInv
<1> QED
  BY <1>1, <1>2, PTL DEF Spec

\* The same without a caster that answers.
THEOREM SilentCasterInvariant == SilentCasterSpec => []IInv
<1> QED
  BY InitIInv, NextIInv, PTL DEF SilentCasterSpec

\* Every member of NTRIPClientNode stays in its type, the count below its limit.
THEOREM TypeCorrect == Spec => []TypeOK
<1>1. IInv => TypeOK
  BY DEF IInv
<1> QED
  BY <1>1, ClientInvariant, PTL

\* do_streaming and on_set_parameters_callback: every request goes out with
\* pending_* as some finished call, accepted or refused, left it.
THEOREM WholeSnapshots == Spec => []SnapshotIsWhole
<1>1. IInv => SnapshotIsWhole
  BY DEF IInv
<1> QED
  BY <1>1, ClientInvariant, PTL

\* on_set_parameters_callback: what a call has been told is accepted is in
\* force or announced, though the flag is cleared after the options are applied.
THEOREM NoAcceptedChangeLost == Spec => []AcceptedParamsInForce
<1>1. IInv => AcceptedParamsInForce
  BY DEF IInv
<1> QED
  BY <1>1, ClientInvariant, PTL

\* apply_curl_options and the destructor: no request reads a freed header list.
THEOREM HeaderSafe == Spec => []HeaderNotFreedInUse
<1>1. IInv => HeaderNotFreedInUse
  BY DEF IInv
<1> QED
  BY <1>1, ClientInvariant, PTL

\* do_streaming: between a failed request and the next there is the one-second
\* back-off, or a reconfigure.
THEOREM BackOffKept == Spec => []FailedRequestBacksOff
<1>1. IInv => FailedRequestBacksOff
  BY DEF IInv, OwedUntilBackOff, FailedRequestBacksOff
<1> QED
  BY <1>1, ClientInvariant, PTL

=============================================================================
