----------------------------- MODULE NtripClient -----------------------------
(***************************************************************************)
(* NTRIPClientNode (src/ntrip_client_node/src/ntrip_client_node.cpp): the  *)
(* ROS executor thread takes fixes, timer ticks and parameter changes; the *)
(* streaming thread keeps a request to the NTRIP caster going and          *)
(* publishes what it sends.  They share two mutexes and two atomic flags.  *)
(*                                                                         *)
(* gga_mutex_ is held for one access to latest_gga_ (and, in the timer, one *)
(* store of a flag), and nothing blocks under it, so an action that does   *)
(* all of it in one step stands for the whole critical section.            *)
(* params_mutex_ is held over loops and is a variable.                     *)
(***************************************************************************)
EXTENDS Integers, Sequences

CONSTANTS
    Param,              \* the parameters that can be changed while running
    Value,
    Initial,            \* their values at the start
    Refused,            \* the <<parameter, value>> pairs the callback refuses
    Batch,              \* sequences of such pairs: what one call can set
    DesiredCount,       \* records after which a request is ended (10)
    MaxFix,             \* bounds: fixes that arrive and
    MaxSets             \* calls that set parameters

ASSUME ParamAssumption ==
    /\ Initial \in [Param -> Value]
    /\ Refused \subseteq Param \X Value
    /\ Batch \subseteq Seq(Param \X Value)

ASSUME BoundAssumption ==
    DesiredCount \in Nat \ {0} /\ MaxFix \in Nat /\ MaxSets \in Nat

VARIABLES
    \* shared
    params_mutex,           \* who holds params_mutex_
    reconfigure_needed,
    streaming_exit,
    pending,                \* pending_host_, pending_port_, ...
    latest_gga,             \* which fix latest_gga_ was made from, 0 for none
    \* the executor thread
    execPc,
    batch,                  \* what is left of the call being served
    sets,                   \* calls served so far (bound)
    \* the streaming thread
    streamPc,
    active,                 \* host_, port_, ...
    copied,                 \* the parameters this reconfigure has copied
    handle,                 \* the options in force on the curl handle
    header_freed,           \* gga_header_list_ is freed and not yet rebuilt
    record_count,
    desired_count_reached,
    res,                    \* how the last curl_easy_perform returned
    \* history
    accepted,               \* pending when a call last succeeded
    spoiled,                \* parameters written since then, by calls that failed
    left,                   \* what pending has been whenever no call was being served
    owed                    \* the last request failed, and nothing was waited for or
                            \* reconfigured since

execVars == <<execPc, batch, sets>>
history == <<accepted, spoiled, left>>
streamVars == <<streamPc, active, copied, handle, record_count, desired_count_reached, res,
                owed>>
vars == <<params_mutex, reconfigure_needed, streaming_exit, pending, latest_gga, execVars,
          streamVars, header_freed, history>>

\* The constructor copies the parameters and applies them before it starts the
\* streaming thread; no callback runs until it has returned.
Init ==
    /\ params_mutex = "free"
    /\ reconfigure_needed = FALSE /\ streaming_exit = FALSE
    /\ pending = Initial /\ active = Initial /\ accepted = Initial /\ spoiled = {}
    /\ left = {Initial} /\ owed = FALSE
    /\ latest_gga = 0
    /\ execPc = "idle" /\ batch = <<>> /\ sets = 0
    /\ streamPc = "check" /\ copied = {}
    /\ handle = [params |-> Initial, gga |-> 0] /\ header_freed = FALSE
    /\ record_count = 0 /\ desired_count_reached = FALSE /\ res = "none"

-----------------------------------------------------------------------------
(* The executor thread *)

\* on_fix: the position is stored; only the first one asks for a reconnect,
\* and does so after gga_mutex_ is released.
FixArrives ==
    /\ execPc = "idle" /\ latest_gga < MaxFix
    /\ latest_gga' = latest_gga + 1
    /\ execPc' = IF latest_gga = 0 THEN "first_fix" ELSE "idle"
    /\ UNCHANGED <<params_mutex, reconfigure_needed, streaming_exit, pending, batch, sets,
                   streamVars, header_freed, history>>

ForceReconnect ==
    /\ execPc = "first_fix"
    /\ reconfigure_needed' = TRUE
    /\ execPc' = "idle"
    /\ UNCHANGED <<params_mutex, streaming_exit, pending, latest_gga, batch, sets,
                   streamVars, header_freed, history>>

\* Mutant: the timer is never created.
Mut_NoTimer == FALSE /\ UNCHANGED vars

\* gga_refresh_timer_, every five minutes.
RefreshTimer ==
    /\ execPc = "idle"
    /\ latest_gga # 0
    /\ reconfigure_needed' = TRUE
    /\ UNCHANGED <<params_mutex, streaming_exit, pending, latest_gga, execVars,
                   streamVars, header_freed, history>>

\* on_set_parameters_callback takes the lock, goes through the batch...
SetParameters ==
    /\ execPc = "idle" /\ sets < MaxSets
    /\ params_mutex = "free"
    /\ params_mutex' = "exec"
    /\ batch' \in Batch
    /\ sets' = sets + 1
    /\ execPc' = "setting"
    /\ UNCHANGED <<reconfigure_needed, streaming_exit, pending, latest_gga,
                   streamVars, header_freed, history>>

SetOne ==
    /\ execPc = "setting" /\ batch # <<>> /\ Head(batch) \notin Refused
    /\ pending' = [pending EXCEPT ![Head(batch)[1]] = Head(batch)[2]]
    /\ batch' = Tail(batch)
    /\ spoiled' = spoiled \cup {Head(batch)[1]}
    /\ UNCHANGED <<params_mutex, reconfigure_needed, streaming_exit, latest_gga, execPc, sets,
                   streamVars, header_freed, accepted, left>>

\* ...and returns at the first value it refuses, without undoing the others...
RefuseBatch ==
    /\ execPc = "setting" /\ batch # <<>> /\ Head(batch) \in Refused
    /\ batch' = <<>>
    /\ params_mutex' = "free"
    /\ execPc' = "idle"
    /\ left' = left \cup {pending}
    /\ UNCHANGED <<reconfigure_needed, streaming_exit, pending, latest_gga, sets,
                   streamVars, header_freed, accepted, spoiled>>

\* Mutant: the change is recorded but no reconfigure is asked for.
Mut_AcceptSilently ==
    /\ execPc = "setting" /\ batch = <<>>
    /\ params_mutex' = "free"
    /\ execPc' = "idle"
    /\ accepted' = pending /\ spoiled' = {} /\ left' = left \cup {pending}
    /\ UNCHANGED <<reconfigure_needed, streaming_exit, pending, latest_gga, batch, sets,
                   streamVars, header_freed>>

\* ...or asks for a reconfigure at its end.
AcceptBatch ==
    /\ execPc = "setting" /\ batch = <<>>
    /\ reconfigure_needed' = TRUE
    /\ params_mutex' = "free"
    /\ execPc' = "idle"
    /\ accepted' = pending /\ spoiled' = {} /\ left' = left \cup {pending}
    /\ UNCHANGED <<streaming_exit, pending, latest_gga, batch, sets,
                   streamVars, header_freed>>

\* The destructor runs when the executor has stopped spinning, and waits for
\* the streaming thread before it frees the header.
Shutdown ==
    /\ execPc = "idle"
    /\ streaming_exit' = TRUE
    /\ execPc' = "joining"
    /\ UNCHANGED <<params_mutex, reconfigure_needed, pending, latest_gga, batch, sets,
                   streamVars, header_freed, history>>

\* Mutant: the thread is detached instead of joined.
Mut_Detach ==
    /\ execPc = "joining"
    /\ header_freed' = TRUE
    /\ execPc' = "done"
    /\ UNCHANGED <<params_mutex, reconfigure_needed, streaming_exit, pending, latest_gga,
                   batch, sets, streamVars, history>>

Join ==
    /\ execPc = "joining" /\ streamPc = "exited"
    /\ header_freed' = TRUE
    /\ execPc' = "done"
    /\ UNCHANGED <<params_mutex, reconfigure_needed, streaming_exit, pending, latest_gga,
                   batch, sets, streamVars, history>>

-----------------------------------------------------------------------------
(* The streaming thread, do_streaming *)

streamOnly == <<params_mutex, reconfigure_needed, streaming_exit, pending, latest_gga,
                execVars, header_freed, history>>

Exit ==
    /\ streamPc = "check" /\ streaming_exit
    /\ streamPc' = "exited"
    /\ UNCHANGED <<streamOnly, active, copied, handle, record_count, desired_count_reached, res,
                   owed>>

\* Mutants: the loop does not test streaming_exit_; the flag of the previous
\* request is left as it is.
Mut_ConnectAlways ==
    /\ streamPc = "check"
    /\ desired_count_reached' = FALSE
    /\ streamPc' = "perform"
    /\ UNCHANGED <<streamOnly, active, copied, handle, record_count, res, owed>>

Mut_ConnectKeepsFlag ==
    /\ streamPc = "check" /\ ~ streaming_exit
    /\ streamPc' = "perform"
    /\ UNCHANGED <<streamOnly, active, copied, handle, record_count, desired_count_reached, res,
                   owed>>

\* curl_easy_perform is called, with the options of the handle.
Connect ==
    /\ streamPc = "check" /\ ~ streaming_exit
    /\ desired_count_reached' = FALSE
    /\ streamPc' = "perform"
    /\ UNCHANGED <<streamOnly, active, copied, handle, record_count, res, owed>>

Mut_CountOffByOne == record_count + 1 > DesiredCount                \* mutant

CountReached == record_count + 1 >= DesiredCount

\* write_callback: the record is published and counted; the last of a request
\* is answered short, which makes curl_easy_perform return a write error.
Record ==
    /\ streamPc = "perform" /\ ~ CountReached
    /\ record_count' = record_count + 1
    /\ UNCHANGED <<streamOnly, streamPc, active, copied, handle, desired_count_reached, res, owed>>

LastRecord ==
    /\ streamPc = "perform" /\ CountReached
    /\ record_count' = 0
    /\ desired_count_reached' = TRUE
    /\ res' = "write_error"
    /\ streamPc' = "load_flag"
    /\ UNCHANGED <<streamOnly, active, copied, handle, owed>>

\* The caster ends the response, or cannot be reached, or drops the connection.
RequestEnds ==
    /\ streamPc = "perform"
    /\ res' \in {"ok", "failed"}
    /\ owed' = (res' = "failed")
    /\ streamPc' = "load_flag"
    /\ UNCHANGED <<streamOnly, active, copied, handle, record_count, desired_count_reached>>

Mut_IgnoreFlagIfOk == reconfigure_needed /\ res # "ok"             \* mutant: wrong order

FlagSeen == reconfigure_needed

\* Without a reconfigure: at once again after an orderly end, after 100 ms when
\* the count was reached, after one second otherwise.
NextRequest ==
    /\ streamPc = "load_flag" /\ ~ FlagSeen
    /\ streamPc' = IF res = "ok" THEN "check"
                   ELSE IF desired_count_reached THEN "nap" ELSE "backoff"
    /\ UNCHANGED <<streamOnly, active, copied, handle, record_count, desired_count_reached, res,
                   owed>>

WakeUp ==
    /\ streamPc \in {"nap", "backoff"}
    /\ streamPc' = "check"
    /\ owed' = (owed /\ streamPc = "nap")
    /\ UNCHANGED <<streamOnly, active, copied, handle, record_count, desired_count_reached, res>>

Reconfigure ==
    /\ streamPc = "load_flag" /\ FlagSeen
    /\ streamPc' = "lock"
    /\ UNCHANGED <<streamOnly, active, copied, handle, record_count, desired_count_reached, res,
                   owed>>

\* Mutant: the parameters are copied without params_mutex_.
Mut_NoLock ==
    /\ streamPc = "lock"
    /\ streamPc' = "copy" /\ copied' = {}
    /\ UNCHANGED <<streamOnly, active, handle, record_count, desired_count_reached, res, owed>>

LockParams ==
    /\ streamPc = "lock"
    /\ params_mutex = "free"
    /\ params_mutex' = "stream"
    /\ streamPc' = "copy" /\ copied' = {}
    /\ UNCHANGED <<reconfigure_needed, streaming_exit, pending, latest_gga, execVars,
                   header_freed, history, active, handle, record_count,
                   desired_count_reached, res, owed>>

CopyOne ==
    /\ streamPc = "copy"
    /\ \E p \in Param \ copied :
        /\ active' = [active EXCEPT ![p] = pending[p]]
        /\ copied' = copied \cup {p}
    /\ UNCHANGED <<streamOnly, streamPc, handle, record_count, desired_count_reached, res, owed>>

\* apply_curl_options: URL and credentials first; the old header is freed...
ApplyParams ==
    /\ streamPc = "copy" /\ copied = Param
    /\ handle' = [handle EXCEPT !.params = active]
    /\ header_freed' = TRUE
    /\ streamPc' = "header"
    /\ UNCHANGED <<params_mutex, reconfigure_needed, streaming_exit, pending, latest_gga,
                   execVars, history, active, copied, record_count,
                   desired_count_reached, res, owed>>

\* ...and a new one built, with the position there is under gga_mutex_.
ApplyHeader ==
    /\ streamPc = "header"
    /\ handle' = [handle EXCEPT !.gga = latest_gga]
    /\ header_freed' = FALSE
    /\ streamPc' = "clear_flag"
    /\ UNCHANGED <<params_mutex, reconfigure_needed, streaming_exit, pending, latest_gga,
                   execVars, history, active, copied, record_count,
                   desired_count_reached, res, owed>>

\* The flag is cleared last, and params_mutex_ released on leaving the block.
ClearFlag ==
    /\ streamPc = "clear_flag"
    /\ reconfigure_needed' = FALSE
    /\ params_mutex' = "free"
    /\ owed' = FALSE
    /\ streamPc' = "check"
    /\ UNCHANGED <<streaming_exit, pending, latest_gga, execVars, header_freed, history,
                   active, copied, handle, record_count, desired_count_reached, res>>

-----------------------------------------------------------------------------
Serving == SetOne \/ RefuseBatch \/ AcceptBatch
Executor == FixArrives \/ ForceReconnect \/ RefreshTimer \/ SetParameters \/ Serving
              \/ Shutdown \/ Join

\* What happens during a request is up to the caster.
Caster == Record \/ LastRecord \/ RequestEnds
Streaming == Exit \/ Connect \/ NextRequest \/ WakeUp \/ Reconfigure \/ LockParams
              \/ CopyOne \/ ApplyParams \/ ApplyHeader \/ ClearFlag

\* After the destructor both threads are gone.
Terminated == execPc = "done" /\ UNCHANGED vars

Next == Executor \/ Caster \/ Streaming \/ Terminated

\* The threads run, and the wall timer keeps firing while the executor spins.
ClientFairness ==
    /\ WF_vars(Streaming)
    /\ WF_vars(ForceReconnect \/ Serving \/ Join)
    /\ WF_vars(RefreshTimer)

\* A caster that keeps sending, or ends the request.  Nothing in the client
\* makes it so: no timeout of libcurl is set.
CasterFairness == WF_vars(Caster)

Spec == Init /\ [][Next]_vars /\ ClientFairness /\ CasterFairness
SilentCasterSpec == Init /\ [][Next]_vars /\ ClientFairness

-----------------------------------------------------------------------------
(* Properties *)

StreamPcs == {"check", "perform", "load_flag", "nap", "backoff", "lock", "copy", "header",
              "clear_flag", "exited"}
ExecPcs == {"idle", "first_fix", "setting", "joining", "done"}

\* The type invariant of the client.
TypeOK ==
    /\ params_mutex \in {"free", "exec", "stream"}
    /\ reconfigure_needed \in BOOLEAN /\ streaming_exit \in BOOLEAN
    /\ pending \in [Param -> Value] /\ active \in [Param -> Value]
    /\ accepted \in [Param -> Value] /\ spoiled \in SUBSET Param
    /\ left \in SUBSET [Param -> Value] /\ owed \in BOOLEAN
    /\ latest_gga \in Nat
    /\ execPc \in ExecPcs /\ batch \in Seq(Param \X Value) /\ sets \in Nat
    /\ streamPc \in StreamPcs /\ copied \in SUBSET Param
    /\ handle \in [params : [Param -> Value], gga : Nat] /\ header_freed \in BOOLEAN
    /\ record_count \in 0..(DesiredCount - 1) /\ desired_count_reached \in BOOLEAN
    /\ res \in {"none", "ok", "failed", "write_error"}

\* Every request goes out with a configuration that pending_* had while no call
\* was being served, never with the state in the middle of one: a reconfigure
\* copies the parameters one by one, and on_set_parameters_callback writes them
\* one by one.  It need not be the configuration of an accepted call: one that is
\* refused leaves the values before the refused one in pending_*, and the next
\* reconfigure puts them in force.
SnapshotIsWhole == handle.params \in left

\* No accepted change is lost: though the streaming thread clears the flag
\* after it has applied the parameters, a change that is not in force is still
\* announced by the flag.  Only what a failed call has written over since is
\* exempt: the callback does not undo it, and the next reconfigure applies it.
AcceptedParamsInForce ==
    ~ reconfigure_needed =>
        \A p \in Param \ spoiled : handle.params[p] = accepted[p]

\* The header list is never freed under a request that uses it: not by a
\* reconfigure, and not by the destructor.
HeaderNotFreedInUse ==
    header_freed => streamPc \in {"header", "exited"}

\* A request that failed is repeated only after the back-off of one second or
\* after a reconfigure, which takes its place (the loop goes on at once): never
\* at once or after the 100 ms that follow a request ended by its count,
\* however many requests before it were ended so.
FailedRequestBacksOff == streamPc = "perform" => ~ owed

\* A reconfigure asked for is carried out, unless the node shuts down.
ReconfigureHappens == reconfigure_needed ~> (~ reconfigure_needed \/ streaming_exit)

\* Once there is a position, some request carries one: what a lost request of
\* on_fix leaves undone, the five-minute timer makes good.
GgaEventuallyForwarded == (latest_gga # 0) ~> (handle.gga # 0 \/ streaming_exit)

\* The destructor returns.
ShutdownCompletes == streaming_exit ~> (execPc = "done")

\* "Trigger reconfigure so the next streaming cycle re-runs apply_curl_options()
\* with the freshly populated Ntrip-GGA header" (on_fix): when on_fix is done and
\* no reconfigure is under way, the header has a position or one is asked for.
FirstFixReachesHeader ==
    execPc = "idle" /\ latest_gga # 0 /\ streamPc \in {"check", "perform", "nap", "backoff"}
        => handle.gga # 0 \/ reconfigure_needed

\* "Refresh the connection every 5 min so VRS / NEAR mountpoints re-pick the
\* closest base after the rover has moved": once the timer has asked for it, the
\* request in progress ends.
RefreshEndsRequest ==
    (reconfigure_needed /\ streamPc = "perform") ~> (streamPc # "perform")

=============================================================================
