----------------------------- MODULE TracedProgram -----------------------------
(***************************************************************************)
(* How the agent makes its target map an area of memory: it attaches to    *)
(* all of its threads with ptrace, runs a system call in the main one and  *)
(* detaches (pkg/process/ptrace, remoteMmap in pkg/process/analyze.go).    *)
(*                                                                         *)
(* Threads that are not stopped create threads and end meanwhile.  The     *)
(* kernel lets only the OS thread that attached to a thread trace it, and  *)
(* nothing binds the goroutine to its OS thread.                           *)
(***************************************************************************)
EXTENDS Integers

CONSTANTS
    Tids,        \* thread ids, each of which is used once
    MainTid,     \* the main thread's
    RetryLimit   \* threadRetryLimit (10)

ASSUME TracedAssumption == MainTid \in Tids /\ RetryLimit \in Nat \ {0}

VARIABLES
    threads,     \* the target's
    unborn,      \* thread ids that have not been used
    tracer,      \* the agent's OS thread that traces a thread, or 0
    halted,      \* the traced threads that have stopped
    osThread,    \* the OS thread that the goroutine runs on
    step,        \* what the goroutine does next
    waited,      \* the thread whose stop it waits for
    todo,        \* threads that it is still to attach to, or to detach from
    tidMap,      \* threads that it has attached to
    retryCount,  \* failed attempts to attach
    regs, code,  \* the main thread's registers and its next instruction: its own or the call's
    rax,         \* the result register: "own", the call's "number", "area" or "error"
    addr,        \* the address that the agent has got: "none" or of rax
    failure,     \* whether the call has failed
    odd          \* history: what went wrong: "moved", "not mapped"

tracedVars == <<threads, unborn, tracer, halted, osThread, step, waited, todo, tidMap,
                retryCount, regs, code, rax, addr, failure, odd>>
targetVars == <<threads, unborn>>
traceVars == <<tracer, halted, waited, tidMap, retryCount>>
callVars == <<regs, code, rax, addr>>

\* What NewTracedProgram and remoteMmap keep ends with them.
LocalsGone == waited' = MainTid /\ todo' = {} /\ tidMap' = {} /\ retryCount' = [t \in Tids |-> 0]
Fails == step' = "failed" /\ LocalsGone

CallSteps == {"protect", "set", "poke", "step", "result", "restore registers", "restore code"}

TracedTypeOK ==
    /\ threads \subseteq Tids /\ unborn \subseteq Tids \ threads
    /\ tracer \in [Tids -> 0..2] /\ halted \subseteq {t \in threads : tracer[t] # 0}
    /\ osThread \in 1..2
    /\ step \in CallSteps \cup {"start", "attach", "wait", "detach", "mapped", "failed"}
    /\ waited \in Tids /\ todo \subseteq Tids /\ tidMap \subseteq Tids
    /\ retryCount \in [Tids -> 0..RetryLimit]
    /\ regs \in {"own", "call"} /\ code \in {"own", "call"}
    /\ rax \in {"own", "number", "area", "error"} /\ addr \in {"none", "number", "area", "error"}
    /\ failure \in BOOLEAN /\ odd \subseteq {"moved", "not mapped"}

TracedInit ==
    /\ threads \in {s \in SUBSET Tids : MainTid \in s} /\ unborn = Tids \ threads
    /\ tracer = [t \in Tids |-> 0] /\ halted = {} /\ osThread = 1
    /\ step = "start" /\ waited = MainTid /\ todo = {} /\ tidMap = {}
    /\ retryCount = [t \in Tids |-> 0]
    /\ regs = "own" /\ code = "own" /\ rax = "own" /\ addr = "none"
    /\ failure = FALSE /\ odd = {}

-------------------------------------------------------------------------------
(* The target, the kernel and the Go scheduler while the agent attaches     *)
(* (external).                                                              *)

Tracing == step \notin {"start", "mapped", "failed"}
AgentVars == <<osThread, step, waited, todo, tidMap, retryCount, callVars, failure, odd>>

ThreadCreated ==
    /\ Tracing
    /\ threads # halted
    /\ \E t \in unborn : threads' = threads \cup {t} /\ unborn' = unborn \ {t}
    /\ UNCHANGED <<tracer, halted, AgentVars>>

ThreadExits ==
    /\ Tracing
    /\ \E t \in threads \ (halted \cup {MainTid}) :
          threads' = threads \ {t} /\ tracer' = [tracer EXCEPT ![t] = 0]
    /\ UNCHANGED <<unborn, halted, AgentVars>>

Killed ==
    /\ Tracing
    /\ threads # {}
    /\ threads' = {} /\ halted' = {} /\ tracer' = [t \in Tids |-> 0]
    /\ UNCHANGED <<unborn, AgentVars>>

\* The goroutine goes on on another OS thread.  Bound: once.
Moves ==
    /\ Tracing
    /\ "moved" \notin odd
    /\ osThread' = 3 - osThread /\ odd' = odd \cup {"moved"}
    /\ UNCHANGED <<targetVars, traceVars, step, todo, callVars, failure>>

\* A thread that has been attached to stops.
Stops ==
    /\ \E t \in threads \ halted : tracer[t] # 0 /\ halted' = halted \cup {t}
    /\ UNCHANGED <<targetVars, tracer, AgentVars>>

TargetStep == ThreadCreated \/ ThreadExits \/ Killed \/ Stops

-------------------------------------------------------------------------------
(* NewTracedProgram.                                                        *)

Begin ==
    /\ step = "start" /\ step' = "attach"
    /\ UNCHANGED <<targetVars, traceVars, osThread, todo, callVars, failure, odd>>

\* The threads to attach to after a look at the directory of threads; after the first
\* look only (a slip) those of it.
UnattachedAtFirst == IF tidMap = {} THEN threads ELSE {}
Unattached == threads \ tidMap

\* A round begins with the threads that there are; if all are attached to, it is over.
ListThreads ==
    /\ step = "attach" /\ todo = {}
    /\ IF threads = {}
         THEN Fails
         ELSE /\ todo' = Unattached
              /\ IF Unattached = {} THEN step' = "protect" /\ tidMap' = threads
                                    ELSE UNCHANGED <<step, tidMap>>
              /\ UNCHANGED <<waited, retryCount>>
    /\ UNCHANGED <<targetVars, tracer, halted, osThread, callVars, failure, odd>>

Attach(t) ==
    /\ step = "attach" /\ t \in todo
    /\ t \in threads /\ tracer[t] = 0
    /\ tracer' = [tracer EXCEPT ![t] = osThread]
    /\ step' = "wait" /\ waited' = t /\ todo' = todo \ {t}
    /\ UNCHANGED <<targetVars, halted, tidMap, retryCount, osThread, callVars, failure, odd>>

\* The kernel refuses, or the thread is gone: it is tried again in the next round, up to
\* a limit, where only a thread that is there makes the program give up; a slip is to
\* try for ever.
TryForEver(t) == FALSE
GiveUp(t) == retryCount[t] + 1 >= RetryLimit /\ t \in threads

AttachFails(t) ==
    /\ step = "attach" /\ t \in todo
    /\ IF GiveUp(t)
         THEN Fails
         ELSE /\ todo' = todo \ {t}
              /\ retryCount' = [retryCount EXCEPT ![t] = IF @ < RetryLimit THEN @ + 1 ELSE @]
              /\ UNCHANGED <<step, waited, tidMap>>
    /\ UNCHANGED <<targetVars, tracer, halted, osThread, callVars, failure, odd>>

\* waitPid: the thread has stopped, or ended, which is not told apart.
Waited ==
    /\ step = "wait" /\ step' = "attach"
    /\ waited \in halted \/ waited \notin threads
    /\ tidMap' = tidMap \cup {waited}
    /\ UNCHANGED <<targetVars, tracer, halted, waited, todo, retryCount, osThread, callVars, failure, odd>>

\* PTRACE_DETACH of a thread: only one that has stopped, by its tracer.
Traced(t) == t \in halted /\ tracer[t] = osThread
Detached(t) ==
    IF Traced(t) THEN halted' = halted \ {t} /\ tracer' = [tracer EXCEPT ![t] = 0]
                 ELSE UNCHANGED <<halted, tracer>>

WaitFails ==
    /\ step = "wait" /\ Fails
    /\ Detached(waited)
    /\ UNCHANGED <<targetVars, osThread, callVars, failure, odd>>

-------------------------------------------------------------------------------
(* Syscall, in the main thread.                                             *)

\* One request for the main thread: done, or an error, after which nothing but Detach
\* follows.
Request(from, to) ==
    /\ step = from
    /\ IF Traced(MainTid) THEN step' = to /\ UNCHANGED <<todo, failure>>
                          ELSE step' = "detach" /\ todo' = tidMap /\ failure' = TRUE
    /\ UNCHANGED <<targetVars, traceVars, osThread>>
IfTraced(value, old) == IF Traced(MainTid) THEN value ELSE old

Protect == Request("protect", "set") /\ UNCHANGED <<callVars, odd>>

SetRegs ==
    /\ Request("set", "poke")
    /\ regs' = IfTraced("call", regs) /\ rax' = IfTraced("number", rax)
    /\ UNCHANGED <<code, addr, odd>>

Poke ==
    /\ Request("poke", "step")
    /\ code' = IfTraced("call", code)
    /\ UNCHANGED <<regs, rax, addr, odd>>

\* One instruction is executed, which maps the area, or returns an error number; or a
\* signal stops the thread first, which Wait does not tell from the step's end.
Step ==
    /\ Request("step", "result")
    /\ IF Traced(MainTid)
         THEN \/ rax' = "area" /\ UNCHANGED odd
              \/ rax' \in {rax, "error"} /\ odd' = odd \cup {"not mapped"}
         ELSE UNCHANGED <<rax, odd>>
    /\ UNCHANGED <<regs, code, addr>>

\* The result register, read again; a slip is to take it as it was set for the call.
NotReadAgain == "number"
ReadAgain == rax

\* What Restore begins with; a slip is to put back the code only.
CodeOnly == "restore code"
RegistersFirst == "restore registers"

Result ==
    /\ Request("result", RegistersFirst)
    /\ addr' = IfTraced(ReadAgain, addr)
    /\ UNCHANGED <<regs, code, rax, odd>>

RestoreRegs ==
    /\ Request("restore registers", "restore code")
    /\ regs' = IfTraced("own", regs) /\ rax' = IfTraced("own", rax)
    /\ UNCHANGED <<code, addr, odd>>

\* The threads that remain to be detached from when the call is over; only the main
\* one (a slip) when it went well.
MainOnly == {MainTid}
AllAttached == tidMap

RestoreCode ==
    /\ step = "restore code" /\ step' = "detach"
    /\ todo' = AllAttached
    /\ IF Traced(MainTid) THEN code' = "own" /\ UNCHANGED failure
                          ELSE failure' = TRUE /\ UNCHANGED code
    /\ UNCHANGED <<targetVars, traceVars, osThread, regs, rax, addr, odd>>

\* Detach: a thread that is gone, or that another OS thread traces, is passed over.
Detach(t) ==
    /\ step = "detach" /\ t \in todo
    /\ todo' = todo \ {t}
    /\ Detached(t)
    /\ UNCHANGED <<targetVars, waited, tidMap, retryCount, osThread, step, callVars, failure, odd>>

AllDetached ==
    /\ step = "detach" /\ todo = {}
    /\ step' = IF failure THEN "failed" ELSE "mapped"
    /\ LocalsGone
    /\ UNCHANGED <<targetVars, tracer, halted, osThread, callVars, failure, odd>>

Trace ==
    \/ Begin \/ ListThreads \/ Waited \/ WaitFails
    \/ \E t \in Tids : Attach(t) \/ AttachFails(t) \/ Detach(t)
    \/ Protect \/ SetRegs \/ Poke \/ Step \/ Result \/ RestoreRegs \/ RestoreCode
    \/ AllDetached
===============================================================================
