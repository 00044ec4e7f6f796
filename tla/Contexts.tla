------------------------------ MODULE Contexts ------------------------------
(***************************************************************************)
(* The machine contexts of disastrOS and its one signal: which code the    *)
(* cpu executes, on whose stack, whether SIGALRM is blocked, and what each *)
(* PCB's cpu_state will resume.                                            *)
(*                                                                         *)
(* The other modules take a handler, with the switches into and out of the *)
(* kernel, as one step. This module takes the switches apart. Which        *)
(* process a handler chooses does not matter here: it may be any.          *)
(*                                                                         *)
(* setcontext is the C library's. It sets the signal mask of the context   *)
(* by a call of the host system, and loads the registers after that: until *)
(* then the cpu is on the stack of the caller.                             *)
(***************************************************************************)

CONSTANTS
  Procs  \* the processes that are alive

VARIABLES
  running,      \* the PCB that the kernel takes to be on the cpu
  cpu,          \* what the cpu executes
  blocked,      \* the signal mask: SIGALRM waits
  pending,      \* SIGALRM has been raised and waits for its delivery
  cpu_state,    \* what each PCB.cpu_state resumes
  shutdown_now

ctxVars == <<running, cpu, blocked, pending, cpu_state, shutdown_now>>

(***************************************************************************)
(* "user": the code of the running process, on its own stack. "handler":   *)
(* timerHandler on that stack. On the system stack: disastrOS_trap and     *)
(* timerInterrupt, each up to its setcontext and inside of it; "main" is   *)
(* inside the setcontext of shutdown. "lost": a context of the system      *)
(* stack is resumed there, after others have used that stack.              *)
(***************************************************************************)
SystemStack == {"trap", "trap_leaves", "interrupt", "interrupt_leaves", "main"}

\* A cpu_state resumes its process in its own code ("user"), in timerHandler on
\* its own stack ("handler"), or in timerHandler on the system stack ("system").
CtxInit ==
  /\ running \in Procs
  /\ cpu = "user"
  /\ blocked = FALSE
  /\ pending = FALSE
  /\ cpu_state = [p \in Procs |-> "user"]
  /\ shutdown_now = FALSE

\* The cpu executes code of the kind k. It does not as long as a signal can be
\* delivered: the host delivers it first.
Executes(k) == cpu = k /\ ~(pending /\ ~blocked)

\* The interval timer raises SIGALRM.
Alarm ==
  /\ cpu # "exit"
  /\ pending' = TRUE
  /\ UNCHANGED <<running, cpu, blocked, cpu_state, shutdown_now>>

\* timerHandler saves what it interrupted in the PCB of the running process and
\* switches to interrupt_context, which has an empty signal mask.
timerHandler ==
  /\ pending
  /\ ~blocked
  /\ cpu \in SystemStack \union {"user"}
  /\ cpu_state' = [cpu_state EXCEPT
                     ![running] = IF cpu = "user" THEN "handler" ELSE "system"]
  /\ cpu' = "interrupt"
  /\ pending' = FALSE
  /\ UNCHANGED <<running, blocked, shutdown_now>>

\* A process calls the kernel: trap_context has SIGALRM in its mask.
disastrOS_syscall ==
  /\ Executes("user")
  /\ cpu_state' = [cpu_state EXCEPT ![running] = "user"]
  /\ cpu' = "trap"
  /\ blocked' = TRUE
  /\ UNCHANGED <<running, pending, shutdown_now>>

\* The handler is done and has chosen who runs. setcontext sets the mask of
\* that process: it is the mask of timerHandler, which blocks SIGALRM, if the
\* process was interrupted.
Leave(from, to) ==
  /\ Executes(from)
  /\ cpu' = to
  /\ running' \in Procs
  /\ blocked' = (cpu_state[running'] # "user")
  /\ UNCHANGED <<pending, cpu_state, shutdown_now>>
disastrOS_trap == Leave("trap", "trap_leaves")
timerInterrupt == Leave("interrupt", "interrupt_leaves")

\* setcontext loads the registers.
Resume ==
  /\ Executes("trap_leaves") \/ Executes("interrupt_leaves")
  /\ cpu' = IF cpu_state[running] = "system" THEN "lost" ELSE cpu_state[running]
  /\ UNCHANGED <<running, blocked, pending, cpu_state, shutdown_now>>

\* timerHandler returns, and the host unblocks the signal.
HandlerReturns ==
  /\ Executes("handler")
  /\ cpu' = "user"
  /\ blocked' = FALSE
  /\ UNCHANGED <<running, pending, cpu_state, shutdown_now>>

\* main_context was saved before any signal was set up: its mask is empty.
internal_shutdown ==
  /\ Executes("trap")
  /\ cpu' = "main"
  /\ blocked' = FALSE
  /\ shutdown_now' = TRUE
  /\ UNCHANGED <<running, pending, cpu_state>>

\* disastrOS_start goes on behind its getcontext.
ShutdownExit ==
  /\ Executes("main")
  /\ shutdown_now
  /\ cpu' = "exit"
  /\ UNCHANGED <<running, blocked, pending, cpu_state, shutdown_now>>

CtxNext ==
  \/ Alarm
  \/ timerHandler
  \/ disastrOS_syscall
  \/ disastrOS_trap
  \/ timerInterrupt
  \/ Resume
  \/ HandlerReturns
  \/ internal_shutdown
  \/ ShutdownExit

CtxSpec == CtxInit /\ [][CtxNext]_ctxVars

-----------------------------------------------------------------------------
(***************************************************************************)
(* Properties.                                                             *)
(***************************************************************************)

\* disastrOS.c:223 says of SIGALRM in the mask of trap_context: "this disables
\* alarm during system trap". From the switch to that context until the cpu is
\* back in a process, or in main, no alarm is handled.
AlarmOffDuringTrap ==
  [][timerHandler => cpu \notin {"trap", "trap_leaves", "main"}]_ctxVars

=============================================================================
