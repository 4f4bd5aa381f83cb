------------------------------ MODULE MCKernel ------------------------------
(* Values for the constants of the kernel's configurations. *)
EXTENDS KernelProperties

LifecycleOps == {"create", "exit", "kill", "block", "unblock", "nice"}
ChildOps == {"yield", "exit", "block", "unblock"}

InputOps == {"create", "sem_create", "sem_signal", "sem_set", "sem_open"}
InputChildOps == {"exit", "read", "sem_wait", "sem_signal"}
WaitOps == {"create", "wait", "yield"}
WaitChildOps == {"exit", "yield"}
NestedWaitOps == {"create", "wait", "exit"}
\* Calls without the discipline of the others: a process kills itself, what
\* sleeps on a semaphore is unblocked, semaphores are closed under their users.
AnyOps == {"create", "unblock", "unblock_any", "sem_create", "sem_close", "sem_signal"}
AnyChildOps == {"exit", "kill", "kill_self", "sem_wait"}

=============================================================================
