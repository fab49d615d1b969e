----------------------------- MODULE ChildReaper -----------------------------
(***************************************************************************)
(* The zombie example of lesson_7/02_zombies: the parent forks children,   *)
(* never waits for them and works on; its SIGCHLD handler reaps whatever   *)
(* has ended (02_zombies.c). SIGCHLD is not queued: any number of children *)
(* may end for one delivery, and it is blocked while its handler runs.     *)
(***************************************************************************)
EXTENDS Naturals

CONSTANTS NumChildren,   \* children forked (5 in the code)
          Rounds         \* seconds of the parent's own work (10)

Kids == 0 .. NumChildren - 1

VARIABLES parent,        \* where the parent is
          round,         \* index of the loop the parent is in
          kid,           \* each child
          pending,       \* SIGCHLD is pending
          handler,       \* where handle_sigchld is
          errno, saved_errno,
          printed        \* the error perror printed, if any

vars == <<parent, round, kid, pending, handler, errno, saved_errno, printed>>

Errors == {"none", "EAGAIN", "ECHILD"}

TypeOK == /\ parent \in {"fork", "forkFailed", "work", "exited"}
          /\ round \in 0 .. NumChildren + Rounds
          /\ kid \in [Kids -> {"none", "running", "zombie", "reaped"}]
          /\ pending \in BOOLEAN
          /\ handler \in {"none", "reap", "return"}
          /\ errno \in Errors /\ saved_errno \in Errors /\ printed \in Errors

\* After the handler was installed; if that fails the program ends at once.
Init == /\ parent = "fork" /\ round = 0
        /\ kid = [c \in Kids |-> "none"]
        /\ pending = FALSE /\ handler = "none"
        /\ errno = "none" /\ saved_errno = "none" /\ printed = "none"

Zombies == {c \in Kids : kid[c] = "zombie"}
At(label) == parent = label /\ handler = "none"
-----------------------------------------------------------------------------
(* main; a handler that runs suspends it *)

Fork == /\ At("fork")
        /\ kid' = [kid EXCEPT ![round] = "running"]
        /\ IF round + 1 < NumChildren THEN round' = round + 1 /\ UNCHANGED parent
                                      ELSE round' = 0 /\ parent' = "work"
        /\ UNCHANGED <<pending, handler, errno, saved_errno, printed>>

ForkFails == /\ At("fork")
             /\ errno' = "EAGAIN" /\ parent' = "forkFailed"
             /\ UNCHANGED <<round, kid, pending, handler, saved_errno, printed>>

\* perror("fork failed"); exit(1)
ForkError == /\ At("forkFailed")
             /\ printed' = errno /\ parent' = "exited"
             /\ UNCHANGED <<round, kid, pending, handler, errno, saved_errno>>

\* sleep(1) ends, in time or because a handler has run; then main returns.
Work == /\ At("work")
        /\ IF round < Rounds THEN round' = round + 1 /\ UNCHANGED parent
                             ELSE parent' = "exited" /\ UNCHANGED round
        /\ UNCHANGED <<kid, pending, handler, errno, saved_errno, printed>>
-----------------------------------------------------------------------------
\* A child has slept and exits: a zombie, and SIGCHLD for the parent.
ChildExits(c) == /\ parent # "exited" /\ kid[c] = "running"
                 /\ kid' = [kid EXCEPT ![c] = "zombie"]
                 /\ pending' = TRUE
                 /\ UNCHANGED <<parent, round, handler, errno, saved_errno, printed>>

\* handle_sigchld is entered.
Deliver == /\ parent # "exited" /\ pending /\ handler = "none"
           /\ pending' = FALSE /\ handler' = "reap"
           /\ saved_errno' = errno
           /\ UNCHANGED <<parent, round, kid, errno, printed>>

NothingToReap == /\ Zombies = {} /\ handler' = "return"
                 /\ errno' = IF \E c \in Kids : kid[c] = "running" THEN errno ELSE "ECHILD"
                 /\ UNCHANGED kid

\* Mutant: the handler reaps one child per signal.
ReapOne == /\ handler = "reap"
           /\ \/ NothingToReap
              \/ \E c \in Zombies : kid' = [kid EXCEPT ![c] = "reaped"]
                                    /\ handler' = "return" /\ UNCHANGED errno
           /\ UNCHANGED <<parent, round, pending, saved_errno, printed>>

\* waitpid(-1, NULL, WNOHANG): a child, or none has ended (0), or there is none
\* left (-1, which sets errno).
Reap == /\ handler = "reap"
        /\ \/ NothingToReap
           \/ \E c \in Zombies : kid' = [kid EXCEPT ![c] = "reaped"]
                                 /\ UNCHANGED <<handler, errno>>
        /\ UNCHANGED <<parent, round, pending, saved_errno, printed>>

\* Mutant: errno is left as waitpid set it.
ReturnOnly == /\ handler = "return" /\ handler' = "none"
              /\ UNCHANGED <<parent, round, kid, pending, errno, saved_errno, printed>>

Return == /\ handler = "return" /\ handler' = "none"
          /\ errno' = saved_errno
          /\ UNCHANGED <<parent, round, kid, pending, saved_errno, printed>>

Next == \/ Fork \/ ForkFails \/ ForkError \/ Work
        \/ \E c \in Kids : ChildExits(c)
        \/ Deliver \/ Reap \/ Return

Spec == Init /\ [][Next]_vars
-----------------------------------------------------------------------------
\* No zombie is overlooked: as long as the parent lives, a child that has ended
\* is one the handler's loop is about to find or has a signal on the way,
\* however many children ended for one signal.
ZombiesAreSeen == parent # "exited" /\ Zombies # {} => pending \/ handler = "reap"

\* A handler that runs between a failed fork and its perror does not change the
\* error that is printed.
ForkErrorReported == printed \in {"none", "EAGAIN"}
=============================================================================
