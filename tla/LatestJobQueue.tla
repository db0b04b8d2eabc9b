--------------------------- MODULE LatestJobQueue ---------------------------
(***************************************************************************)
(* What the synchronization queue of a third-party resource type promises: *)
(* a mailbox per resource that holds the newest job only, and at most one  *)
(* job per resource in the hands of a worker, taken in the order added.    *)
(* Jobs are numbered in the order in which they are added.                 *)
(***************************************************************************)
EXTENDS Naturals

CONSTANT Keys   \* the resources (controller name, namespace, name)

VARIABLES
    mailbox,    \* mailbox[k]: newest job for k that no worker has taken, 0 if none
    busy,       \* busy[k]: the job for k that is being processed, 0 if none
    taken,      \* taken[k]: newest job for k a worker has ever taken
    issued      \* number of jobs added so far

avars == <<mailbox, busy, taken, issued>>

AInit ==
    /\ mailbox = [k \in Keys |-> 0]
    /\ busy = [k \in Keys |-> 0]
    /\ taken = [k \in Keys |-> 0]
    /\ issued = 0

\* A new job for k replaces the one in the mailbox.
Put(k) ==
    /\ issued' = issued + 1
    /\ mailbox' = [mailbox EXCEPT ![k] = issued + 1]
    /\ UNCHANGED <<busy, taken>>

\* A worker takes the job for k; no other worker has one for k, and the job
\* is newer than every job taken for k before.
Take(k) ==
    /\ mailbox[k] > taken[k]
    /\ busy[k] = 0
    /\ busy' = [busy EXCEPT ![k] = mailbox[k]]
    /\ taken' = [taken EXCEPT ![k] = mailbox[k]]
    /\ mailbox' = [mailbox EXCEPT ![k] = 0]
    /\ UNCHANGED issued

Finish(k) ==
    /\ busy[k] # 0
    /\ busy' = [busy EXCEPT ![k] = 0]
    /\ UNCHANGED <<mailbox, taken, issued>>

ANext == \E k \in Keys : Put(k) \/ Take(k) \/ Finish(k)

ASpec == AInit /\ [][ANext]_avars
=============================================================================
