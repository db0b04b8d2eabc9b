------------------------ MODULE ThirdPartyWatchProofs ------------------------
(***************************************************************************)
(* The lock, the early returns and the clean-up of the watch's goroutine   *)
(* together see to it that there is one watch at most, and that it can be  *)
(* stopped: for any resource types, versions, number of changes and        *)
(* failures, and however the handlers overlap.                             *)
(*                                                                         *)
(* The second part shows that the watch also follows the CRD and the API   *)
(* config. Its invariant speaks of the instructions that the goroutines    *)
(* have left: whatever is not yet as it should be, somebody is going to    *)
(* put right.                                                              *)
(***************************************************************************)
EXTENDS ThirdPartyWatch, SequenceTheorems, TLAPS

IsSequence(s) == \E S : s \in Seq(S)

\* The instructions of maybeStartWatchingThirdPartyResources.
StartOps == {"check", "readVersion", "start"}

\* Instructions none of which belongs to maybeStartWatchingThirdPartyResources.
Straight(s) == IsSequence(s) /\ \A k \in 1 .. Len(s) : s[k][1] \notin StartOps

\* What is left of a program: the instructions of maybeStartWatchingThirdPartyResources
\* come last, in their order and without anything in between.
Ordered(s) ==
    /\ IsSequence(s)
    /\ \A k \in 1 .. Len(s) :
         /\ s[k][1] = "check" => k + 2 = Len(s) /\ s[k + 1][1] = "readVersion" /\ s[k + 2][1] = "start"
         /\ s[k][1] = "readVersion" => k + 1 = Len(s) /\ s[k + 1][1] = "start"
         /\ s[k][1] = "start" => k = Len(s)
         /\ (s[k][1] = "start" /\ k > 1) => s[k - 1][1] = "readVersion"
         /\ (s[k][1] = "readVersion" /\ k > 1) => s[k - 1][1] = "check"

\* A program does not begin in the middle of it.
Program(s) == Ordered(s) /\ (Len(s) > 0 => s[1][1] \notin {"readVersion", "start"})

\* A goroutine holds the lock from the check of the prerequisites to the start.
Disciplined(p) ==
    /\ Ordered(todo[p])
    /\ lock = p <=> (Does(p, "readVersion") \/ Does(p, "start"))

\* The stop function stays unset while somebody is about to start a watch, hence
\* nobody replaces the one of a watch that runs.
WatchInv ==
    /\ lock \in Procs \cup {"free"}
    /\ DOMAIN todo = Procs
    /\ \A p \in Procs : Disciplined(p)
    /\ lock # "free" => stopFunction = 0
    /\ IsSequence(controllers)
    /\ \A c \in DOMAIN controllers : DOMAIN controllers[c] = {"version", "state"}
    /\ OnlyWatchIsTheStoppableOne

-----------------------------------------------------------------------------
(* Programs *)

LEMMA StraightIsProgram ==
    ASSUME NEW s, Straight(s)
    PROVE  Program(s)
  <1>1. Len(s) \in Nat
    BY DEF Straight, IsSequence
  <1> QED
    BY <1>1 DEF Straight, Program, Ordered, StartOps

LEMMA StraightThenStraight ==
    ASSUME NEW s, NEW t, Straight(s), Straight(t)
    PROVE  Straight(s \o t)
  <1>1. PICK S, T : s \in Seq(S) /\ t \in Seq(T)
    BY DEF Straight, IsSequence
  <1>2. s \in Seq(S \cup T) /\ t \in Seq(S \cup T)
    BY <1>1
  <1>3. /\ s \o t \in Seq(S \cup T) /\ Len(s \o t) = Len(s) + Len(t)
        /\ Len(s) \in Nat /\ Len(t) \in Nat
        /\ \A k \in 1 .. Len(s) + Len(t) : (s \o t)[k] = IF k <= Len(s) THEN s[k] ELSE t[k - Len(s)]
    BY <1>2
  <1> QED
    BY <1>3 DEF Straight, IsSequence

LEMMA StraightThenProgram ==
    ASSUME NEW s, NEW t, Straight(s), Program(t)
    PROVE  Program(s \o t)
  <1> DEFINE m == Len(s)
             n == Len(t)
             u == s \o t
  <1>1. PICK S, T : s \in Seq(S) /\ t \in Seq(T)
    BY DEF Straight, Program, Ordered, IsSequence
  <1>2. s \in Seq(S \cup T) /\ t \in Seq(S \cup T)
    BY <1>1
  <1>3. /\ u \in Seq(S \cup T) /\ Len(u) = m + n /\ m \in Nat /\ n \in Nat
        /\ \A k \in 1 .. m : u[k] = s[k]
        /\ \A k \in 1 .. n : u[m + k] = t[k]
    BY <1>2
  <1>4. \A k \in 1 .. m : u[k][1] \notin StartOps
    BY <1>3 DEF Straight
  <1> HIDE DEF u, m, n
  <1>5. ASSUME NEW k \in 1 .. Len(u)
        PROVE  /\ u[k][1] = "check" => k + 2 = Len(u) /\ u[k + 1][1] = "readVersion" /\ u[k + 2][1] = "start"
               /\ u[k][1] = "readVersion" => k + 1 = Len(u) /\ u[k + 1][1] = "start"
               /\ u[k][1] = "start" => k = Len(u)
               /\ (u[k][1] = "start" /\ k > 1) => u[k - 1][1] = "readVersion"
               /\ (u[k][1] = "readVersion" /\ k > 1) => u[k - 1][1] = "check"
    <2>1. CASE k <= m
      BY <1>3, <1>4, <2>1 DEF StartOps
    <2>2. CASE k > m
      <3>1. PICK j \in 1 .. n : k = m + j /\ u[k] = t[j]
        <4>1. k - m \in 1 .. n /\ k = m + (k - m)
          BY <1>3, <2>2
        <4> QED
          BY <1>3, <4>1
      <3>2. ASSUME NEW i \in 1 .. n, NEW d \in Int, k + d = m + i PROVE u[k + d] = t[i]
        BY <1>3, <3>2
      <3>3. j \in Nat /\ m \in Nat /\ n \in Nat /\ Len(u) = m + n /\ j >= 1 /\ j <= n /\ k = m + j
        BY <1>3, <3>1
      <3>4. j + 1 <= n => u[k + 1] = t[j + 1]
        <4> SUFFICES ASSUME j + 1 <= n PROVE u[k + 1] = t[j + 1]
          OBVIOUS
        <4>1. j + 1 \in 1 .. n /\ k + 1 = m + (j + 1) /\ 1 \in Int
          BY <3>3
        <4> QED
          BY <3>2, <4>1
      <3>5. j + 2 <= n => u[k + 2] = t[j + 2]
        <4> SUFFICES ASSUME j + 2 <= n PROVE u[k + 2] = t[j + 2]
          OBVIOUS
        <4>1. j + 2 \in 1 .. n /\ k + 2 = m + (j + 2) /\ 2 \in Int
          BY <3>3
        <4> QED
          BY <3>2, <4>1
      <3>6. j > 1 => u[k - 1] = t[j - 1]
        <4> SUFFICES ASSUME j > 1 PROVE u[k - 1] = t[j - 1]
          OBVIOUS
        <4>1. j - 1 \in 1 .. n /\ k + (-1) = m + (j - 1) /\ -1 \in Int /\ k + (-1) = k - 1
          BY <3>3
        <4> QED
          BY <3>2, <4>1
      <3>7. j = 1 => u[k][1] \notin {"readVersion", "start"}
        BY <1>3, <3>1 DEF Program, n
      <3>8. /\ t[j][1] = "check" => j + 2 = n /\ t[j + 1][1] = "readVersion" /\ t[j + 2][1] = "start"
            /\ t[j][1] = "readVersion" => j + 1 = n /\ t[j + 1][1] = "start"
            /\ t[j][1] = "start" => j = n
            /\ (t[j][1] = "start" /\ j > 1) => t[j - 1][1] = "readVersion"
            /\ (t[j][1] = "readVersion" /\ j > 1) => t[j - 1][1] = "check"
        BY DEF Program, Ordered, n
      <3>9. u[k][1] = "check" => k + 2 = Len(u) /\ u[k + 1][1] = "readVersion" /\ u[k + 2][1] = "start"
        BY <3>1, <3>3, <3>8, <3>4, <3>5
      <3>10. u[k][1] = "readVersion" => k + 1 = Len(u) /\ u[k + 1][1] = "start"
        BY <3>1, <3>3, <3>8, <3>4
      <3>11. u[k][1] = "start" => k = Len(u)
        BY <3>1, <3>3, <3>8
      <3>12. u[k][1] \in {"readVersion", "start"} => u[k - 1] = t[j - 1] /\ j > 1
        BY <3>1, <3>3, <3>7, <3>6
      <3> QED
        BY <3>1, <3>8, <3>9, <3>10, <3>11, <3>12
    <2> QED
      BY <1>3, <2>1, <2>2
  <1>6. Len(u) > 0 => u[1][1] \notin {"readVersion", "start"}
    <2>1. CASE m = 0
      BY <1>3, <2>1 DEF Program, n
    <2>2. CASE m > 0
      BY <1>3, <1>4, <2>2 DEF StartOps
    <2> QED
      BY <1>3, <2>1, <2>2
  <1> QED
    BY <1>3, <1>5, <1>6 DEF Program, Ordered, IsSequence, u
LEMMA Instructions ==
    ASSUME NEW b, NEW v
    PROVE  /\ Straight(<<>>) /\ Straight(SetExists(b)) /\ Straight(SetVersion(v))
           /\ Straight(StopWatch) /\ Straight(<<<<"config", b>>>>)
  <1>1. ASSUME NEW x, x[1] \notin StartOps PROVE Straight(<<x>>)
    <2>1. <<x>> \in Seq({x}) /\ Len(<<x>>) = 1 /\ <<x>>[1] = x
      OBVIOUS
    <2> DEFINE q == <<x>>
    <2>2. q \in Seq({x}) /\ Len(q) = 1 /\ q[1] = x
      BY <2>1
    <2> HIDE DEF q
    <2>3. Straight(q)
      BY <1>1, <2>2 DEF Straight, IsSequence
    <2> QED
      BY <2>3 DEF q
  <1>2. Straight(<<>>)
    <2>1. <<>> \in Seq({}) /\ Len(<<>>) = 0
      OBVIOUS
    <2> QED
      BY <2>1 DEF Straight, IsSequence
  <1>3. Straight(SetExists(b)) /\ Straight(SetVersion(v)) /\ Straight(StopWatch) /\ Straight(<<<<"config", b>>>>)
    BY <1>1 DEF SetExists, SetVersion, StopWatch, StartOps
  <1> QED
    BY <1>2, <1>3

LEMMA MaybeStartIsProgram == Program(MaybeStart)
  <1>1. /\ MaybeStart \in Seq({<<"check">>, <<"readVersion">>, <<"start">>}) /\ Len(MaybeStart) = 3
        /\ MaybeStart[1][1] = "check" /\ MaybeStart[2][1] = "readVersion" /\ MaybeStart[3][1] = "start"
    BY DEF MaybeStart
  <1> QED
    BY <1>1 DEF Program, Ordered, IsSequence

LEMMA RecordAndReset ==
    ASSUME NEW v
    PROVE  Straight(RecordCrdVersion(v)) /\ Straight(ResetCrdVersion)
  BY Instructions, StraightThenStraight DEF RecordCrdVersion, ResetCrdVersion

\* Every handler is a program.
LEMMA HandlersArePrograms ==
    ASSUME NEW served, NEW valid
    PROVE  /\ Program(OnCreate(served)) /\ Program(OnDelete)
           /\ Program(HandleVersionChangeOnUpdate(served)) /\ Program(OnConfig(valid))
  <1>1. Straight(OnCrdChange(served))
    BY Instructions, RecordAndReset DEF OnCrdChange
  <1>2. Program(OnCreate(served))
    BY <1>1, Instructions, MaybeStartIsProgram, StraightThenStraight, StraightThenProgram DEF OnCreate
  <1>3. Program(OnDelete)
    BY Instructions, StraightThenStraight, StraightIsProgram DEF OnDelete
  <1>4. Program(HandleVersionChangeOnUpdate(served))
    <2> DEFINE new == ChooseVersion(served)
               first == IF crdExists /\ IsWatching THEN StopWatch ELSE <<>>
               last == IF crdExists THEN <<>> ELSE MaybeStart
    <2> HIDE DEF new
    <2>1. Straight(first) /\ Program(last) /\ Program(<<>>)
      BY Instructions, MaybeStartIsProgram, StraightIsProgram
    <2>2. Straight(first \o ResetCrdVersion) /\ Straight(StopWatch \o RecordCrdVersion(new))
      BY <2>1, Instructions, RecordAndReset, StraightThenStraight
    <2>3. Program(first \o ResetCrdVersion)
      BY <2>2, StraightIsProgram
    <2>4. Program(RecordCrdVersion(new) \o last)
      BY <2>1, RecordAndReset, StraightThenProgram
    <2>5. Program(StopWatch \o RecordCrdVersion(new) \o MaybeStart)
      BY <2>2, MaybeStartIsProgram, StraightThenProgram
    <2> QED
      BY <2>1, <2>3, <2>4, <2>5 DEF HandleVersionChangeOnUpdate, new
  <1>5. Program(OnConfig(valid))
    BY Instructions, MaybeStartIsProgram, StraightIsProgram, StraightThenProgram DEF OnConfig
  <1> QED
    BY <1>2, <1>3, <1>4, <1>5

\* One instruction further: only the check leads to the reading of the version, and only
\* this to the start.
LEMMA Advance ==
    ASSUME NEW s, Ordered(s), s # <<>>
    PROVE  /\ Ordered(Tail(s))
           /\ s[1][1] = "check" => Tail(s) # <<>> /\ Tail(s)[1][1] = "readVersion"
           /\ s[1][1] = "readVersion" => Tail(s) # <<>> /\ Tail(s)[1][1] = "start"
           /\ (s[1][1] \notin {"check", "readVersion"} /\ Tail(s) # <<>>) => Tail(s)[1][1] \notin {"readVersion", "start"}
  <1> DEFINE t == Tail(s)
             n == Len(t)
  <1>1. PICK S : s \in Seq(S)
    BY DEF Ordered, IsSequence
  <1>2. /\ t \in Seq(S) /\ n \in Nat /\ Len(s) = n + 1 /\ (t = <<>> <=> n = 0)
        /\ \A k \in 1 .. n : t[k] = s[k + 1]
    <2>1. t \in Seq(S) /\ Len(t) = Len(s) - 1 /\ Len(s) \in Nat /\ Len(s) > 0
      BY <1>1
    <2>2. \A k \in 1 .. Len(s) - 1 : t[k] = s[k + 1]
      BY <1>1
    <2>3. t = <<>> <=> Len(t) = 0
      BY <2>1, EmptySeq
    <2> HIDE DEF t
    <2> QED
      BY <2>1, <2>2, <2>3
  <1> HIDE DEF t, n
  <1>3. ASSUME NEW k \in 1 .. n
        PROVE  /\ t[k][1] = "check" => k + 2 = n /\ t[k + 1][1] = "readVersion" /\ t[k + 2][1] = "start"
               /\ t[k][1] = "readVersion" => k + 1 = n /\ t[k + 1][1] = "start"
               /\ t[k][1] = "start" => k = n
               /\ (t[k][1] = "start" /\ k > 1) => t[k - 1][1] = "readVersion"
               /\ (t[k][1] = "readVersion" /\ k > 1) => t[k - 1][1] = "check"
    <2> DEFINE j == k + 1
    <2>1. j \in 1 .. Len(s) /\ j > 1 /\ t[k] = s[j] /\ k \in Nat
      BY <1>2
    <2>2. (k + 1 <= n => t[k + 1] = s[j + 1]) /\ (k + 2 <= n => t[k + 2] = s[j + 2])
      BY <1>2
    <2>3. k > 1 => t[k - 1] = s[j - 1]
      BY <1>2
    <2>4. /\ s[j][1] = "check" => j + 2 = Len(s) /\ s[j + 1][1] = "readVersion" /\ s[j + 2][1] = "start"
          /\ s[j][1] = "readVersion" => j + 1 = Len(s) /\ s[j + 1][1] = "start"
          /\ s[j][1] = "start" => j = Len(s)
          /\ s[j][1] = "start" => s[j - 1][1] = "readVersion"
          /\ s[j][1] = "readVersion" => s[j - 1][1] = "check"
      BY <2>1 DEF Ordered
    <2>5. t[k][1] = "check" => k + 2 = n /\ t[k + 1][1] = "readVersion" /\ t[k + 2][1] = "start"
      BY <1>2, <2>1, <2>2, <2>4
    <2>6. t[k][1] = "readVersion" => k + 1 = n /\ t[k + 1][1] = "start"
      BY <1>2, <2>1, <2>2, <2>4
    <2>7. t[k][1] = "start" => k = n
      BY <1>2, <2>1, <2>4
    <2> QED
      BY <2>1, <2>3, <2>4, <2>5, <2>6, <2>7
  <1>4. Ordered(t)
    BY <1>2, <1>3 DEF Ordered, IsSequence, n
  <1>5. 1 \in 1 .. Len(s) /\ (n > 0 => t[1] = s[2] /\ 2 \in 1 .. Len(s) /\ 2 - 1 = 1)
    BY <1>2
  <1>6. s[1][1] = "check" => n > 0 /\ t[1][1] = "readVersion"
    BY <1>2, <1>5 DEF Ordered
  <1>7. s[1][1] = "readVersion" => n > 0 /\ t[1][1] = "start"
    BY <1>2, <1>5 DEF Ordered
  <1>8. (s[1][1] \notin {"check", "readVersion"} /\ n > 0) => t[1][1] \notin {"readVersion", "start"}
    BY <1>2, <1>5 DEF Ordered
  <1> QED
    BY <1>2, <1>4, <1>6, <1>7, <1>8 DEF t
-----------------------------------------------------------------------------
(* The steps of a goroutine *)

\* The first instruction that is left.
NextOp(s) == Head(s)[1]

\* The discipline is a matter of the goroutine that makes the step.
LEMMA OneGoroutineSteps ==
    ASSUME WatchInv, NEW p \in Procs, NEW s, todo' = [todo EXCEPT ![p] = s], Ordered(s),
           lock' = p <=> (s # <<>> /\ NextOp(s) \in {"readVersion", "start"}),
           \A q \in Procs \ {p} : lock' = q <=> lock = q
    PROVE  DOMAIN todo' = Procs /\ \A q \in Procs : Disciplined(q)'
  <1>1. DOMAIN todo' = Procs /\ todo'[p] = s /\ \A q \in Procs \ {p} : todo'[q] = todo[q]
    BY DEF WatchInv
  <1>2. Disciplined(p)'
    BY <1>1 DEF Disciplined, Does, NextOp
  <1>3. ASSUME NEW q \in Procs \ {p} PROVE Disciplined(q)'
    BY <1>1 DEF WatchInv, Disciplined, Does
  <1> QED
    BY <1>1, <1>2, <1>3

\* A goroutine goes on to the next instruction: where this leads, and who had the lock.
LEMMA StepForward ==
    ASSUME WatchInv, NEW p \in Procs, NEW op, Does(p, op)
    PROVE  /\ Ordered(Tail(todo[p]))
           /\ lock = p <=> op \in {"readVersion", "start"}
           /\ op = "check" => Tail(todo[p]) # <<>> /\ NextOp(Tail(todo[p])) = "readVersion"
           /\ op = "readVersion" => Tail(todo[p]) # <<>> /\ NextOp(Tail(todo[p])) = "start"
           /\ (op \notin {"check", "readVersion"} /\ Tail(todo[p]) # <<>>) => NextOp(Tail(todo[p])) \notin {"readVersion", "start"}
  <1>1. Ordered(todo[p]) /\ todo[p] # <<>> /\ Head(todo[p])[1] = op
    BY DEF WatchInv, Disciplined, Does
  <1>2. \A s : Head(s) = s[1]
    OBVIOUS
  <1>3. lock = p <=> op \in {"readVersion", "start"}
    BY <1>1 DEF WatchInv, Disciplined, Does
  <1> QED
    BY <1>1, <1>2, <1>3, Advance DEF NextOp

\* An instruction that is no part of maybeStartWatchingThirdPartyResources.
LEMMA OtherInstruction ==
    ASSUME WatchInv, NEW p \in Procs, NEW op, op \notin StartOps, Does(p, op), Continue(p), UNCHANGED lock
    PROVE  DOMAIN todo' = Procs /\ \A q \in Procs : Disciplined(q)'
  <1>1. todo' = [todo EXCEPT ![p] = Tail(todo[p])]
    BY DEF Continue
  <1> QED
    BY <1>1, StepForward, OneGoroutineSteps DEF StartOps

\* A goroutine that has nothing to do is given a program.
LEMMA HandlerIsCalled ==
    ASSUME WatchInv, NEW p \in Procs, Idle(p), NEW s, Program(s),
           todo' = [todo EXCEPT ![p] = s], UNCHANGED lock
    PROVE  DOMAIN todo' = Procs /\ \A q \in Procs : Disciplined(q)'
  <1>1. lock # p
    BY DEF WatchInv, Disciplined, Does, Idle
  <1>2. PICK S : s \in Seq(S)
    BY DEF Program, Ordered, IsSequence
  <1>3. s # <<>> => Len(s) > 0 /\ Head(s) = s[1]
    BY <1>2, EmptySeq
  <1>4. ~(s # <<>> /\ NextOp(s) \in {"readVersion", "start"})
    BY <1>3 DEF Program, NextOp
  <1> QED
    BY <1>1, <1>4, OneGoroutineSteps DEF Program

\* Everything but the programs and the lock is left alone.
LEMMA WatchUnchanged ==
    ASSUME WatchInv, DOMAIN todo' = Procs, \A q \in Procs : Disciplined(q)', UNCHANGED <<lock, controllers, stopFunction>>
    PROVE  WatchInv'
  BY DEF WatchInv, OnlyWatchIsTheStoppableOne

LEMMA InitWatch == Init => WatchInv
  <1> SUFFICES ASSUME Init PROVE WatchInv
    OBVIOUS
  <1>1. Ordered(<<>>)
    BY Instructions, StraightIsProgram DEF Program
  <1>2. IsSequence(<<>>) /\ DOMAIN <<>> = {}
    <2>1. IsSequence(<<>>)
      BY Instructions DEF Straight
    <2>2. DOMAIN <<>> = {}
      OBVIOUS
    <2> QED
      BY <2>1, <2>2
  <1>3. \A p \in Procs : Disciplined(p)
    BY <1>1 DEF Init, Disciplined, Does, Procs
  <1> QED
    BY <1>2, <1>3 DEF Init, WatchInv, OnlyWatchIsTheStoppableOne

LEMMA CheckKeepsInv ==
    ASSUME WatchInv, NEW p \in Procs, CheckPrerequisites(p)
    PROVE  WatchInv'
  <1>1. Does(p, "check") /\ lock = "free" /\ UNCHANGED <<controllers, stopFunction>>
    BY DEF CheckPrerequisites, watch
  <1>2. "free" \notin Procs
    BY DEF Procs
  <1>3. CASE IsWatching \/ ~crdExists \/ ~configValid
    <2>1. todo' = [todo EXCEPT ![p] = <<>>] /\ UNCHANGED lock
      BY <1>3 DEF CheckPrerequisites, Return
    <2>2. Ordered(<<>>)
      BY Instructions, StraightIsProgram DEF Program
    <2>3. DOMAIN todo' = Procs /\ \A q \in Procs : Disciplined(q)'
      BY <1>1, <1>2, <2>1, <2>2, OneGoroutineSteps
    <2> QED
      BY <1>1, <2>1, <2>3, WatchUnchanged
  <1>4. CASE ~(IsWatching \/ ~crdExists \/ ~configValid)
    <2>1. todo' = [todo EXCEPT ![p] = Tail(todo[p])] /\ lock' = p /\ stopFunction = 0
      BY <1>4 DEF CheckPrerequisites, Continue, IsWatching
    <2>2. DOMAIN todo' = Procs /\ \A q \in Procs : Disciplined(q)'
      BY <1>1, <1>2, <2>1, StepForward, OneGoroutineSteps
    <2> QED
      BY <1>1, <2>1, <2>2 DEF WatchInv, OnlyWatchIsTheStoppableOne
  <1> QED
    BY <1>3, <1>4

LEMMA ReadVersionKeepsInv ==
    ASSUME WatchInv, NEW p \in Procs, ReadVersion(p)
    PROVE  WatchInv'
  <1>1. Does(p, "readVersion") /\ UNCHANGED <<lock, controllers, stopFunction>>
    BY DEF ReadVersion, watch
  <1>2. todo' = [todo EXCEPT ![p] = Tail(todo[p])]
    BY DEF ReadVersion, Continue
  <1>3. DOMAIN todo' = Procs /\ \A q \in Procs : Disciplined(q)'
    BY <1>1, <1>2, StepForward, OneGoroutineSteps
  <1> QED
    BY <1>1, <1>3, WatchUnchanged

\* Whoever starts a controller has the lock, hence there is none that runs.
LEMMA StartKeepsInv ==
    ASSUME WatchInv, NEW p \in Procs, StartController(p) \/ CannotStartController(p)
    PROVE  WatchInv'
  <1>1. Does(p, "start") /\ lock' = "free" /\ todo' = [todo EXCEPT ![p] = Tail(todo[p])]
    BY DEF StartController, CannotStartController, Continue
  <1>2. lock = p /\ "free" \notin Procs
    BY <1>1, StepForward DEF Procs
  <1>3. DOMAIN todo' = Procs /\ \A q \in Procs : Disciplined(q)'
    BY <1>1, <1>2, StepForward, OneGoroutineSteps
  <1>4. CASE CannotStartController(p)
    BY <1>1, <1>3, <1>4 DEF CannotStartController, WatchInv, OnlyWatchIsTheStoppableOne
  <1>5. CASE StartController(p)
    <2> DEFINE new == [version |-> ownVersion, state |-> "running"]
               n == Len(controllers)
    <2>1. controllers' = Append(controllers, new) /\ stopFunction' = n + 1
      BY <1>5 DEF StartController
    <2>2. PICK S : controllers \in Seq(S)
      BY DEF WatchInv, IsSequence
    <2>3. DOMAIN new = {"version", "state"}
      OBVIOUS
    <2> HIDE DEF new
    <2>4. controllers \in Seq(S \cup {new})
      BY <2>2
    <2>5. /\ controllers' \in Seq(S \cup {new}) /\ n \in Nat
          /\ DOMAIN controllers' = 1 .. n + 1 /\ DOMAIN controllers = 1 .. n
          /\ \A c \in 1 .. n : controllers'[c] = controllers[c]
          /\ controllers'[n + 1] = new
      BY <2>1, <2>4
    <2>6. stopFunction = 0
      BY <1>2 DEF WatchInv
    <2>7. \A c \in 1 .. n : controllers[c].state # "running"
      BY <2>5, <2>6 DEF WatchInv, OnlyWatchIsTheStoppableOne
    <2>8. ASSUME NEW c \in 1 .. n + 1
          PROVE  /\ DOMAIN controllers'[c] = {"version", "state"}
                 /\ controllers'[c].state = "running" => stopFunction' = c
      <3>1. CASE c = n + 1
        BY <2>1, <2>3, <2>5, <3>1
      <3>2. CASE c \in 1 .. n
        BY <2>5, <2>7, <3>2 DEF WatchInv
      <3> QED
        BY <2>5, <3>1, <3>2
    <2> QED
      BY <1>1, <1>3, <2>5, <2>8 DEF WatchInv, OnlyWatchIsTheStoppableOne, IsSequence
  <1> QED
    BY <1>4, <1>5

\* A controller changes its state, but does not begin to run.
LEMMA ControllerChanges ==
    ASSUME WatchInv, NEW c, NEW v, v # "running",
           controllers' = [controllers EXCEPT ![c].state = v]
    PROVE  /\ IsSequence(controllers') /\ DOMAIN controllers' = DOMAIN controllers
           /\ \A d \in DOMAIN controllers :
                /\ DOMAIN controllers'[d] = {"version", "state"}
                /\ controllers'[d].state = "running" => d # c /\ controllers[d].state = "running"
  <1> DEFINE new == [controllers[c] EXCEPT !.state = v]
  <1>1. PICK S : controllers \in Seq(S)
    BY DEF WatchInv, IsSequence
  <1>2. controllers' = [controllers EXCEPT ![c] = new]
    OBVIOUS
  <1>3. c \in DOMAIN controllers => DOMAIN new = {"version", "state"} /\ new.state = v
    BY DEF WatchInv
  <1> HIDE DEF new
  <1>4. controllers \in Seq(S \cup {new})
    BY <1>1
  <1>5. controllers' \in Seq(S \cup {new}) /\ DOMAIN controllers' = DOMAIN controllers
    <2>1. PICK n \in Nat : controllers \in [1 .. n -> S \cup {new}]
      BY <1>4
    <2>2. controllers' \in [1 .. n -> S \cup {new}]
      BY <1>2, <2>1
    <2> QED
      BY <2>1, <2>2
  <1>6. ASSUME NEW d \in DOMAIN controllers
        PROVE  /\ DOMAIN controllers'[d] = {"version", "state"}
               /\ controllers'[d].state = "running" => d # c /\ controllers[d].state = "running"
    <2>1. CASE d = c
      BY <1>2, <1>3, <2>1
    <2>2. CASE d # c
      BY <1>2, <2>2 DEF WatchInv
    <2> QED
      BY <2>1, <2>2
  <1> QED
    BY <1>5, <1>6 DEF IsSequence

LEMMA StopKeepsInv ==
    ASSUME WatchInv, NEW p \in Procs, StopWatching(p)
    PROVE  WatchInv'
  <1>1. Does(p, "stop") /\ lock = "free" /\ UNCHANGED lock /\ Continue(p)
    BY DEF StopWatching
  <1>2. DOMAIN todo' = Procs /\ \A q \in Procs : Disciplined(q)'
    BY <1>1, OtherInstruction DEF StartOps
  <1>3. CASE IsWatching
    <2>1. controllers' = [controllers EXCEPT ![stopFunction].state = "canceled"] /\ stopFunction' = 0
      BY <1>3 DEF StopWatching
    <2>2. /\ IsSequence(controllers') /\ DOMAIN controllers' = DOMAIN controllers
          /\ \A d \in DOMAIN controllers :
               /\ DOMAIN controllers'[d] = {"version", "state"}
               /\ controllers'[d].state = "running" => d # stopFunction /\ controllers[d].state = "running"
      BY <2>1, ControllerChanges
    <2> QED
      BY <1>1, <1>2, <2>1, <2>2 DEF WatchInv, OnlyWatchIsTheStoppableOne
  <1>4. CASE ~IsWatching
    BY <1>1, <1>2, <1>4, WatchUnchanged DEF StopWatching
  <1> QED
    BY <1>3, <1>4

\* A controller that ends takes only its own stop function along.
LEMMA ControllerKeepsInv ==
    ASSUME WatchInv, NEW c \in DOMAIN controllers, ControllerFails(c) \/ ControllerReturns(c)
    PROVE  WatchInv'
  <1>1. UNCHANGED <<lock, todo>>
    BY DEF ControllerFails, ControllerReturns
  <1>2. \A q \in Procs : Disciplined(q)'
    BY <1>1 DEF WatchInv, Disciplined, Does
  <1>3. PICK v : v # "running" /\ controllers' = [controllers EXCEPT ![c].state = v]
    BY DEF ControllerFails, ControllerReturns
  <1>4. /\ IsSequence(controllers') /\ DOMAIN controllers' = DOMAIN controllers
        /\ \A d \in DOMAIN controllers :
             /\ DOMAIN controllers'[d] = {"version", "state"}
             /\ controllers'[d].state = "running" => d # c /\ controllers[d].state = "running"
    BY <1>3, ControllerChanges
  <1>5. stopFunction' = stopFunction \/ (stopFunction = c /\ stopFunction' = 0)
    BY DEF ControllerFails, ControllerReturns
  <1>6. lock' # "free" => stopFunction' = 0
    BY <1>1, <1>5 DEF WatchInv
  <1>7. OnlyWatchIsTheStoppableOne'
    BY <1>4, <1>5 DEF WatchInv, OnlyWatchIsTheStoppableOne
  <1> QED
    BY <1>1, <1>2, <1>4, <1>6, <1>7 DEF WatchInv

LEMMA NextKeepsInv == WatchInv /\ [Next]_vars => WatchInv'
  <1> SUFFICES ASSUME WatchInv, [Next]_vars PROVE WatchInv'
    OBVIOUS
  <1>1. CASE CrdChanges \/ UNCHANGED vars
    <2>1. UNCHANGED <<lock, todo, controllers, stopFunction>>
      BY <1>1 DEF CrdChanges, watch, vars
    <2>2. DOMAIN todo' = Procs /\ \A q \in Procs : Disciplined(q)'
      BY <2>1 DEF WatchInv, Disciplined, Does
    <2> QED
      BY <2>1, <2>2, WatchUnchanged
  <1>2. CASE HandleCrdEvent
    <2>1. Idle("crd") /\ UNCHANGED <<lock, controllers, stopFunction>> /\ "crd" \in Procs
      BY <1>2 DEF HandleCrdEvent, watch, Procs
    <2>2. PICK s, served : /\ todo' = [todo EXCEPT !["crd"] = s]
                           /\ s \in {OnCreate(served), OnDelete, HandleVersionChangeOnUpdate(served)}
      BY <1>2 DEF HandleCrdEvent
    <2>3. Program(s)
      BY <2>2, HandlersArePrograms
    <2> QED
      BY <2>1, <2>2, <2>3, HandlerIsCalled, WatchUnchanged
  <1>3. CASE ConfigChanges
    <2>1. PICK valid \in BOOLEAN : todo' = [todo EXCEPT !["config"] = OnConfig(valid)]
      BY <1>3 DEF ConfigChanges
    <2>2. Idle("config") /\ UNCHANGED <<lock, controllers, stopFunction>> /\ "config" \in Procs
      BY <1>3 DEF ConfigChanges, watch, Procs
    <2>3. Program(OnConfig(valid))
      BY HandlersArePrograms
    <2>4. DOMAIN todo' = Procs /\ \A q \in Procs : Disciplined(q)'
      BY <2>1, <2>2, <2>3, HandlerIsCalled
    <2> QED
      BY <2>2, <2>4, WatchUnchanged
  <1>4. CASE \E p \in Procs : StoreExists(p) \/ StoreVersion(p) \/ StoreConfig(p)
    <2> PICK p \in Procs : StoreExists(p) \/ StoreVersion(p) \/ StoreConfig(p)
      BY <1>4
    <2>1. PICK op : op \notin StartOps /\ Does(p, op)
      BY DEF StoreExists, StoreVersion, StoreConfig, StartOps
    <2>2. Continue(p) /\ UNCHANGED <<lock, controllers, stopFunction>>
      BY DEF StoreExists, StoreVersion, StoreConfig, watch
    <2> QED
      BY <2>1, <2>2, OtherInstruction, WatchUnchanged
  <1>5. CASE \E p \in Procs : \/ CheckPrerequisites(p) \/ ReadVersion(p)
                             \/ StartController(p) \/ CannotStartController(p) \/ StopWatching(p)
    BY <1>5, CheckKeepsInv, ReadVersionKeepsInv, StartKeepsInv, StopKeepsInv
  <1>6. CASE \E c \in DOMAIN controllers : ControllerFails(c) \/ ControllerReturns(c)
    BY <1>6, ControllerKeepsInv
  <1> QED
    BY <1>1, <1>2, <1>3, <1>4, <1>5, <1>6 DEF Next, ProcStep

\* A controller for a third-party resource type runs only as long as the stop function is
\* the one to stop it with: the handler for CRD events and the reconciler, which start and
\* stop watches concurrently, never start one next to another and never lose the means
\* to stop one (maybeStartWatchingThirdPartyResources, stopWatchingThirdPartyResources).
THEOREM WatchCanBeStopped == Spec => []OnlyWatchIsTheStoppableOne
<1>1. WatchInv => OnlyWatchIsTheStoppableOne
  BY DEF WatchInv
<1> QED
  BY <1>1, InitWatch, NextKeepsInv, PTL DEF Spec

-----------------------------------------------------------------------------
(* What the goroutines have left to do *)

\* The instructions, and those that a goroutine has left.
Exists(b) == <<"exists", b>>
Version(v) == <<"version", v>>
Config(b) == <<"config", b>>
Stop == <<"stop">>
Start == <<"start">>
Starting == {<<"check">>, <<"readVersion">>, Start}
Left(p) == Range(todo[p])
LastLeft(p) == todo[p][Len(todo[p])]

Versions == Range(Preferred) \cup {NoVersion}
CrdInstructions ==
    Starting \cup {Stop} \cup {Exists(b) : b \in BOOLEAN} \cup {Version(v) : v \in Versions}
ConfigInstructions == Starting \cup {Stop} \cup {Config(b) : b \in BOOLEAN}

\* May the instruction y come after x in a program? That the CRD is there is not stored after
\* it was said to be gone; a watch is stopped before the CRD gets its new version, and after
\* the config was stored.
MayFollow(x, y) ==
    /\ x = Exists(FALSE) => y # Exists(TRUE)
    /\ y = Stop => x # Exists(TRUE) /\ x[1] # "version"
    /\ x = Stop => y[1] # "config"

Sequenced(s) == \A j, k \in 1 .. Len(s) : j < k => MayFollow(s[j], s[k])

\* What lies ahead of a program.
LEMMA FirstAndRest ==
    ASSUME NEW s, IsSequence(s), s # <<>>
    PROVE  /\ Range(s) = {Head(s)} \cup Range(Tail(s))
           /\ IsSequence(Tail(s))
           /\ Sequenced(s) => Sequenced(Tail(s)) /\ \A y \in Range(Tail(s)) : MayFollow(Head(s), y)
           /\ Tail(s) = <<>> \/ (Tail(s)[Len(Tail(s))] = s[Len(s)] /\ s[Len(s)] \in Range(Tail(s)))
  <1> DEFINE t == Tail(s)
             n == Len(t)
  <1>1. PICK S : s \in Seq(S)
    BY DEF IsSequence
  <1>2. /\ t \in Seq(S) /\ n \in Nat /\ Len(s) = n + 1 /\ Head(s) = s[1]
        /\ \A k \in 1 .. n : t[k] = s[k + 1]
    <2>1. t \in Seq(S) /\ Len(t) = Len(s) - 1 /\ Len(s) \in Nat /\ Len(s) > 0
      BY <1>1
    <2>2. \A k \in 1 .. Len(s) - 1 : t[k] = s[k + 1]
      BY <1>1
    <2>3. Head(s) = s[1]
      BY <1>1
    <2> HIDE DEF t
    <2> QED
      BY <2>1, <2>2, <2>3
  <1>3. DOMAIN s = 1 .. n + 1 /\ DOMAIN t = 1 .. n
    BY <1>1, <1>2
  <1> HIDE DEF t, n
  <1>4. Range(s) = {s[1]} \cup Range(t)
    <2>1. ASSUME NEW k \in 1 .. n + 1 PROVE k = 1 \/ (k - 1 \in 1 .. n /\ s[k] = t[k - 1])
      BY <1>2
    <2>2. \A k \in 1 .. n : k + 1 \in 1 .. n + 1
      BY <1>2
    <2>3. 1 \in 1 .. n + 1
      BY <1>2
    <2>4. ASSUME NEW x \in Range(s) PROVE x \in {s[1]} \cup Range(t)
      <3>1. PICK k \in 1 .. n + 1 : x = s[k]
        BY <1>3 DEF Range
      <3> QED
        BY <1>3, <2>1, <3>1 DEF Range
    <2>5. ASSUME NEW x \in {s[1]} \cup Range(t) PROVE x \in Range(s)
      <3>1. CASE x = s[1]
        BY <1>3, <2>3, <3>1 DEF Range
      <3>2. CASE x \in Range(t)
        <4>1. PICK k \in 1 .. n : x = t[k]
          BY <1>3, <3>2 DEF Range
        <4> QED
          BY <1>2, <1>3, <2>2, <4>1 DEF Range
      <3> QED
        BY <3>1, <3>2
    <2> QED
      BY <2>4, <2>5
  <1>5. ASSUME Sequenced(s) PROVE Sequenced(t) /\ \A y \in Range(t) : MayFollow(s[1], y)
    <2>1. ASSUME NEW j \in 1 .. n, NEW k \in 1 .. n, j < k PROVE MayFollow(t[j], t[k])
      <3>1. j + 1 \in 1 .. Len(s) /\ k + 1 \in 1 .. Len(s) /\ j + 1 < k + 1
        BY <1>2, <2>1
      <3> QED
        BY <1>2, <1>5, <3>1 DEF Sequenced
    <2>2. ASSUME NEW k \in 1 .. n PROVE MayFollow(s[1], t[k])
      <3>1. 1 \in 1 .. Len(s) /\ k + 1 \in 1 .. Len(s) /\ 1 < k + 1
        BY <1>2
      <3> QED
        BY <1>2, <1>5, <3>1 DEF Sequenced
    <2> QED
      BY <1>3, <2>1, <2>2 DEF Sequenced, Range, n
  <1>6. t = <<>> \/ (t[n] = s[Len(s)] /\ s[Len(s)] \in Range(t))
    <2>1. t # <<>> => n > 0
      BY <1>2, EmptySeq DEF n
    <2>2. n > 0 => n \in 1 .. n
      BY <1>2
    <2> QED
      BY <1>2, <1>3, <2>1, <2>2 DEF Range
  <1> QED
    BY <1>2, <1>4, <1>5, <1>6 DEF IsSequence, t, n

\* Programs put together.
LEMMA Together ==
    ASSUME NEW s, NEW t, IsSequence(s), IsSequence(t)
    PROVE  /\ IsSequence(s \o t)
           /\ Range(s \o t) = Range(s) \cup Range(t)
           /\ (/\ Sequenced(s) /\ Sequenced(t)
               /\ \A x \in Range(s), y \in Range(t) : MayFollow(x, y)) => Sequenced(s \o t)
  <1> DEFINE m == Len(s)
             n == Len(t)
             u == s \o t
  <1>1. PICK S, T : s \in Seq(S) /\ t \in Seq(T)
    BY DEF IsSequence
  <1>2. s \in Seq(S \cup T) /\ t \in Seq(S \cup T)
    BY <1>1
  <1>3. /\ u \in Seq(S \cup T) /\ Len(u) = m + n /\ m \in Nat /\ n \in Nat
        /\ \A k \in 1 .. m : u[k] = s[k]
        /\ \A k \in 1 .. n : u[m + k] = t[k]
        /\ DOMAIN u = 1 .. m + n /\ DOMAIN s = 1 .. m /\ DOMAIN t = 1 .. n
    BY <1>2
  <1> HIDE DEF u, m, n
  <1>4. \A k \in 1 .. m + n : k \in 1 .. m \/ (k - m \in 1 .. n /\ u[k] = t[k - m])
    <2> TAKE k \in 1 .. m + n
    <2> SUFFICES ASSUME k \notin 1 .. m PROVE k - m \in 1 .. n /\ u[k] = t[k - m]
      OBVIOUS
    <2>1. k - m \in 1 .. n /\ m + (k - m) = k
      BY <1>3
    <2> QED
      BY <1>3, <2>1
  <1>5. Range(u) = Range(s) \cup Range(t)
    <2>1. \A k \in 1 .. n : m + k \in 1 .. m + n
      BY <1>3
    <2>2. \A k \in 1 .. m : k \in 1 .. m + n
      BY <1>3
    <2>3. ASSUME NEW x \in Range(u) PROVE x \in Range(s) \cup Range(t)
      <3>1. PICK k \in 1 .. m + n : x = u[k]
        BY <1>3 DEF Range
      <3> QED
        BY <1>3, <1>4, <3>1 DEF Range
    <2>4. ASSUME NEW x \in Range(s) PROVE x \in Range(u)
      <3>1. PICK k \in 1 .. m : x = s[k]
        BY <1>3 DEF Range
      <3> QED
        BY <1>3, <2>2, <3>1 DEF Range
    <2>5. ASSUME NEW x \in Range(t) PROVE x \in Range(u)
      <3>1. PICK k \in 1 .. n : x = t[k]
        BY <1>3 DEF Range
      <3> QED
        BY <1>3, <2>1, <3>1 DEF Range
    <2> QED
      BY <2>3, <2>4, <2>5
  <1>6. ASSUME Sequenced(s), Sequenced(t), \A x \in Range(s), y \in Range(t) : MayFollow(x, y),
               NEW j \in 1 .. m + n, NEW k \in 1 .. m + n, j < k
        PROVE  MayFollow(u[j], u[k])
    <2>1. CASE j \in 1 .. m /\ k \in 1 .. m
      BY <1>3, <1>6, <2>1 DEF Sequenced, m
    <2>2. CASE j \in 1 .. m /\ k \notin 1 .. m
      <3>1. u[j] \in Range(s) /\ u[k] \in Range(t)
        BY <1>3, <1>4, <2>2 DEF Range
      <3> QED
        BY <1>6, <3>1
    <2>3. CASE j \notin 1 .. m
      <3>1. j - m \in 1 .. n /\ k - m \in 1 .. n /\ j - m < k - m /\ k \notin 1 .. m
        BY <1>3, <1>4, <1>6, <2>3
      <3>2. u[j] = t[j - m] /\ u[k] = t[k - m]
        BY <1>4, <2>3, <3>1
      <3> QED
        BY <1>6, <3>1, <3>2 DEF Sequenced, n
    <2> QED
      BY <2>1, <2>2, <2>3
  <1> QED
    BY <1>3, <1>5, <1>6 DEF IsSequence, Sequenced, u

\* A program of one instruction.
LEMMA Single ==
    ASSUME NEW x
    PROVE  IsSequence(<<x>>) /\ Range(<<x>>) = {x} /\ Sequenced(<<x>>)
  <1> DEFINE q == <<x>>
  <1>1. q \in Seq({x}) /\ Len(q) = 1 /\ q[1] = x /\ DOMAIN q = 1 .. 1
    OBVIOUS
  <1> HIDE DEF q
  <1>2. IsSequence(q) /\ Range(q) = {x} /\ Sequenced(q)
    BY <1>1 DEF IsSequence, Range, Sequenced
  <1> QED
    BY <1>2 DEF q

\* A program without instructions.
LEMMA Nothing == IsSequence(<<>>) /\ Range(<<>>) = {} /\ Sequenced(<<>>)
  <1> DEFINE q == <<>>
  <1>1. q \in Seq({}) /\ Len(q) = 0 /\ DOMAIN q = {}
    OBVIOUS
  <1> HIDE DEF q
  <1>2. IsSequence(q) /\ Range(q) = {} /\ Sequenced(q)
    BY <1>1 DEF IsSequence, Range, Sequenced
  <1> QED
    BY <1>2 DEF q

\* maybeStartWatchingThirdPartyResources comes last.
LEMMA StartComesLast ==
    ASSUME NEW s, Ordered(s), s # <<>>
    PROVE  /\ Head(s)[1] = "check" => /\ \A x \in Range(s) : x[1] \in StartOps
                                      /\ \E x \in Range(s) : x[1] = "start"
           /\ Head(s)[1] = "readVersion" => \A x \in Range(s) : x[1] \in StartOps
           /\ Head(s)[1] = "start" => Tail(s) = <<>> /\ \A x \in Range(s) : x[1] \in StartOps
  <1>1. PICK S : s \in Seq(S)
    BY DEF Ordered, IsSequence
  <1>2. Len(s) \in Nat /\ Len(s) > 0 /\ Head(s) = s[1] /\ DOMAIN s = 1 .. Len(s) /\ 1 \in 1 .. Len(s)
    BY <1>1, EmptySeq
  <1>3. Tail(s) \in Seq(S) /\ Len(Tail(s)) = Len(s) - 1
    BY <1>1, <1>2
  <1>4. Len(s) = 1 => Tail(s) = <<>>
    <2> DEFINE t == Tail(s)
    <2> SUFFICES ASSUME Len(s) = 1 PROVE t = <<>>
      OBVIOUS
    <2>1. t \in Seq(S) /\ Len(t) = 0
      BY <1>3
    <2> HIDE DEF t
    <2> QED
      BY <2>1, EmptySeq
  <1>5. /\ s[1][1] = "check" => 1 + 2 = Len(s) /\ s[1 + 1][1] = "readVersion" /\ s[1 + 2][1] = "start"
        /\ s[1][1] = "readVersion" => 1 + 1 = Len(s) /\ s[1 + 1][1] = "start"
        /\ s[1][1] = "start" => 1 = Len(s)
    BY <1>2 DEF Ordered
  <1>6. 1 + 1 = 2 /\ 1 + 2 = 3
    OBVIOUS
  <1>7. /\ s[1][1] = "check" => Len(s) = 3 /\ s[2][1] = "readVersion" /\ s[3][1] = "start"
        /\ s[1][1] = "readVersion" => Len(s) = 2 /\ s[2][1] = "start"
        /\ s[1][1] = "start" => Len(s) = 1
    BY <1>5, <1>6
  <1>8. (\A k \in 1 .. 3 : k \in {1, 2, 3}) /\ (\A k \in 1 .. 2 : k \in {1, 2}) /\ \A k \in 1 .. 1 : k = 1
    OBVIOUS
  <1>9. s[1][1] \in StartOps => \A k \in 1 .. Len(s) : s[k][1] \in StartOps
    <2> SUFFICES ASSUME s[1][1] \in StartOps, NEW k \in 1 .. Len(s) PROVE s[k][1] \in StartOps
      OBVIOUS
    <2>1. CASE s[1][1] = "check"
      BY <1>7, <1>8, <2>1 DEF StartOps
    <2>2. CASE s[1][1] = "readVersion"
      <3>1. Len(s) = 2 /\ s[2][1] = "start"
        BY <1>7, <2>2
      <3> QED
        BY <1>8, <2>2, <3>1 DEF StartOps
    <2>3. CASE s[1][1] = "start"
      <3>1. Len(s) = 1
        BY <1>7, <2>3
      <3> QED
        BY <1>8, <2>3, <3>1 DEF StartOps
    <2> QED
      BY <2>1, <2>2, <2>3 DEF StartOps
  <1>11. s[1][1] = "check" => 3 \in 1 .. Len(s) /\ s[3][1] = "start"
    BY <1>7
  <1> QED
    BY <1>2, <1>4, <1>7, <1>9, <1>11 DEF Range, StartOps

\* Instructions with different names or arguments are different.
LEMMA Distinct ==
    /\ \A b, c : Exists(b) # Version(c) /\ Exists(b) # Config(c) /\ Version(b) # Config(c)
    /\ \A b : /\ Exists(b) # Stop /\ Exists(b) # Start /\ Version(b) # Stop /\ Version(b) # Start
              /\ Config(b) # Stop /\ Config(b) # Start
    /\ Stop # Start /\ Stop \notin Starting /\ Start \in Starting
    /\ \A b : Exists(b) \notin Starting /\ Version(b) \notin Starting /\ Config(b) \notin Starting
    /\ \A b, c : /\ Exists(b) = Exists(c) => b = c
                 /\ Version(b) = Version(c) => b = c
                 /\ Config(b) = Config(c) => b = c
  <1>1. \A b : Exists(b)[1] = "exists" /\ Version(b)[1] = "version" /\ Config(b)[1] = "config"
    BY DEF Exists, Version, Config
  <1>2. Stop[1] = "stop" /\ Start[1] = "start" /\ \A x \in Starting : x[1] \in StartOps
    BY DEF Stop, Start, Starting, StartOps
  <1>3. \A b : Exists(b)[2] = b /\ Version(b)[2] = b /\ Config(b)[2] = b
    BY DEF Exists, Version, Config
  <1>4. Start \in Starting
    BY DEF Starting
  <1>5. {"exists", "version", "config", "stop"} \cap StartOps = {}
    BY DEF StartOps
  <1> QED
    BY <1>1, <1>2, <1>3, <1>4, <1>5

\* The names of the instructions.
LEMMA Named ==
    /\ \A b : Exists(b)[1] = "exists" /\ Version(b)[1] = "version" /\ Config(b)[1] = "config"
    /\ \A b : Exists(b)[2] = b /\ Version(b)[2] = b /\ Config(b)[2] = b
    /\ Stop[1] = "stop" /\ Start[1] = "start" /\ \A x \in Starting : x[1] \in StartOps
    /\ \A x \in Starting : x[1] = "start" => x = Start
  BY DEF Exists, Version, Config, Stop, Start, Starting, StartOps

\* An instruction of the handler for CRD events, by its name; likewise for the reconciler.
LEMMA CrdInstruction ==
    ASSUME NEW x \in CrdInstructions
    PROVE  /\ x[1] = "exists" => \E b \in BOOLEAN : x = Exists(b) /\ x[2] = b
           /\ x[1] = "version" => \E v \in Versions : x = Version(v) /\ x[2] = v
           /\ x[1] = "stop" => x = Stop
           /\ x[1] # "config"
           /\ x[1] \in StartOps => x \in Starting
           /\ x[1] = "start" => x = Start
  <1>1. x \in Starting \/ x = Stop \/ (\E b \in BOOLEAN : x = Exists(b)) \/ \E v \in Versions : x = Version(v)
    BY DEF CrdInstructions
  <1> QED
    BY <1>1, Named DEF StartOps

\* The same for the instructions of SetDefaultApiConfigs and RemoveDefaultApiConfigs.
LEMMA ConfigInstruction ==
    ASSUME NEW x \in ConfigInstructions
    PROVE  /\ x[1] = "config" => \E b \in BOOLEAN : x = Config(b) /\ x[2] = b
           /\ x[1] = "stop" => x = Stop
           /\ x[1] \notin {"exists", "version"}
           /\ x[1] \in StartOps => x \in Starting
           /\ x[1] = "start" => x = Start
  <1>1. x \in Starting \/ x = Stop \/ \E b \in BOOLEAN : x = Config(b)
    BY DEF ConfigInstructions
  <1> QED
    BY <1>1, Named DEF StartOps

-----------------------------------------------------------------------------
(* What chooseVersionFromCrd returns *)

\* chooseVersionFromCrd selects a supported version or none; and it selects the only version of
\* the CRD for Prometheus rules.
LEMMA VersionChoices ==
    ASSUME resourceType \in ResourceTypes
    PROVE  /\ \A served : ChooseVersion(served) \in Versions
           /\ ChooseVersion(Absent) = NoVersion
           /\ ChooseVersion(Range(Preferred)) = Preferred[1]
           /\ Preferred[1] \in Range(Preferred) /\ Preferred[1] # NoVersion
           /\ Range(Preferred) # Absent
  <1>1. Preferred \in Seq(STRING) /\ Preferred # <<>> /\ NoVersion \notin Range(Preferred)
    BY VersionsAssumption DEF Preferred
  <1>2. DOMAIN Preferred = 1 .. Len(Preferred) /\ Len(Preferred) \in Nat /\ Len(Preferred) > 0
    BY <1>1, EmptySeq
  <1>3. 1 \in DOMAIN Preferred /\ Preferred[1] \in Range(Preferred)
    BY <1>2 DEF Range
  <1>4. ASSUME NEW served PROVE ChooseVersion(served) \in Versions
    <2> DEFINE F == FirstServed(served)
    <2>1. F \subseteq DOMAIN Preferred
      BY DEF FirstServed
    <2> HIDE DEF F
    <2>2. F # {} => Preferred[CHOOSE i \in F : TRUE] \in Range(Preferred)
      BY <2>1 DEF Range
    <2>3. ChooseVersion(served) = IF F = {} THEN NoVersion ELSE Preferred[CHOOSE i \in F : TRUE]
      BY DEF ChooseVersion, F
    <2> QED
      BY <2>2, <2>3 DEF Versions
  <1>5. ChooseVersion(Absent) = NoVersion
    BY DEF ChooseVersion, FirstServed, Absent
  <1>6. ChooseVersion(Range(Preferred)) = Preferred[1]
    <2> DEFINE F == FirstServed(Range(Preferred))
    <2>1. 1 \in F
      BY <1>2, <1>3 DEF FirstServed
    <2>2. ASSUME NEW i \in F PROVE i = 1
      <3>1. i \in 1 .. Len(Preferred) /\ \A j \in 1 .. i - 1 : Preferred[j] \notin Range(Preferred)
        BY <1>2 DEF FirstServed
      <3>2. i # 1 => 1 \in 1 .. i - 1
        BY <1>2, <3>1
      <3> QED
        BY <1>3, <3>1, <3>2
    <2> HIDE DEF F
    <2>3. (CHOOSE i \in F : TRUE) = 1
      BY <2>1, <2>2
    <2>4. ChooseVersion(Range(Preferred)) = IF F = {} THEN NoVersion ELSE Preferred[CHOOSE i \in F : TRUE]
      BY DEF ChooseVersion, F
    <2> QED
      BY <2>1, <2>3, <2>4
  <1>7. Preferred[1] # NoVersion /\ Range(Preferred) # Absent
    BY <1>1, <1>3 DEF Absent
  <1> QED
    BY <1>3, <1>4, <1>5, <1>6, <1>7

-----------------------------------------------------------------------------
(* The instructions of the handlers *)

\* A program of the instructions I, in an order in which they may be.
Consists(s, I) == IsSequence(s) /\ Range(s) = I /\ Sequenced(s)

\* Programs of one instruction or none.
LEMMA Instruct ==
    /\ \A b : Consists(SetExists(b), {Exists(b)})
    /\ \A v : Consists(SetVersion(v), {Version(v)})
    /\ \A b : Consists(<<<<"config", b>>>>, {Config(b)})
    /\ Consists(StopWatch, {Stop})
    /\ Consists(<<>>, {})
  BY Single, Nothing DEF Consists, SetExists, SetVersion, StopWatch, Exists, Version, Config, Stop

\* The instructions of two programs put together.
LEMMA Both ==
    ASSUME NEW s, NEW I, NEW t, NEW J, Consists(s, I), Consists(t, J), \A x \in I, y \in J : MayFollow(x, y)
    PROVE  Consists(s \o t, I \cup J)
  BY Together DEF Consists

\* The order of the instructions.
LEMMA Follow ==
    /\ \A y : y # Stop => MayFollow(Exists(TRUE), y)
    /\ \A y : (y # Stop /\ y # Exists(TRUE)) => MayFollow(Exists(FALSE), y)
    /\ \A v, y : y # Stop => MayFollow(Version(v), y)
    /\ \A b, y : MayFollow(Config(b), y)
    /\ \A y : y[1] # "config" => MayFollow(Stop, y)
    /\ MayFollow(Exists(FALSE), Stop)
    /\ \A x, y \in Starting : MayFollow(x, y)
  <1>1. ASSUME NEW y, y # Stop
        PROVE  MayFollow(Exists(TRUE), y) /\ (y # Exists(TRUE) => MayFollow(Exists(FALSE), y))
    BY <1>1, Distinct DEF MayFollow
  <1>2. ASSUME NEW v, NEW y, y # Stop PROVE MayFollow(Version(v), y)
    BY <1>2, Distinct DEF MayFollow
  <1>3. ASSUME NEW b, NEW y PROVE MayFollow(Config(b), y)
    BY Distinct, Named DEF MayFollow
  <1>4. ASSUME NEW y, y[1] # "config" PROVE MayFollow(Stop, y)
    BY <1>4, Distinct, Named DEF MayFollow
  <1>5. MayFollow(Exists(FALSE), Stop)
    BY Distinct, Named DEF MayFollow
  <1>6. \A x, y \in Starting : MayFollow(x, y)
    BY Distinct DEF MayFollow
  <1> QED
    BY <1>1, <1>2, <1>3, <1>4, <1>5, <1>6

\* The instructions of maybeStartWatchingThirdPartyResources.
LEMMA MaybeStarts == Consists(MaybeStart, Starting)
  <1> DEFINE q == MaybeStart
  <1>1. /\ q \in Seq(Starting) /\ Len(q) = 3 /\ DOMAIN q = 1 .. 3
        /\ q[1] = <<"check">> /\ q[2] = <<"readVersion">> /\ q[3] = Start
    BY DEF MaybeStart, Starting, Start
  <1> HIDE DEF q
  <1>2. Range(q) = Starting
    <2>1. 1 .. 3 = {1, 2, 3}
      OBVIOUS
    <2> QED
      BY <1>1, <2>1 DEF Range, Starting
  <1>3. \A j, k \in 1 .. Len(q) : MayFollow(q[j], q[k])
    BY <1>1, <1>2, Follow DEF Range
  <1> QED
    BY <1>1, <1>2, <1>3 DEF Consists, Sequenced, IsSequence, q

Recording(v) == {Version(v), Exists(TRUE)}
Resetting == {Version(NoVersion), Exists(FALSE)}

\* The instructions of recordCrdVersion and resetCrdVersion, alone and within OnCreate.
LEMMA Recordings ==
    ASSUME NEW v
    PROVE  /\ Consists(RecordCrdVersion(v), Recording(v)) /\ Consists(ResetCrdVersion, Resetting)
           /\ Consists(RecordCrdVersion(v) \o MaybeStart, Recording(v) \cup Starting)
           /\ Consists(SetExists(TRUE) \o RecordCrdVersion(v) \o MaybeStart, Recording(v) \cup Starting)
           /\ Consists(SetExists(TRUE) \o ResetCrdVersion \o MaybeStart,
                    {Exists(TRUE)} \cup Resetting \cup Starting)
  <1>1. Consists(RecordCrdVersion(v), {Version(v)} \cup {Exists(TRUE)})
    <2>1. MayFollow(Version(v), Exists(TRUE))
      BY Follow, Distinct
    <2> QED
      BY <2>1, Instruct, Both DEF RecordCrdVersion
  <1>2. Consists(ResetCrdVersion, {Version(NoVersion)} \cup {Exists(FALSE)})
    <2>1. MayFollow(Version(NoVersion), Exists(FALSE))
      BY Follow, Distinct
    <2> QED
      BY <2>1, Instruct, Both DEF ResetCrdVersion
  <1>3. Consists(RecordCrdVersion(v), Recording(v)) /\ Consists(ResetCrdVersion, Resetting)
    BY <1>1, <1>2 DEF Recording, Resetting, Consists
  <1>4. \A y \in Starting : y # Stop /\ \A b : y # Exists(b)
    BY Distinct
  <1>5. \A y \in Starting : MayFollow(Exists(TRUE), y) /\ MayFollow(Exists(FALSE), y) /\ \A w : MayFollow(Version(w), y)
    BY <1>4, Follow
  <1>6. Consists(RecordCrdVersion(v) \o MaybeStart, Recording(v) \cup Starting)
    <2>1. \A x \in Recording(v), y \in Starting : MayFollow(x, y)
      BY <1>5 DEF Recording
    <2> QED
      BY <1>3, <2>1, Both, MaybeStarts
  <1>7. \A w, b : /\ MayFollow(Exists(TRUE), Version(w)) /\ MayFollow(Exists(TRUE), Exists(b))
    BY Follow, Distinct
  <1>8. Consists(SetExists(TRUE) \o RecordCrdVersion(v), {Exists(TRUE)} \cup Recording(v))
    <2>1. \A x \in {Exists(TRUE)}, y \in Recording(v) : MayFollow(x, y)
      BY <1>7 DEF Recording
    <2> QED
      BY <1>3, <2>1, Both, Instruct
  <1>9. Consists(SetExists(TRUE) \o ResetCrdVersion, {Exists(TRUE)} \cup Resetting)
    <2>1. \A x \in {Exists(TRUE)}, y \in Resetting : MayFollow(x, y)
      BY <1>7 DEF Resetting
    <2> QED
      BY <1>3, <2>1, Both, Instruct
  <1>10. Consists(SetExists(TRUE) \o RecordCrdVersion(v) \o MaybeStart, Recording(v) \cup Starting)
    <2>1. \A x \in {Exists(TRUE)} \cup Recording(v), y \in Starting : MayFollow(x, y)
      BY <1>5 DEF Recording
    <2>2. {Exists(TRUE)} \cup Recording(v) = Recording(v)
      BY DEF Recording
    <2> QED
      BY <1>8, <2>1, <2>2, Both, MaybeStarts
  <1>11. Consists(SetExists(TRUE) \o ResetCrdVersion \o MaybeStart, ({Exists(TRUE)} \cup Resetting) \cup Starting)
    <2>1. \A x \in {Exists(TRUE)} \cup Resetting, y \in Starting : MayFollow(x, y)
      BY <1>5 DEF Resetting
    <2> QED
      BY <1>9, <2>1, Both, MaybeStarts
  <1> QED
    BY <1>3, <1>6, <1>10, <1>11

\* What OnCreate, OnDelete and OnConfig are going to do.
LEMMA HandlersConsist ==
    ASSUME NEW served, NEW valid \in BOOLEAN
    PROVE  /\ ~WantsCrdUpdateEvents => Consists(OnCreate(served), {Exists(TRUE)} \cup Starting)
           /\ (WantsCrdUpdateEvents /\ ChooseVersion(served) # NoVersion) =>
                 Consists(OnCreate(served), Recording(ChooseVersion(served)) \cup Starting)
           /\ (WantsCrdUpdateEvents /\ ChooseVersion(served) = NoVersion) =>
                 Consists(OnCreate(served), {Exists(TRUE)} \cup Resetting \cup Starting)
           /\ Consists(OnDelete, {Exists(FALSE), Stop})
           /\ Consists(OnConfig(valid), {Config(valid)} \cup (IF valid THEN Starting ELSE {Stop}))
  <1>1. ASSUME ~WantsCrdUpdateEvents PROVE Consists(OnCreate(served), {Exists(TRUE)} \cup Starting)
    <2>1. SetExists(TRUE) \o <<>> = SetExists(TRUE)
      BY DEF SetExists
    <2>2. \A y \in Starting : MayFollow(Exists(TRUE), y)
      BY Follow, Distinct
    <2>3. Consists(SetExists(TRUE) \o MaybeStart, {Exists(TRUE)} \cup Starting)
      BY <2>2, Instruct, MaybeStarts, Both
    <2> QED
      BY <1>1, <2>1, <2>3 DEF OnCreate, OnCrdChange
  <1>2. WantsCrdUpdateEvents /\ ChooseVersion(served) # NoVersion =>
          Consists(OnCreate(served), Recording(ChooseVersion(served)) \cup Starting)
    BY Recordings DEF OnCreate, OnCrdChange
  <1>3. WantsCrdUpdateEvents /\ ChooseVersion(served) = NoVersion =>
          Consists(OnCreate(served), {Exists(TRUE)} \cup Resetting \cup Starting)
    BY Recordings DEF OnCreate, OnCrdChange
  <1>4. Consists(OnDelete, {Exists(FALSE), Stop})
    <2>1. \A x \in {Exists(FALSE)}, y \in {Stop} : MayFollow(x, y)
      BY Follow
    <2>2. Consists(OnDelete, {Exists(FALSE)} \cup {Stop})
      BY <2>1, Both, Instruct DEF OnDelete
    <2> QED
      BY <2>2 DEF Consists
  <1>5. Consists(OnConfig(valid), {Config(valid)} \cup (IF valid THEN Starting ELSE {Stop}))
    <2>1. \A y : MayFollow(Config(valid), y)
      BY Follow
    <2>2. Consists(<<<<"config", valid>>>> \o MaybeStart, {Config(valid)} \cup Starting)
      BY <2>1, Both, Instruct, MaybeStarts
    <2>3. Consists(<<<<"config", valid>>>> \o StopWatch, {Config(valid)} \cup {Stop})
      BY <2>1, Both, Instruct
    <2> QED
      BY <2>2, <2>3 DEF OnConfig
  <1> QED
    BY <1>1, <1>2, <1>3, <1>4, <1>5

\* What handleVersionChangeOnUpdate is going to do.
LEMMA UpdateConsists ==
    ASSUME NEW served
    PROVE  LET new == ChooseVersion(served)
               s == HandleVersionChangeOnUpdate(served) IN
           /\ new = NoVersion => Consists(s, (IF crdExists /\ IsWatching THEN {Stop} ELSE {}) \cup Resetting)
           /\ (new # NoVersion /\ crdExists /\ crdVersion = new) => Consists(s, {})
           /\ (new # NoVersion /\ ~(crdExists /\ crdVersion = new) /\ ~IsWatching) =>
                 Consists(s, Recording(new) \cup (IF crdExists THEN {} ELSE Starting))
           /\ (new # NoVersion /\ ~(crdExists /\ crdVersion = new) /\ IsWatching) =>
                 Consists(s, {Stop} \cup Recording(new) \cup Starting)
  <1> DEFINE new == ChooseVersion(served)
             s == HandleVersionChangeOnUpdate(served)
             first == IF crdExists /\ IsWatching THEN StopWatch ELSE <<>>
             last == IF crdExists THEN <<>> ELSE MaybeStart
  <1>1. s = IF new = NoVersion THEN first \o ResetCrdVersion
            ELSE IF crdExists /\ crdVersion = new THEN <<>>
            ELSE IF ~IsWatching THEN RecordCrdVersion(new) \o last
            ELSE StopWatch \o RecordCrdVersion(new) \o MaybeStart
    BY DEF HandleVersionChangeOnUpdate
  <1> HIDE DEF new, s
  <1>2. \A y \in Resetting \cup Recording(new) : MayFollow(Stop, y)
    BY Follow, Named DEF Resetting, Recording
  <1>3. Consists(first \o ResetCrdVersion, (IF crdExists /\ IsWatching THEN {Stop} ELSE {}) \cup Resetting)
    <2>1. Consists(first, IF crdExists /\ IsWatching THEN {Stop} ELSE {})
      BY Instruct
    <2>2. \A x \in IF crdExists /\ IsWatching THEN {Stop} ELSE {}, y \in Resetting : MayFollow(x, y)
      BY <1>2
    <2> HIDE DEF first
    <2> QED
      BY <2>1, <2>2, Recordings, Both
  <1>4. Consists(RecordCrdVersion(new) \o last, Recording(new) \cup (IF crdExists THEN {} ELSE Starting))
    <2>1. Consists(RecordCrdVersion(new) \o <<>>, Recording(new) \cup {})
      BY Recordings, Instruct, Both
    <2> QED
      BY <2>1, Recordings
  <1>5. Consists(StopWatch \o RecordCrdVersion(new) \o MaybeStart, {Stop} \cup Recording(new) \cup Starting)
    <2>1. Consists(StopWatch \o RecordCrdVersion(new), {Stop} \cup Recording(new))
      BY <1>2, Recordings, Instruct, Both
    <2>2. \A x \in {Stop} \cup Recording(new), y \in Starting : MayFollow(x, y)
      <3>1. \A y \in Starting : y # Stop /\ y # Exists(TRUE) /\ y[1] # "config"
        BY Distinct, Named DEF StartOps
      <3> QED
        BY <3>1, Follow DEF Recording
    <2> QED
      BY <2>1, <2>2, MaybeStarts, Both
  <1>6. Consists(<<>>, {})
    BY Instruct
  <1> HIDE DEF first, last
  <1>7. /\ new = NoVersion => Consists(s, (IF crdExists /\ IsWatching THEN {Stop} ELSE {}) \cup Resetting)
        /\ (new # NoVersion /\ crdExists /\ crdVersion = new) => Consists(s, {})
        /\ (new # NoVersion /\ ~(crdExists /\ crdVersion = new) /\ ~IsWatching) =>
              Consists(s, Recording(new) \cup (IF crdExists THEN {} ELSE Starting))
        /\ (new # NoVersion /\ ~(crdExists /\ crdVersion = new) /\ IsWatching) =>
              Consists(s, {Stop} \cup Recording(new) \cup Starting)
    BY <1>1, <1>3, <1>4, <1>5, <1>6
  <1> QED
    BY <1>7 DEF new, s

-----------------------------------------------------------------------------
(* The invariant *)

\* The types, the instructions that the two goroutines may have left, and their order.
WellTyped ==
    /\ TypeOK
    /\ resourceType \in ResourceTypes /\ crd \in CrdStates
    /\ ownVersion \in Versions /\ failures \in Nat
    /\ Left("crd") \subseteq CrdInstructions
    /\ Left("config") \subseteq ConfigInstructions
    /\ \A p \in Procs : Sequenced(todo[p])

\* Once the handler for CRD events is done, crdExists and crdVersion are right for these versions.
Settles(served) ==
    IF ChooseVersion(served) = NoVersion
    THEN Exists(FALSE) \in Left("crd") \/ (~crdExists /\ Exists(TRUE) \notin Left("crd"))
    ELSE /\ Exists(FALSE) \notin Left("crd")
         /\ crdExists \/ Exists(TRUE) \in Left("crd")
         /\ \A v \in Versions : Version(v) \in Left("crd") => v = ChooseVersion(served)
         /\ crdVersion = ChooseVersion(served) \/ Version(ChooseVersion(served)) \in Left("crd")

EventIsKnown(e) ==
    /\ e.type \in {"create", "update", "delete"}
    /\ e.served \in CrdStates
    /\ e.type = "delete" <=> e.served = Absent
    /\ e.type = "update" => WantsCrdUpdateEvents

\* The last event tells what the CRD is now; and a created CRD was not there before, unless it
\* was found when the manager was set up.
EventsInv ==
    /\ IsSequence(events)
    /\ \A k \in 1 .. Len(events) : EventIsKnown(events[k])
    /\ \A k \in 2 .. Len(events) : events[k].type = "create" => events[k - 1].served = Absent
    /\ events = <<>> => Settles(crd)
    /\ events # <<>> => events[Len(events)].served = crd
    /\ (events # <<>> /\ events[1].type = "create") => Settles(Absent) \/ Settles(events[1].served)

\* Prometheus rules have a single version, which is never written; that the CRD is gone is
\* followed by the stop.
RulesInv ==
    ~WantsCrdUpdateEvents =>
        /\ crdVersion = Preferred[1]
        /\ \A v \in Versions : Version(v) \notin Left("crd")
        /\ Exists(FALSE) \in Left("crd") => Stop \in Left("crd") /\ LastLeft("crd") = Stop

\* A handler that stops the watch has a reason for it, or starts it again.
HandlersInv ==
    /\ Stop \in Left("config") => /\ Start \notin Left("config") /\ Config(TRUE) \notin Left("config")
                                  /\ Config(FALSE) \in Left("config") \/ ~configValid
    /\ Config(TRUE) \in Left("config") => Start \in Left("config")
    /\ Config(FALSE) \in Left("config") => Stop \in Left("config")
    /\ Stop \in Left("crd") => Exists(FALSE) \in Left("crd") \/ Start \in Left("crd") \/ ~crdExists
    /\ (Exists(TRUE) \in Left("crd") /\ Start \notin Left("crd")) => crdExists /\ Exists(FALSE) \notin Left("crd")

\* The stop function is that of a controller that has not been stopped.
StoppableInv ==
    IsWatching => /\ controllers[stopFunction].state \in {"running", "failed"}
                  /\ failures = 0 => controllers[stopFunction].state = "running"

\* A watch that should not be there will be stopped, and one that should be there will be
\* started; it is on the version that is stored, and this version will not be replaced under it.
FollowsInv ==
    /\ (IsWatching \/ lock # "free") => /\ configValid \/ Stop \in Left("config")
                                        /\ crdExists \/ Stop \in Left("crd")
    /\ (Exists(FALSE) \in Left("crd") /\ Stop \notin Left("crd")) => ~IsWatching /\ lock = "free"
    /\ (IsWatching /\ Stop \notin Left("crd")) =>
          \A v \in Versions : Version(v) \in Left("crd") => v = crdVersion
    /\ IsWatching => controllers[stopFunction].version = crdVersion
    /\ \A p \in Procs : Does(p, "start") => ownVersion = crdVersion
    /\ failures = 0 => informers = IF IsWatching THEN {crdVersion} ELSE {}
    /\ (failures = 0 /\ crdExists /\ configValid /\ ~IsWatching) =>
          Start \in Left("crd") \cup Left("config") \/ Exists(FALSE) \in Left("crd")

\* For Perses dashboards this is true as long as the handlers do not overlap.
OneAtATime == WantsCrdUpdateEvents => Idle("crd") \/ Idle("config")

FollowInv ==
    /\ WellTyped /\ EventsInv /\ RulesInv /\ HandlersInv /\ StoppableInv
    /\ InOrder => FollowsInv /\ OneAtATime

-----------------------------------------------------------------------------

\* Before anything has happened.
LEMMA InitFollow == Init => FollowInv
  <1> SUFFICES ASSUME Init PROVE FollowInv
    OBVIOUS
  <1>1. \A p \in Procs : todo[p] = <<>>
    BY DEF Init
  <1>2. Left("crd") = {} /\ Left("config") = {}
    BY <1>1, Nothing DEF Left, Procs
  <1>3. /\ ChooseVersion(crd) \in Versions /\ Preferred[1] \in Versions
        /\ ChooseVersion(Range(Preferred)) = Preferred[1] /\ ChooseVersion(Absent) = NoVersion
    BY VersionChoices DEF Init, Versions
  <1>4. Len(controllers) = 0 /\ DOMAIN controllers = {}
    BY DEF Init
  <1>5. WellTyped
    <2>1. crdVersion \in Versions
      BY <1>3 DEF Init
    <2>2. TypeOK
      <3>1. crdExists \in BOOLEAN /\ configValid \in BOOLEAN /\ overlapped \in BOOLEAN
        BY DEF Init
      <3>2. stopFunction \in 0 .. Len(controllers) /\ informers = {} /\ lock = "free"
        BY <1>4 DEF Init
      <3> QED
        BY <1>4, <2>1, <3>1, <3>2 DEF TypeOK, Versions
    <2>3. \A p \in Procs : Sequenced(todo[p])
      BY <1>1, Nothing
    <2> QED
      BY <1>2, <2>2, <2>3 DEF Init, WellTyped, Versions
  <1>6. Settles(crd)
    <2>1. ~WantsCrdUpdateEvents => crd \in {Absent, Range(Preferred)}
      BY DEF Init, CrdStates
    <2>2. ChooseVersion(crd) # NoVersion => crdVersion = ChooseVersion(crd)
      BY <1>3, <2>1 DEF Init
    <2> QED
      BY <1>2, <2>2 DEF Init, Settles
  <1>7. EventsInv
    <2>1. CASE crd = Absent
      <3>1. events = <<>> /\ Len(events) = 0
        BY <2>1 DEF Init
      <3>2. IsSequence(events)
        BY <3>1, Nothing
      <3> QED
        BY <1>6, <3>1, <3>2 DEF EventsInv
    <2>2. CASE crd # Absent
      <3> DEFINE e == [type |-> "create", served |-> crd]
      <3>1. events = <<e>> /\ e.type = "create" /\ e.served = crd
        BY <2>2 DEF Init
      <3> HIDE DEF e
      <3>2. IsSequence(events) /\ Len(events) = 1 /\ events[1] = e /\ events # <<>>
        BY <3>1, Single
      <3>3. EventIsKnown(e)
        BY <2>2, <3>1 DEF EventIsKnown, Init
      <3>4. \A k \in 1 .. Len(events) : EventIsKnown(events[k])
        BY <3>2, <3>3
      <3>5. \A k \in 2 .. Len(events) : FALSE
        BY <3>2
      <3> QED
        BY <1>6, <3>1, <3>2, <3>4, <3>5 DEF EventsInv
    <2> QED
      BY <2>1, <2>2
  <1>8. RulesInv /\ HandlersInv /\ StoppableInv
    BY <1>2 DEF RulesInv, HandlersInv, StoppableInv, Init, IsWatching
  <1>9. FollowsInv /\ OneAtATime
    BY <1>1, <1>2 DEF FollowsInv, OneAtATime, Init, IsWatching, Does, Idle, Procs
  <1> QED
    BY <1>5, <1>7, <1>8, <1>9 DEF FollowInv

\* Neither the supported versions nor the instructions change.
LEMMA SameType ==
    ASSUME UNCHANGED resourceType
    PROVE  /\ Preferred' = Preferred /\ Versions' = Versions /\ CrdStates' = CrdStates
           /\ WantsCrdUpdateEvents' = WantsCrdUpdateEvents
           /\ CrdInstructions' = CrdInstructions /\ ConfigInstructions' = ConfigInstructions
           /\ \A s : ChooseVersion(s)' = ChooseVersion(s)
  <1>1. Preferred' = Preferred /\ WantsCrdUpdateEvents' = WantsCrdUpdateEvents
    BY DEF Preferred, WantsCrdUpdateEvents
  <1>2. Versions' = Versions /\ CrdStates' = CrdStates /\ \A s : ChooseVersion(s)' = ChooseVersion(s)
    BY <1>1 DEF Versions, CrdStates, ChooseVersion, FirstServed
  <1> QED
    BY <1>1, <1>2 DEF CrdInstructions, ConfigInstructions

\* What has been settled by the handler for CRD events stays so.
LEMMA SettlesStays ==
    ASSUME UNCHANGED <<resourceType, crdExists, crdVersion>>, Left("crd")' = Left("crd")
    PROVE  \A s : Settles(s) => Settles(s)'
  BY SameType DEF Settles

\* The events are left alone, and what is settled stays so.
LEMMA EventsStay ==
    ASSUME EventsInv, UNCHANGED <<resourceType, events, crd>>, \A s : Settles(s) => Settles(s)'
    PROVE  EventsInv'
  <1>1. \A e : EventIsKnown(e)' <=> EventIsKnown(e)
    BY SameType DEF EventIsKnown
  <1> QED
    BY <1>1 DEF EventsInv

\* Goroutines come to the end of their programs by going on, or at once.
LEMMA RulesStay ==
    ASSUME RulesInv, UNCHANGED <<resourceType, crdVersion>>,
           Left("crd")' \subseteq Left("crd"),
           Left("crd")' = {} \/ (LastLeft("crd")' = LastLeft("crd") /\ LastLeft("crd") \in Left("crd")')
    PROVE  RulesInv'
  BY SameType DEF RulesInv

\* The CRD changes; the handler for CRD events will hear of it.
LEMMA CrdChangesFollow ==
    ASSUME FollowInv, CrdChanges
    PROVE  FollowInv'
  <1> DEFINE n == Len(events)
             Type(served) == CASE crd = Absent -> "create" [] served = Absent -> "delete" [] OTHER -> "update"
  <1>1. PICK served \in CrdStates :
          /\ served # crd /\ crd' = served
          /\ events' = Append(events, [type |-> Type(served), served |-> served])
    BY DEF CrdChanges
  <1> DEFINE e == [type |-> Type(served), served |-> served]
  <1>2. UNCHANGED <<resourceType, overlapped, crdExists, crdVersion, configValid, lock, todo, ownVersion,
                    controllers, stopFunction, informers, failures>>
    BY DEF CrdChanges, watch
  <1>3. /\ e.served = served
        /\ e.type = "create" <=> crd = Absent
        /\ e.type \in {"create", "update", "delete"}
        /\ e.type = "delete" <=> (crd # Absent /\ served = Absent)
    <2>1. e.served = served /\ e.type = Type(served)
      OBVIOUS
    <2>2. /\ crd = Absent => Type(served) = "create"
          /\ (crd # Absent /\ served = Absent) => Type(served) = "delete"
          /\ (crd # Absent /\ served # Absent) => Type(served) = "update"
      BY <1>1
    <2> HIDE DEF e, Type
    <2> QED
      BY <2>1, <2>2
  <1> HIDE DEF e, Type
  <1>4. EventIsKnown(e)
    <2>1. crd \in CrdStates
      BY DEF FollowInv, WellTyped
    <2>2. e.type = "update" => WantsCrdUpdateEvents
      BY <1>1, <1>3, <2>1 DEF CrdStates
    <2> QED
      BY <1>1, <1>3, <2>2 DEF EventIsKnown
  <1>5. \A p : Left(p)' = Left(p)
    BY <1>2 DEF Left
  <1>6. \A s : Settles(s) => Settles(s)'
    BY <1>2, <1>5, SettlesStays
  <1>7. EventsInv'
    <2>1. PICK S : events \in Seq(S)
      BY DEF FollowInv, EventsInv, IsSequence
    <2>2. events \in Seq(S \cup {e})
      BY <2>1
    <2>3. /\ events' \in Seq(S \cup {e}) /\ n \in Nat /\ Len(events') = n + 1
          /\ \A k \in 1 .. n : events'[k] = events[k]
          /\ events'[n + 1] = e
          /\ events = <<>> <=> n = 0
      BY <1>1, <2>2, EmptySeq DEF e
    <2>4. events' # <<>>
      BY <2>3
    <2> HIDE DEF n
    <2>6. ASSUME NEW k \in 1 .. n + 1 PROVE EventIsKnown(events'[k])
      <3>1. k = n + 1 \/ k \in 1 .. n
        BY <2>3
      <3> QED
        BY <1>4, <2>3, <3>1 DEF FollowInv, EventsInv, n
    <2>7. ASSUME NEW k \in 2 .. n + 1, events'[k].type = "create" PROVE events'[k - 1].served = Absent
      <3>1. CASE k = n + 1
        <4>1. n \in 1 .. n /\ k - 1 = n /\ n # 0
          BY <2>3, <3>1
        <4>2. events'[k - 1] = events[n] /\ events[n].served = crd
          BY <2>3, <4>1 DEF FollowInv, EventsInv, n
        <4> QED
          BY <1>3, <2>3, <2>7, <3>1, <4>2
      <3>2. CASE k # n + 1
        <4>1. k \in 2 .. n /\ k \in 1 .. n /\ k - 1 \in 1 .. n
          BY <2>3, <3>2
        <4>2. events'[k] = events[k] /\ events'[k - 1] = events[k - 1]
          BY <2>3, <4>1
        <4> QED
          BY <2>7, <4>1, <4>2 DEF FollowInv, EventsInv, n
      <3> QED
        BY <3>1, <3>2
    <2>8. \E f : f = events'[1] /\ (f.type = "create" => Settles(Absent)' \/ Settles(f.served)')
      <3>1. CASE n = 0
        <4>1. events'[1] = e /\ events = <<>>
          BY <2>3, <3>1
        <4>2. e.type = "create" => Settles(Absent)'
          BY <1>3, <1>6, <4>1 DEF FollowInv, EventsInv
        <4> QED
          BY <4>1, <4>2
      <3>2. CASE n # 0
        <4>1. events'[1] = events[1] /\ events # <<>>
          BY <2>3, <3>2
        <4> PICK f : f = events[1]
          OBVIOUS
        <4>2. f.type = "create" => Settles(Absent) \/ Settles(f.served)
          BY <4>1 DEF FollowInv, EventsInv
        <4>3. f.type = "create" => Settles(Absent)' \/ Settles(f.served)'
          BY <1>6, <4>2
        <4> QED
          BY <4>1, <4>3
      <3> QED
        BY <3>1, <3>2
    <2>9. (events # <<>> /\ events[1].type = "create" => Settles(Absent) \/ Settles(events[1].served))'
      BY <2>8 DEF Settles
    <2>10. (events # <<>> => events[Len(events)].served = crd)'
      BY <1>1, <1>3, <2>3
    <2>11. (\A k \in 1 .. Len(events) : EventIsKnown(events[k]))'
      BY <2>3, <2>6, <1>2, SameType DEF EventIsKnown
    <2>12. (\A k \in 2 .. Len(events) : events[k].type = "create" => events[k - 1].served = Absent)'
      BY <2>3, <2>7
    <2> QED
      BY <2>3, <2>4, <2>9, <2>10, <2>11, <2>12 DEF EventsInv, IsSequence
  <1>8. WellTyped'
    BY <1>1, <1>2, <1>5, SameType DEF FollowInv, WellTyped, TypeOK
  <1>9. RulesInv' /\ HandlersInv' /\ StoppableInv'
    BY <1>2, <1>5, SameType DEF FollowInv, RulesInv, HandlersInv, StoppableInv, IsWatching, LastLeft
  <1>10. (InOrder => FollowsInv /\ OneAtATime)'
    BY <1>2, <1>5, SameType DEF FollowInv, FollowsInv, OneAtATime, InOrder, IsWatching, Does, Idle
  <1> QED
    BY <1>7, <1>8, <1>9, <1>10 DEF FollowInv

-----------------------------------------------------------------------------
(* A goroutine carries out its next instruction *)

\* What is left to the goroutine p before its next instruction is this instruction and what is
\* left to it afterwards.
LEMMA GoesOn ==
    ASSUME FollowInv, WatchInv, NEW p \in Procs, NEW op, Does(p, op), Continue(p), UNCHANGED resourceType
    PROVE  /\ Head(todo[p])[1] = op
           /\ Left(p) = {Head(todo[p])} \cup Left(p)'
           /\ \A q \in Procs \ {p} : todo'[q] = todo[q] /\ Left(q)' = Left(q)
           /\ \A y \in Left(p)' : MayFollow(Head(todo[p]), y)
           /\ \A q \in Procs : Sequenced(todo[q])'
           /\ Left("crd")' \subseteq CrdInstructions' /\ Left("config")' \subseteq ConfigInstructions'
           /\ OneAtATime => OneAtATime'
           /\ op = "start" => Left(p)' = {}
           /\ op \in StartOps => \A x \in Left(p) : x[1] \in StartOps
           /\ op = "check" => Start \in Left(p)
           /\ op # "readVersion" => \A q \in Procs : Does(q, "start")' => Does(q, "start")
           /\ crdVersion' = crdVersion => RulesInv'
  <1> DEFINE s == todo[p]
  <1>1. Ordered(s) /\ IsSequence(s) /\ s # <<>> /\ Head(s)[1] = op /\ DOMAIN todo = Procs /\ Sequenced(s)
    BY DEF WatchInv, Disciplined, Ordered, Does, FollowInv, WellTyped
  <1>2. todo'[p] = Tail(s) /\ \A q \in Procs \ {p} : todo'[q] = todo[q]
    BY <1>1 DEF Continue
  <1>3. /\ Range(s) = {Head(s)} \cup Range(Tail(s))
        /\ Sequenced(Tail(s)) /\ \A y \in Range(Tail(s)) : MayFollow(Head(s), y)
        /\ Tail(s) = <<>> \/ (Tail(s)[Len(Tail(s))] = s[Len(s)] /\ s[Len(s)] \in Range(Tail(s)))
    BY <1>1, FirstAndRest
  <1>4. \A q : Left(q)' = Range(todo'[q])
    BY DEF Left
  <1> HIDE DEF s
  <1>5. Left(p) = Range(s) /\ Left(p)' = Range(Tail(s)) /\ \A q \in Procs \ {p} : Left(q)' = Left(q)
    BY <1>2, <1>4 DEF Left, s
  <1>6. \A q \in Procs : Left(q)' \subseteq Left(q)
    BY <1>3, <1>5
  <1>7. Left("crd")' \subseteq CrdInstructions' /\ Left("config")' \subseteq ConfigInstructions'
    BY <1>6, SameType DEF FollowInv, WellTyped, Procs
  <1>8. \A q \in Procs : Sequenced(todo[q])'
    BY <1>2, <1>3 DEF FollowInv, WellTyped, Sequenced
  <1>9. OneAtATime => OneAtATime'
    BY <1>1, <1>2, SameType DEF OneAtATime, Idle, s, Procs
  <1>10. op = "start" => Left(p)' = {}
    BY <1>1, <1>5, StartComesLast, Nothing
  <1>11. op \in StartOps => \A x \in Left(p) : x[1] \in StartOps
    BY <1>1, <1>5, StartComesLast DEF StartOps
  <1>12. op = "check" => Start \in Left(p)
    <2>1. \A x \in Left(p) : x[1] = "start" => x = Start
      BY CrdInstruction, ConfigInstruction DEF FollowInv, WellTyped, Procs
    <2> QED
      BY <1>1, <1>5, <2>1, StartComesLast
  <1>13. op # "readVersion" => \A q \in Procs : Does(q, "start")' => Does(q, "start")
    <2>1. ASSUME op # "readVersion" PROVE ~(Tail(s) # <<>> /\ Head(Tail(s))[1] = "start")
      BY <2>1, StepForward DEF s, NextOp
    <2> QED
      BY <1>2, <2>1 DEF Does
  <1>14. ASSUME crdVersion' = crdVersion PROVE RulesInv'
    <2>1. CASE p = "crd"
      <3>1. LastLeft("crd") = s[Len(s)] /\ LastLeft("crd")' = Tail(s)[Len(Tail(s))]
        BY <1>2, <2>1 DEF LastLeft, s
      <3>2. Left("crd")' = {} \/ (LastLeft("crd")' = LastLeft("crd") /\ LastLeft("crd") \in Left("crd")')
        BY <1>3, <1>5, <2>1, <3>1, Nothing
      <3> QED
        BY <1>6, <1>14, <3>2, RulesStay DEF FollowInv, Procs
    <2>2. CASE p = "config"
      <3>1. todo'["crd"] = todo["crd"] /\ Left("crd")' = Left("crd")
        BY <1>2, <1>5, <2>2 DEF Procs
      <3> QED
        BY <1>14, <3>1, SameType DEF FollowInv, RulesInv, LastLeft
    <2> QED
      BY <2>1, <2>2 DEF Procs
  <1> QED
    BY <1>1, <1>2, <1>3, <1>5, <1>7, <1>8, <1>9, <1>10, <1>11, <1>12, <1>13, <1>14 DEF s

\* The part of the types that most steps leave alone.
LEMMA TypesStay ==
    ASSUME WellTyped, UNCHANGED <<resourceType, crd, lock, controllers, stopFunction, informers, overlapped>>,
           crdExists' \in BOOLEAN, configValid' \in BOOLEAN, crdVersion' \in Versions, ownVersion' \in Versions,
           failures' \in Nat, \A q \in Procs : Sequenced(todo[q])',
           Left("crd")' \subseteq CrdInstructions', Left("config")' \subseteq ConfigInstructions'
    PROVE  WellTyped'
  BY SameType DEF WellTyped, TypeOK, Versions

\* The handler for CRD events notes whether the CRD exists.
LEMMA StoreExistsFollows ==
    ASSUME FollowInv, WatchInv, NEW p \in Procs, StoreExists(p)
    PROVE  FollowInv'
  <1> DEFINE A == Left("crd")
             B == Left("config")
             h == Head(todo[p])
  <1>1. /\ Does(p, "exists") /\ Continue(p) /\ crdExists' = h[2]
        /\ UNCHANGED <<resourceType, overlapped, crd, events, controllers, stopFunction, informers, failures,
                       crdVersion, configValid, lock, ownVersion>>
    BY DEF StoreExists, Argument, cluster, watch
  <1>2. /\ h[1] = "exists" /\ Left(p) = {h} \cup Left(p)'
        /\ \A q \in Procs \ {p} : todo'[q] = todo[q] /\ Left(q)' = Left(q)
        /\ \A y \in Left(p)' : MayFollow(h, y)
        /\ \A q \in Procs : Sequenced(todo[q])'
        /\ A' \subseteq CrdInstructions' /\ B' \subseteq ConfigInstructions'
        /\ OneAtATime => OneAtATime'
        /\ \A q \in Procs : Does(q, "start")' => Does(q, "start")
    BY <1>1, GoesOn
  <1>3. p = "crd"
    BY <1>2, ConfigInstruction DEF FollowInv, WellTyped, Procs
  <1>4. PICK b \in BOOLEAN : h = Exists(b) /\ h[2] = b
    BY <1>2, <1>3, CrdInstruction DEF FollowInv, WellTyped
  <1>5. A = {Exists(b)} \cup A' /\ B' = B /\ (crdExists' <=> b)
    BY <1>1, <1>2, <1>3, <1>4 DEF Procs
  <1>6. b => crdExists' /\ Stop \notin A' /\ Exists(TRUE) \in A /\ (Exists(FALSE) \in A <=> Exists(FALSE) \in A')
    <2> SUFFICES ASSUME b = TRUE PROVE Stop \notin A' /\ (Exists(FALSE) \in A <=> Exists(FALSE) \in A')
      BY <1>5
    <2> QED
      BY <1>2, <1>3, <1>4, <1>5, Distinct DEF MayFollow
  <1>7. ~b => ~crdExists' /\ Exists(TRUE) \notin A' /\ Exists(TRUE) \notin A /\ Exists(FALSE) \in A
    <2> SUFFICES ASSUME b = FALSE PROVE Exists(TRUE) \notin A' /\ Exists(TRUE) \notin A
      BY <1>5
    <2> QED
      BY <1>2, <1>3, <1>4, <1>5, Distinct DEF MayFollow
  <1>8. /\ Stop \in A' <=> Stop \in A
        /\ Start \in A' <=> Start \in A
        /\ \A v : Version(v) \in A' <=> Version(v) \in A
        /\ A' \subseteq A
    BY <1>5, Distinct
  <1>9. WellTyped'
    <2>1. crdExists' \in BOOLEAN
      BY <1>1, <1>4
    <2>2. WellTyped /\ configValid \in BOOLEAN /\ crdVersion \in Versions /\ ownVersion \in Versions /\ failures \in Nat
      BY DEF FollowInv, WellTyped, TypeOK, Versions
    <2> QED
      BY <1>1, <1>2, <2>1, <2>2, TypesStay
  <1> HIDE DEF A, B, h
  <1>10. EventsInv'
    <2>1. ASSUME NEW s, Settles(s) PROVE Settles(s)'
      <3>1. ChooseVersion(s)' = ChooseVersion(s) /\ Versions' = Versions
        BY <1>1, SameType
      <3>2. CASE ChooseVersion(s) = NoVersion
        BY <1>6, <1>7, <2>1, <3>1, <3>2 DEF Settles, A
      <3>3. CASE ChooseVersion(s) # NoVersion
        BY <1>1, <1>6, <1>7, <1>8, <2>1, <3>1, <3>3 DEF Settles, A
      <3> QED
        BY <3>2, <3>3
    <2> QED
      BY <1>1, <2>1, EventsStay DEF FollowInv
  <1>11. RulesInv'
    BY <1>1, GoesOn
  <1>12. HandlersInv'
    BY <1>1, <1>5, <1>6, <1>7, <1>8 DEF FollowInv, HandlersInv, A, B
  <1>13. StoppableInv'
    BY <1>1 DEF FollowInv, StoppableInv, IsWatching
  <1>14. ASSUME FollowsInv PROVE FollowsInv'
    <2>1. Versions' = Versions /\ (IsWatching' <=> IsWatching)
      BY <1>1, SameType DEF IsWatching
    <2>2. (crdExists' /\ ~crdExists) => Start \in A
      BY <1>6, <1>7 DEF FollowInv, HandlersInv, A
    <2> QED
      BY <1>1, <1>2, <1>5, <1>6, <1>7, <1>8, <1>14, <2>1, <2>2 DEF FollowsInv, A, B
  <1> QED
    BY <1>1, <1>2, <1>9, <1>10, <1>11, <1>12, <1>13, <1>14 DEF FollowInv, InOrder

\* The handler for CRD events notes the version; no watch is on another one.
LEMMA StoreVersionFollows ==
    ASSUME FollowInv, WatchInv, NEW p \in Procs, StoreVersion(p)
    PROVE  FollowInv'
  <1> DEFINE A == Left("crd")
             B == Left("config")
             h == Head(todo[p])
  <1>1. /\ Does(p, "version") /\ Continue(p) /\ crdVersion' = h[2]
        /\ UNCHANGED <<resourceType, overlapped, crd, events, controllers, stopFunction, informers, failures,
                       crdExists, configValid, lock, ownVersion>>
    BY DEF StoreVersion, Argument, cluster, watch
  <1>2. /\ h[1] = "version" /\ Left(p) = {h} \cup Left(p)'
        /\ \A q \in Procs \ {p} : todo'[q] = todo[q] /\ Left(q)' = Left(q)
        /\ \A y \in Left(p)' : MayFollow(h, y)
        /\ \A q \in Procs : Sequenced(todo[q])'
        /\ A' \subseteq CrdInstructions' /\ B' \subseteq ConfigInstructions'
        /\ OneAtATime => OneAtATime'
        /\ \A q \in Procs : Does(q, "start")' => Does(q, "start")
    BY <1>1, GoesOn
  <1>3. p = "crd"
    BY <1>2, ConfigInstruction DEF FollowInv, WellTyped, Procs
  <1>4. PICK v \in Versions : h = Version(v) /\ h[2] = v
    BY <1>2, <1>3, CrdInstruction DEF FollowInv, WellTyped
  <1>5. A = {Version(v)} \cup A' /\ B' = B /\ crdVersion' = v /\ Stop \notin A'
    BY <1>1, <1>2, <1>3, <1>4 DEF Procs, MayFollow
  <1>6. /\ Stop \notin A
        /\ Start \in A' <=> Start \in A
        /\ \A b : Exists(b) \in A' <=> Exists(b) \in A
        /\ A' \subseteq A
        /\ \A w : (Version(w) \in A /\ w # v) => Version(w) \in A'
    BY <1>5, Distinct
  <1>7. WellTyped'
    <2>1. WellTyped /\ configValid \in BOOLEAN /\ crdExists \in BOOLEAN /\ ownVersion \in Versions /\ failures \in Nat
      BY DEF FollowInv, WellTyped, TypeOK, Versions
    <2> QED
      BY <1>1, <1>2, <1>4, <2>1, TypesStay
  <1> HIDE DEF A, B, h
  <1>8. WantsCrdUpdateEvents
    BY <1>5 DEF FollowInv, RulesInv, A
  <1>9. EventsInv'
    <2>1. ASSUME NEW s, Settles(s) PROVE Settles(s)'
      <3>1. ChooseVersion(s)' = ChooseVersion(s) /\ Versions' = Versions
        BY <1>1, SameType
      <3>2. CASE ChooseVersion(s) = NoVersion
        BY <1>1, <1>6, <2>1, <3>1, <3>2 DEF Settles, A
      <3>3. CASE ChooseVersion(s) # NoVersion
        BY <1>1, <1>5, <1>6, <2>1, <3>1, <3>3 DEF Settles, A
      <3> QED
        BY <3>2, <3>3
    <2> QED
      BY <1>1, <2>1, EventsStay DEF FollowInv
  <1>10. RulesInv'
    BY <1>1, <1>8, SameType DEF RulesInv
  <1>11. HandlersInv'
    BY <1>1, <1>5, <1>6 DEF FollowInv, HandlersInv, A, B
  <1>12. StoppableInv'
    BY <1>1 DEF FollowInv, StoppableInv, IsWatching
  <1>13. ASSUME FollowsInv, OneAtATime PROVE FollowsInv'
    <2>1. Versions' = Versions /\ (IsWatching' <=> IsWatching)
      BY <1>1, SameType DEF IsWatching
    <2>2. IsWatching => crdVersion' = crdVersion
      BY <1>5, <1>6, <1>13 DEF FollowsInv, A
    <2>3. \A q \in Procs : ~Does(q, "start")
      <3>1. ~Does("crd", "start")
        BY <1>1, <1>3 DEF Does
      <3>2. ~Idle("crd")
        BY <1>1, <1>3 DEF Does, Idle
      <3>3. ~Does("config", "start")
        BY <1>8, <1>13, <3>2 DEF OneAtATime, Does, Idle
      <3> QED
        BY <3>1, <3>3 DEF Procs
    <2> QED
      BY <1>1, <1>2, <1>5, <1>6, <1>13, <2>1, <2>2, <2>3 DEF FollowsInv, A, B
  <1> QED
    BY <1>1, <1>2, <1>7, <1>9, <1>10, <1>11, <1>12, <1>13 DEF FollowInv, InOrder

\* The reconciler stores the API config; a start or a stop is to follow.
LEMMA StoreConfigFollows ==
    ASSUME FollowInv, WatchInv, NEW p \in Procs, StoreConfig(p)
    PROVE  FollowInv'
  <1> DEFINE A == Left("crd")
             B == Left("config")
             h == Head(todo[p])
  <1>1. /\ Does(p, "config") /\ Continue(p) /\ configValid' = h[2]
        /\ UNCHANGED <<resourceType, overlapped, crd, events, controllers, stopFunction, informers, failures,
                       crdExists, crdVersion, lock, ownVersion>>
    BY DEF StoreConfig, Argument, cluster, watch
  <1>2. /\ h[1] = "config" /\ Left(p) = {h} \cup Left(p)'
        /\ \A q \in Procs \ {p} : todo'[q] = todo[q] /\ Left(q)' = Left(q)
        /\ \A q \in Procs : Sequenced(todo[q])'
        /\ A' \subseteq CrdInstructions' /\ B' \subseteq ConfigInstructions'
        /\ OneAtATime => OneAtATime'
        /\ \A q \in Procs : Does(q, "start")' => Does(q, "start")
    BY <1>1, GoesOn
  <1>3. p = "config"
    BY <1>2, CrdInstruction DEF FollowInv, WellTyped, Procs
  <1>4. PICK b \in BOOLEAN : h = Config(b) /\ h[2] = b
    BY <1>2, <1>3, ConfigInstruction DEF FollowInv, WellTyped
  <1>5. B = {Config(b)} \cup B' /\ A' = A /\ (configValid' <=> b)
    BY <1>1, <1>2, <1>3, <1>4 DEF Procs
  <1>6. /\ Stop \in B' <=> Stop \in B
        /\ Start \in B' <=> Start \in B
        /\ B' \subseteq B
    BY <1>5, Distinct
  <1>7. b => configValid' /\ Config(TRUE) \in B
    BY <1>5
  <1>8. ~b => ~configValid' /\ Config(FALSE) \in B
    BY <1>5
  <1>9. WellTyped'
    <2>1. configValid' \in BOOLEAN
      BY <1>1, <1>4
    <2>2. WellTyped /\ crdVersion \in Versions /\ crdExists \in BOOLEAN /\ ownVersion \in Versions /\ failures \in Nat
      BY DEF FollowInv, WellTyped, TypeOK, Versions
    <2> QED
      BY <1>1, <1>2, <2>1, <2>2, TypesStay
  <1>10. EventsInv'
    BY <1>1, <1>5, SettlesStays, EventsStay DEF FollowInv
  <1> HIDE DEF A, B, h
  <1>11. RulesInv'
    BY <1>1, GoesOn
  <1>12. HandlersInv'
    BY <1>1, <1>5, <1>6, <1>7, <1>8 DEF FollowInv, HandlersInv, A, B
  <1>13. StoppableInv'
    BY <1>1 DEF FollowInv, StoppableInv, IsWatching
  <1>14. ASSUME FollowsInv PROVE FollowsInv'
    <2>1. Versions' = Versions /\ (IsWatching' <=> IsWatching)
      BY <1>1, SameType DEF IsWatching
    <2>2. (configValid' => Start \in B') /\ (~configValid' => Stop \in B')
      BY <1>6, <1>7, <1>8 DEF FollowInv, HandlersInv, B
    <2> QED
      BY <1>1, <1>2, <1>5, <1>14, <2>1, <2>2 DEF FollowsInv, A, B
  <1> QED
    BY <1>1, <1>2, <1>9, <1>10, <1>11, <1>12, <1>13, <1>14 DEF FollowInv, InOrder

\* A goroutine that is in maybeStartWatchingThirdPartyResources has nothing else left.
LEMMA OnlyStarting ==
    ASSUME WellTyped, NEW p \in Procs, \A x \in Left(p) : x[1] \in StartOps
    PROVE  Left(p) \subseteq Starting
  BY CrdInstruction, ConfigInstruction DEF WellTyped, Procs

\* The early returns leave nothing to do undone.
LEMMA CheckFollows ==
    ASSUME FollowInv, WatchInv, NEW p \in Procs, CheckPrerequisites(p)
    PROVE  FollowInv'
  <1> DEFINE A == Left("crd")
             B == Left("config")
             returns == IsWatching \/ ~crdExists \/ ~configValid
  <1>1. /\ Does(p, "check") /\ lock = "free"
        /\ lock' = IF returns THEN lock ELSE p
        /\ UNCHANGED <<resourceType, overlapped, crd, events, controllers, stopFunction, informers, failures,
                       crdExists, crdVersion, configValid, ownVersion>>
    BY DEF CheckPrerequisites, cluster, watch
  <1>2. Left(p) \subseteq Starting /\ Start \in Left(p)
    <2>1. todo[p] # <<>> /\ Ordered(todo[p]) /\ Head(todo[p])[1] = "check"
      BY <1>1 DEF Does, WatchInv, Disciplined
    <2>2. (\A x \in Left(p) : x[1] \in StartOps) /\ \E x \in Left(p) : x[1] = "start"
      BY <2>1, StartComesLast DEF Left
    <2>3. Left(p) \subseteq Starting
      BY <2>2, OnlyStarting DEF FollowInv
    <2> QED
      BY <2>2, <2>3, Named
  <1>3. /\ \A q \in Procs \ {p} : todo'[q] = todo[q] /\ Left(q)' = Left(q)
        /\ \A q \in Procs : Sequenced(todo[q])' /\ Left(q)' \subseteq Left(q)
        /\ OneAtATime => OneAtATime'
        /\ \A q \in Procs : Does(q, "start")' => Does(q, "start")
        /\ ~returns => Start \in Left(p)'
        /\ RulesInv'
    <2>1. CASE returns
      <3>1. todo' = [todo EXCEPT ![p] = <<>>] /\ DOMAIN todo = Procs
        BY <2>1 DEF CheckPrerequisites, Return, WatchInv
      <3>2. todo'[p] = <<>> /\ \A q \in Procs \ {p} : todo'[q] = todo[q]
        BY <3>1
      <3>3. Left(p)' = {} /\ \A q \in Procs \ {p} : Left(q)' = Left(q)
        BY <3>2, Nothing DEF Left
      <3>4. \A q \in Procs : Sequenced(todo[q])'
        BY <3>2, Nothing DEF FollowInv, WellTyped, Sequenced
      <3>5. OneAtATime => OneAtATime'
        BY <1>1, <3>2, SameType DEF OneAtATime, Idle, Procs
      <3>6. \A q \in Procs : Does(q, "start")' => Does(q, "start")
        BY <3>2 DEF Does
      <3>7. RulesInv'
        <4>1. CASE p = "crd"
          BY <1>1, <3>3, <4>1, RulesStay DEF FollowInv
        <4>2. CASE p = "config"
          <5>1. todo'["crd"] = todo["crd"] /\ Left("crd")' = Left("crd")
            BY <3>2, <3>3, <4>2 DEF Procs
          <5> QED
            BY <1>1, <5>1, SameType DEF FollowInv, RulesInv, LastLeft
        <4> QED
          BY <4>1, <4>2 DEF Procs
      <3> QED
        BY <2>1, <3>2, <3>3, <3>4, <3>5, <3>6, <3>7
    <2>2. CASE ~returns
      <3>1. Continue(p)
        BY <2>2 DEF CheckPrerequisites
      <3>2. Head(todo[p])[1] = "check" /\ Left(p) = {Head(todo[p])} \cup Left(p)' /\ Start \in Left(p)
        BY <1>1, <3>1, GoesOn
      <3>3. Start \in Left(p)'
        BY <3>2, Named
      <3> QED
        BY <1>1, <3>1, <3>2, <3>3, GoesOn
    <2> QED
      BY <2>1, <2>2
  <1>4. /\ A' \subseteq A /\ B' \subseteq B
        /\ \A x : x \notin Starting => (x \in A' <=> x \in A) /\ (x \in B' <=> x \in B)
    BY <1>2, <1>3 DEF Procs
  <1>5. /\ Stop \notin Starting
        /\ \A b : Exists(b) \notin Starting /\ Version(b) \notin Starting /\ Config(b) \notin Starting
    BY Distinct
  <1>6. /\ Stop \in A' <=> Stop \in A
        /\ Stop \in B' <=> Stop \in B
        /\ \A b : (Exists(b) \in A' <=> Exists(b) \in A) /\ (Version(b) \in A' <=> Version(b) \in A)
                  /\ (Config(b) \in B' <=> Config(b) \in B)
    BY <1>4, <1>5
  <1>7. p = "crd" => \A x \in A : x # Stop /\ \A b : x # Exists(b)
    BY <1>2, <1>5
  <1>8. p = "config" => A' = A /\ Stop \notin B /\ Config(TRUE) \notin B
    BY <1>2, <1>3, <1>5 DEF Procs
  <1>9. p = "crd" => B' = B
    BY <1>3 DEF Procs
  <1>10. WellTyped'
    <2>1. A' \subseteq CrdInstructions' /\ B' \subseteq ConfigInstructions'
      BY <1>1, <1>4, SameType DEF FollowInv, WellTyped
    <2>2. lock' \in Procs \cup {"free"}
      BY <1>1
    <2> QED
      BY <1>1, <1>3, <2>1, <2>2, SameType DEF FollowInv, WellTyped, TypeOK
  <1> HIDE DEF A, B, returns
  <1>11. EventsInv'
    <2>1. \A s : Settles(s) => Settles(s)'
      BY <1>1, <1>6, SameType DEF Settles, A
    <2> QED
      BY <1>1, <2>1, EventsStay DEF FollowInv
  <1>12. RulesInv'
    BY <1>3
  <1>13. HandlersInv'
    <2>1. CASE p = "crd"
      BY <1>1, <1>6, <1>7, <1>9, <2>1 DEF FollowInv, HandlersInv, A, B
    <2>2. CASE p = "config"
      BY <1>1, <1>6, <1>8, <2>2 DEF FollowInv, HandlersInv, A, B
    <2> QED
      BY <2>1, <2>2 DEF Procs
  <1>14. StoppableInv'
    BY <1>1 DEF FollowInv, StoppableInv, IsWatching
  <1>15. ASSUME FollowsInv, OneAtATime PROVE FollowsInv'
    <2>1. Versions' = Versions /\ (IsWatching' <=> IsWatching)
      BY <1>1, SameType DEF IsWatching
    <2>2. lock' # "free" => crdExists /\ configValid
      BY <1>1 DEF returns
    <2>3. (Exists(FALSE) \in A /\ Stop \notin A) => lock' = "free"
      <3> SUFFICES ASSUME Exists(FALSE) \in A, Stop \notin A PROVE FALSE
        BY <1>1
      <3>1. p = "config" /\ WantsCrdUpdateEvents
        BY <1>7 DEF FollowInv, RulesInv, A, Procs
      <3>2. ~Idle("config") /\ ~Idle("crd")
        <4>1. ~Idle("config")
          BY <1>1, <3>1 DEF Does, Idle
        <4>2. ~Idle("crd")
          BY Nothing DEF A, Left, Idle
        <4> QED
          BY <4>1, <4>2
      <3> QED
        BY <1>15, <3>1, <3>2 DEF OneAtATime
    <2>4. (failures = 0 /\ crdExists /\ configValid /\ ~IsWatching) =>
             Start \in A' \cup B' \/ Exists(FALSE) \in A'
      <3> SUFFICES ASSUME crdExists, configValid, ~IsWatching PROVE Start \in A' \cup B'
        OBVIOUS
      <3>1. Start \in Left(p)'
        BY <1>3 DEF returns
      <3> QED
        BY <3>1 DEF A, B, Procs
    <2> QED
      BY <1>1, <1>3, <1>6, <1>15, <2>1, <2>2, <2>3, <2>4 DEF FollowsInv, A, B
  <1> QED
    BY <1>1, <1>3, <1>10, <1>11, <1>12, <1>13, <1>14, <1>15 DEF FollowInv, InOrder

\* The version is read by whoever holds the lock.
LEMMA ReadVersionFollows ==
    ASSUME FollowInv, WatchInv, NEW p \in Procs, ReadVersion(p)
    PROVE  FollowInv'
  <1> DEFINE A == Left("crd")
             B == Left("config")
             h == Head(todo[p])
  <1>1. /\ Does(p, "readVersion") /\ Continue(p) /\ ownVersion' = crdVersion
        /\ UNCHANGED <<resourceType, overlapped, crd, events, controllers, stopFunction, informers, failures,
                       crdExists, crdVersion, configValid, lock>>
    BY DEF ReadVersion, cluster, watch
  <1>2. /\ h[1] = "readVersion" /\ Left(p) = {h} \cup Left(p)'
        /\ \A q \in Procs \ {p} : todo'[q] = todo[q] /\ Left(q)' = Left(q)
        /\ \A q \in Procs : Sequenced(todo[q])'
        /\ A' \subseteq CrdInstructions' /\ B' \subseteq ConfigInstructions'
        /\ OneAtATime => OneAtATime'
    BY <1>1, GoesOn
  <1>3. \A x : x[1] # "readVersion" => (x \in A' <=> x \in A) /\ (x \in B' <=> x \in B)
    BY <1>2 DEF Procs
  <1>4. /\ Stop \in A' <=> Stop \in A
        /\ Stop \in B' <=> Stop \in B
        /\ Start \in A' <=> Start \in A
        /\ Start \in B' <=> Start \in B
        /\ \A b : (Exists(b) \in A' <=> Exists(b) \in A) /\ (Version(b) \in A' <=> Version(b) \in A)
                  /\ (Config(b) \in B' <=> Config(b) \in B)
    BY <1>3, Named
  <1>5. WellTyped'
    <2>1. WellTyped /\ configValid \in BOOLEAN /\ crdExists \in BOOLEAN /\ crdVersion \in Versions /\ failures \in Nat
      BY DEF FollowInv, WellTyped, TypeOK, Versions
    <2> QED
      BY <1>1, <1>2, <2>1, TypesStay
  <1> HIDE DEF A, B, h
  <1>6. EventsInv'
    <2>1. \A s : Settles(s) => Settles(s)'
      BY <1>1, <1>4, SameType DEF Settles, A
    <2> QED
      BY <1>1, <2>1, EventsStay DEF FollowInv
  <1>7. RulesInv'
    BY <1>1, GoesOn
  <1>8. HandlersInv'
    BY <1>1, <1>4 DEF FollowInv, HandlersInv, A, B
  <1>9. StoppableInv'
    BY <1>1 DEF FollowInv, StoppableInv, IsWatching
  <1>10. ASSUME FollowsInv PROVE FollowsInv'
    <2>1. Versions' = Versions /\ (IsWatching' <=> IsWatching)
      BY <1>1, SameType DEF IsWatching
    <2> QED
      BY <1>1, <1>4, <1>10, <2>1 DEF FollowsInv, A, B
  <1> QED
    BY <1>1, <1>2, <1>5, <1>6, <1>7, <1>8, <1>9, <1>10 DEF FollowInv, InOrder

\* The last instruction of a program, whether it succeeds or not.
LEMMA StartIsLast ==
    ASSUME FollowInv, WatchInv, NEW p \in Procs, Does(p, "start"), Continue(p),
           UNCHANGED <<resourceType, overlapped, crd, events, crdExists, crdVersion, configValid, ownVersion>>
    PROVE  /\ lock = p /\ stopFunction = 0
           /\ Left(p) = {Start} /\ Left(p)' = {}
           /\ \A q \in Procs \ {p} : Left(q)' = Left(q)
           /\ \A q \in Procs : Sequenced(todo[q])' /\ (Does(q, "start")' => Does(q, "start"))
           /\ Left("crd")' \subseteq CrdInstructions' /\ Left("config")' \subseteq ConfigInstructions'
           /\ EventsInv' /\ RulesInv' /\ HandlersInv' /\ (OneAtATime => OneAtATime')
           /\ \A x : x # Start => /\ x \in Left("crd")' <=> x \in Left("crd")
                                  /\ x \in Left("config")' <=> x \in Left("config")
  <1> DEFINE A == Left("crd")
             B == Left("config")
             h == Head(todo[p])
  <1>1. /\ h[1] = "start" /\ Left(p) = {h} \cup Left(p)' /\ Left(p)' = {}
        /\ \A q \in Procs \ {p} : Left(q)' = Left(q)
        /\ \A q \in Procs : Sequenced(todo[q])'
        /\ A' \subseteq CrdInstructions' /\ B' \subseteq ConfigInstructions'
        /\ OneAtATime => OneAtATime'
        /\ \A q \in Procs : Does(q, "start")' => Does(q, "start")
    BY GoesOn
  <1>2. h = Start
    BY <1>1, CrdInstruction, ConfigInstruction DEF FollowInv, WellTyped, Procs
  <1>3. lock = p /\ stopFunction = 0
    <2>1. lock = p
      BY StepForward
    <2> QED
      BY <2>1 DEF WatchInv, Procs
  <1>4. Left(p) = {Start}
    BY <1>1, <1>2
  <1> HIDE DEF A, B, h
  <1>5. \A x : x # Start => (x \in A' <=> x \in A) /\ (x \in B' <=> x \in B)
    BY <1>1, <1>4 DEF Procs, A, B
  <1>6. /\ Stop \in A' <=> Stop \in A
        /\ Stop \in B' <=> Stop \in B
        /\ \A b : (Exists(b) \in A' <=> Exists(b) \in A) /\ (Version(b) \in A' <=> Version(b) \in A)
                  /\ (Config(b) \in B' <=> Config(b) \in B)
    BY <1>5, Distinct
  <1>7. EventsInv'
    <2>1. \A s : Settles(s) => Settles(s)'
      BY <1>6, SameType DEF Settles, A
    <2> QED
      BY <2>1, EventsStay DEF FollowInv
  <1>8. RulesInv'
    BY GoesOn
  <1>9. HandlersInv'
    <2>1. CASE p = "crd"
      <3>1. A' = {} /\ B' = B
        BY <1>1, <2>1 DEF A, B, Procs
      <3> QED
        BY <3>1 DEF FollowInv, HandlersInv, A, B
    <2>2. CASE p = "config"
      <3>1. B' = {} /\ A' = A
        BY <1>1, <2>2 DEF A, B, Procs
      <3> QED
        BY <3>1 DEF FollowInv, HandlersInv, A, B
    <2> QED
      BY <2>1, <2>2 DEF Procs
  <1> QED
    BY <1>1, <1>3, <1>4, <1>5, <1>7, <1>8, <1>9 DEF A, B

\* The watch that is started is on the version that is stored.
LEMMA StartFollows ==
    ASSUME FollowInv, WatchInv, NEW p \in Procs, StartController(p)
    PROVE  FollowInv'
  <1> DEFINE A == Left("crd")
             B == Left("config")
             new == [version |-> ownVersion, state |-> "running"]
             n == Len(controllers)
  <1>1. /\ Does(p, "start") /\ Continue(p) /\ lock' = "free"
        /\ controllers' = Append(controllers, new) /\ stopFunction' = n + 1
        /\ informers' = informers \cup {ownVersion}
        /\ UNCHANGED <<resourceType, overlapped, crd, events, crdExists, crdVersion, configValid, ownVersion, failures>>
    BY DEF StartController, cluster
  <1>2. /\ lock = p /\ stopFunction = 0
        /\ Left(p) = {Start} /\ Left(p)' = {}
        /\ \A q \in Procs \ {p} : Left(q)' = Left(q)
        /\ \A q \in Procs : Sequenced(todo[q])' /\ (Does(q, "start")' => Does(q, "start"))
        /\ A' \subseteq CrdInstructions' /\ B' \subseteq ConfigInstructions'
        /\ EventsInv' /\ RulesInv' /\ HandlersInv' /\ (OneAtATime => OneAtATime')
        /\ \A x : x # Start => (x \in A' <=> x \in A) /\ (x \in B' <=> x \in B)
    BY <1>1, StartIsLast
  <1>3. new.version = ownVersion /\ new.state = "running"
    OBVIOUS
  <1> HIDE DEF new, A, B
  <1>4. /\ n \in Nat /\ Len(controllers') = n + 1
        /\ DOMAIN controllers' = 1 .. n + 1 /\ DOMAIN controllers = 1 .. n
        /\ \A c \in 1 .. n : controllers'[c] = controllers[c]
        /\ controllers'[n + 1] = new
    <2>1. PICK S : controllers \in Seq(S)
      BY DEF WatchInv, IsSequence
    <2>2. controllers \in Seq(S \cup {new})
      BY <2>1
    <2> QED
      BY <1>1, <2>2
  <1> HIDE DEF n
  <1>5. IsWatching' /\ ~IsWatching /\ controllers'[stopFunction'] = new
    BY <1>1, <1>2, <1>4 DEF IsWatching
  <1>6. WellTyped'
    <2>1. \A c \in DOMAIN controllers' : controllers'[c].state \in {"running", "failed", "canceled", "gone"}
      <3> SUFFICES ASSUME NEW c \in 1 .. n + 1
                   PROVE  controllers'[c].state \in {"running", "failed", "canceled", "gone"}
        BY <1>4
      <3>1. c = n + 1 \/ c \in 1 .. n
        BY <1>4
      <3> QED
        BY <1>3, <1>4, <3>1 DEF FollowInv, WellTyped, TypeOK
    <2>2. stopFunction' \in 0 .. Len(controllers')
      BY <1>1, <1>4
    <2>3. informers' \subseteq Versions
      BY <1>1 DEF FollowInv, WellTyped, TypeOK, Versions
    <2> QED
      BY <1>1, <1>2, <2>1, <2>2, <2>3, SameType DEF FollowInv, WellTyped, TypeOK, A, B, Versions
  <1>7. StoppableInv'
    BY <1>3, <1>5 DEF StoppableInv
  <1>8. ASSUME FollowsInv, OneAtATime PROVE FollowsInv'
    <2>1. /\ Versions' = Versions /\ lock # "free"
      BY <1>1, <1>2, SameType DEF Procs
    <2>2. /\ Stop \in A' <=> Stop \in A
          /\ Stop \in B' <=> Stop \in B
          /\ \A b : (Exists(b) \in A' <=> Exists(b) \in A) /\ (Version(b) \in A' <=> Version(b) \in A)
      BY <1>2, Distinct
    <2>3. \A v \in Versions : Version(v) \notin A'
      <3>1. CASE WantsCrdUpdateEvents
        <4>1. p # "crd" => Idle("crd")
          BY <1>1, <1>8, <3>1 DEF OneAtATime, Does, Idle, Procs
        <4>2. p # "crd" => A = {}
          BY <4>1, Nothing DEF Idle, A, Left
        <4> QED
          BY <1>2, <2>2, <4>2 DEF A
      <3>2. CASE ~WantsCrdUpdateEvents
        BY <2>2, <3>2 DEF FollowInv, RulesInv, A
      <3> QED
        BY <3>1, <3>2
    <2>4. ownVersion = crdVersion
      BY <1>1, <1>8 DEF FollowsInv
    <2>5. /\ configValid \/ Stop \in B
          /\ crdExists \/ Stop \in A
          /\ ~(Exists(FALSE) \in A /\ Stop \notin A)
      BY <1>8, <2>1 DEF FollowsInv, A, B
    <2>6. failures = 0 => informers' = {crdVersion}
      BY <1>1, <1>5, <1>8, <2>4 DEF FollowsInv
    <2>7. controllers'[stopFunction'].version = crdVersion
      BY <1>3, <1>5, <2>4
    <2>8. \A q \in Procs : Does(q, "start")' => ownVersion' = crdVersion'
      BY <1>1, <2>4
    <2> QED
      BY <1>1, <1>5, <2>1, <2>2, <2>3, <2>5, <2>6, <2>7, <2>8 DEF FollowsInv, A, B
  <1> QED
    BY <1>1, <1>2, <1>6, <1>7, <1>8 DEF FollowInv, InOrder

\* The start of a controller fails.
LEMMA CannotStartFollows ==
    ASSUME FollowInv, WatchInv, NEW p \in Procs, CannotStartController(p)
    PROVE  FollowInv'
  <1> DEFINE A == Left("crd")
             B == Left("config")
  <1>1. /\ Does(p, "start") /\ Continue(p) /\ lock' = "free" /\ failures' = failures + 1
        /\ UNCHANGED <<resourceType, overlapped, crd, events, crdExists, crdVersion, configValid, ownVersion,
                       controllers, stopFunction, informers>>
    BY DEF CannotStartController, cluster
  <1>2. /\ lock = p /\ stopFunction = 0
        /\ \A q \in Procs : Sequenced(todo[q])' /\ (Does(q, "start")' => Does(q, "start"))
        /\ A' \subseteq CrdInstructions' /\ B' \subseteq ConfigInstructions'
        /\ EventsInv' /\ RulesInv' /\ HandlersInv' /\ (OneAtATime => OneAtATime')
    BY <1>1, StartIsLast
  <1>3. failures' # 0 /\ failures' \in Nat /\ ~IsWatching'
    BY <1>1, <1>2 DEF FollowInv, WellTyped, IsWatching
  <1> HIDE DEF A, B
  <1>4. WellTyped'
    BY <1>1, <1>2, <1>3, SameType DEF FollowInv, WellTyped, TypeOK, A, B
  <1>5. StoppableInv'
    BY <1>3 DEF StoppableInv
  <1>6. ASSUME FollowsInv PROVE FollowsInv'
    <2>1. \A q \in Procs : Does(q, "start")' => ownVersion' = crdVersion'
      BY <1>1, <1>2, <1>6 DEF FollowsInv
    <2> QED
      BY <1>1, <1>3, <2>1 DEF FollowsInv
  <1> QED
    BY <1>1, <1>2, <1>4, <1>5, <1>6 DEF FollowInv, InOrder

\* Only the controller c changes, and only its state.
LEMMA OneControllerChanges ==
    ASSUME FollowInv, WatchInv, NEW c \in DOMAIN controllers, NEW v \in {"failed", "canceled", "gone"},
           controllers' = [controllers EXCEPT ![c].state = v]
    PROVE  /\ DOMAIN controllers' = DOMAIN controllers /\ Len(controllers') = Len(controllers)
           /\ controllers'[c].state = v /\ controllers'[c].version = controllers[c].version
           /\ \A d \in DOMAIN controllers : d # c => controllers'[d] = controllers[d]
           /\ \A d \in DOMAIN controllers : controllers'[d].state \in {"running", "failed", "canceled", "gone"}
           /\ DOMAIN controllers = 1 .. Len(controllers) /\ Len(controllers) \in Nat
  <1> DEFINE new == [controllers[c] EXCEPT !.state = v]
  <1>1. controllers' = [controllers EXCEPT ![c] = new]
    OBVIOUS
  <1>2. DOMAIN controllers[c] = {"version", "state"}
    BY DEF WatchInv
  <1>3. new.state = v /\ new.version = controllers[c].version
    BY <1>2
  <1> HIDE DEF new
  <1>4. PICK S : controllers \in Seq(S)
    BY DEF WatchInv, IsSequence
  <1>5. PICK n \in Nat : controllers \in [1 .. n -> S]
    BY <1>4
  <1>6. controllers' \in [1 .. n -> S \cup {new}]
    BY <1>1, <1>5
  <1>7. Len(controllers) = n /\ Len(controllers') = n
    <2>1. controllers \in Seq(S) /\ controllers' \in Seq(S \cup {new})
      BY <1>5, <1>6
    <2> QED
      BY <1>5, <1>6, <2>1
  <1>8. controllers'[c] = new /\ \A d \in DOMAIN controllers : d # c => controllers'[d] = controllers[d]
    BY <1>1
  <1>9. \A d \in DOMAIN controllers : controllers'[d].state \in {"running", "failed", "canceled", "gone"}
    BY <1>3, <1>8 DEF FollowInv, WellTyped, TypeOK
  <1> QED
    BY <1>3, <1>5, <1>6, <1>7, <1>8, <1>9

\* A handler stops the watch for a reason, or it will start a watch again.
LEMMA StopFollows ==
    ASSUME FollowInv, WatchInv, NEW p \in Procs, StopWatching(p)
    PROVE  FollowInv'
  <1> DEFINE A == Left("crd")
             B == Left("config")
             h == Head(todo[p])
  <1>1. /\ Does(p, "stop") /\ Continue(p) /\ lock = "free"
        /\ UNCHANGED <<resourceType, overlapped, crd, events, failures, crdExists, crdVersion, configValid,
                       lock, ownVersion>>
    BY DEF StopWatching, cluster
  <1>2. /\ h[1] = "stop" /\ Left(p) = {h} \cup Left(p)'
        /\ \A q \in Procs \ {p} : Left(q)' = Left(q)
        /\ \A y \in Left(p)' : MayFollow(h, y)
        /\ \A q \in Procs : Sequenced(todo[q])' /\ (Does(q, "start")' => Does(q, "start"))
        /\ A' \subseteq CrdInstructions' /\ B' \subseteq ConfigInstructions'
        /\ (OneAtATime => OneAtATime') /\ RulesInv'
    BY <1>1, GoesOn
  <1>3. h = Stop
    BY <1>2, CrdInstruction, ConfigInstruction DEF FollowInv, WellTyped, Procs
  <1> HIDE DEF A, B, h
  <1>4. /\ A' \subseteq A /\ B' \subseteq B
        /\ \A x : x # Stop => (x \in A' <=> x \in A) /\ (x \in B' <=> x \in B)
    BY <1>2, <1>3 DEF A, B, Procs
  <1>5. /\ Start \in A' <=> Start \in A
        /\ Start \in B' <=> Start \in B
        /\ \A b : (Exists(b) \in A' <=> Exists(b) \in A) /\ (Version(b) \in A' <=> Version(b) \in A)
                  /\ (Config(b) \in B' <=> Config(b) \in B)
    BY <1>4, Distinct
  <1>6. p = "crd" => Stop \in A /\ B' = B
    BY <1>2, <1>3 DEF A, B, Procs
  <1>7. p = "config" => Stop \in B /\ A' = A /\ \A b : Config(b) \notin B'
    BY <1>2, <1>3, Named DEF A, B, Procs, MayFollow
  <1>8. p = "config" => \A b : Config(b) \notin B
    BY <1>5, <1>7
  <1>9. ~IsWatching'
    BY DEF StopWatching, IsWatching
  <1>10. WellTyped'
    <2>1. CASE IsWatching
      <3>1. /\ informers' = informers \ {crdVersion} /\ stopFunction' = 0
            /\ controllers' = [controllers EXCEPT ![stopFunction].state = "canceled"]
        BY <2>1 DEF StopWatching
      <3>2. stopFunction \in DOMAIN controllers
        <4>1. PICK S : controllers \in Seq(S)
          BY DEF WatchInv, IsSequence
        <4>2. stopFunction \in 0 .. Len(controllers) /\ stopFunction # 0
          BY <2>1 DEF FollowInv, WellTyped, TypeOK, IsWatching
        <4> QED
          BY <4>1, <4>2
      <3>3. \A d \in DOMAIN controllers' : controllers'[d].state \in {"running", "failed", "canceled", "gone"}
        BY <3>1, <3>2, OneControllerChanges
      <3>4. stopFunction' \in 0 .. Len(controllers')
        BY <3>1, <3>2, OneControllerChanges
      <3>5. informers' \subseteq Versions
        BY <3>1 DEF FollowInv, WellTyped, TypeOK, Versions
      <3> QED
        BY <1>1, <1>2, <3>3, <3>4, <3>5, SameType DEF FollowInv, WellTyped, TypeOK, A, B, Versions
    <2>2. CASE ~IsWatching
      <3>1. UNCHANGED <<controllers, stopFunction, informers>>
        BY <2>2 DEF StopWatching
      <3> QED
        BY <1>1, <1>2, <3>1, SameType DEF FollowInv, WellTyped, TypeOK, A, B
    <2> QED
      BY <2>1, <2>2
  <1>11. EventsInv'
    <2>1. \A s : Settles(s) => Settles(s)'
      BY <1>1, <1>5, SameType DEF Settles, A
    <2> QED
      BY <1>1, <2>1, EventsStay DEF FollowInv
  <1>12. HandlersInv'
    <2>1. CASE p = "crd"
      BY <1>1, <1>4, <1>5, <1>6, <2>1 DEF FollowInv, HandlersInv, A, B
    <2>2. CASE p = "config"
      BY <1>1, <1>4, <1>5, <1>7, <1>8, <2>2 DEF FollowInv, HandlersInv, A, B
    <2> QED
      BY <2>1, <2>2 DEF Procs
  <1>13. StoppableInv'
    BY <1>9 DEF StoppableInv
  <1>14. ASSUME FollowsInv PROVE FollowsInv'
    <2>1. failures = 0 => informers' = {}
      <3> SUFFICES ASSUME failures = 0 PROVE informers' = {}
        OBVIOUS
      <3>1. CASE IsWatching
        <4>1. informers = {crdVersion} /\ informers' = informers \ {crdVersion}
          BY <1>14, <3>1 DEF FollowsInv, StopWatching
        <4> QED
          BY <4>1
      <3>2. CASE ~IsWatching
        BY <1>14, <3>2 DEF FollowsInv, StopWatching
      <3> QED
        BY <3>1, <3>2
    <2>2. (crdExists /\ configValid) => Start \in A' \cup B' \/ Exists(FALSE) \in A'
      <3>1. CASE p = "crd"
        BY <1>5, <1>6, <3>1 DEF FollowInv, HandlersInv, A
      <3>2. CASE p = "config"
        BY <1>7, <1>8, <3>2 DEF FollowInv, HandlersInv, B
      <3> QED
        BY <3>1, <3>2 DEF Procs
    <2>3. \A q \in Procs : Does(q, "start")' => ownVersion' = crdVersion'
      BY <1>1, <1>2, <1>14 DEF FollowsInv
    <2> QED
      BY <1>1, <1>9, <2>1, <2>2, <2>3 DEF FollowsInv, A, B
  <1> QED
    BY <1>1, <1>2, <1>10, <1>11, <1>12, <1>13, <1>14 DEF FollowInv, InOrder

\* A controller that fails, or returns, changes nothing about what is to be done.
LEMMA ControllerFollows ==
    ASSUME FollowInv, WatchInv, NEW c \in DOMAIN controllers, ControllerFails(c) \/ ControllerReturns(c)
    PROVE  FollowInv'
  <1>1. UNCHANGED <<resourceType, overlapped, crd, events, crdExists, crdVersion, configValid, lock, todo,
                    ownVersion, informers>>
    BY DEF ControllerFails, ControllerReturns, cluster
  <1>2. /\ \A p : Left(p)' = Left(p) /\ LastLeft(p)' = LastLeft(p)
        /\ \A p, op : Does(p, op)' <=> Does(p, op)
    BY <1>1 DEF Left, LastLeft, Does
  <1>3. EventsInv'
    <2>1. \A s : Settles(s) => Settles(s)'
      BY <1>1, <1>2, SettlesStays
    <2> QED
      BY <1>1, <2>1, EventsStay DEF FollowInv
  <1>4. RulesInv' /\ HandlersInv' /\ (OneAtATime => OneAtATime')
    <2>1. RulesInv'
      BY <1>1, <1>2, SameType DEF FollowInv, RulesInv
    <2>2. HandlersInv'
      BY <1>1, <1>2 DEF FollowInv, HandlersInv
    <2>3. OneAtATime => OneAtATime'
      BY <1>1, SameType DEF OneAtATime, Idle
    <2> QED
      BY <2>1, <2>2, <2>3
  <1>5. PICK v \in {"failed", "canceled", "gone"} : controllers' = [controllers EXCEPT ![c].state = v]
    BY DEF ControllerFails, ControllerReturns
  <1>6. /\ DOMAIN controllers' = DOMAIN controllers /\ Len(controllers') = Len(controllers)
        /\ controllers'[c].state = v /\ controllers'[c].version = controllers[c].version
        /\ \A d \in DOMAIN controllers : d # c => controllers'[d] = controllers[d]
        /\ \A d \in DOMAIN controllers : controllers'[d].state \in {"running", "failed", "canceled", "gone"}
        /\ DOMAIN controllers = 1 .. Len(controllers) /\ Len(controllers) \in Nat
    BY <1>5, OneControllerChanges
  <1>7. stopFunction \in 0 .. Len(controllers) /\ (IsWatching => stopFunction \in DOMAIN controllers)
    BY <1>6 DEF FollowInv, WellTyped, TypeOK, IsWatching
  <1>8. /\ failures' \in Nat /\ (failures' = 0 => failures = 0)
        /\ stopFunction' \in {0, stopFunction}
    BY DEF ControllerFails, ControllerReturns, FollowInv, WellTyped
  <1>9. WellTyped'
    <2>1. stopFunction' \in 0 .. Len(controllers')
      BY <1>6, <1>7, <1>8
    <2> QED
      BY <1>1, <1>2, <1>6, <1>8, <2>1, SameType DEF FollowInv, WellTyped, TypeOK, Sequenced
  <1>10. \/ stopFunction' = stopFunction /\ IsWatching /\ stopFunction # c
         \/ stopFunction' = stopFunction /\ ~IsWatching
         \/ stopFunction' = stopFunction /\ stopFunction = c /\ failures' # 0 /\ v = "failed"
         \/ stopFunction' = 0 /\ stopFunction = c /\ failures' # 0 /\ lock = "free"
    <2>1. CASE ControllerFails(c)
      <3>1. failures' # 0 /\ UNCHANGED stopFunction
        BY <2>1 DEF ControllerFails, FollowInv, WellTyped
      <3>2. stopFunction = c => v = "failed"
        <4>1. controllers' = [controllers EXCEPT ![c].state = "failed"]
          BY <2>1 DEF ControllerFails
        <4>2. "failed" \in {"failed", "canceled", "gone"} /\ controllers'[c].state = "failed"
          BY <4>1, OneControllerChanges
        <4> QED
          BY <1>6, <4>2
      <3> QED
        BY <3>1, <3>2
    <2>2. CASE ControllerReturns(c)
      <3>1. /\ controllers[c].state \in {"canceled", "failed"} /\ lock = "free" /\ UNCHANGED failures
            /\ stopFunction' = IF stopFunction = c THEN 0 ELSE stopFunction
        BY <2>2 DEF ControllerReturns
      <3>2. c # 0
        BY <1>6
      <3>3. stopFunction = c => failures # 0
        BY <3>1, <3>2 DEF FollowInv, StoppableInv, IsWatching
      <3> QED
        BY <3>1, <3>3
    <2> QED
      BY <2>1, <2>2
  <1>11. StoppableInv'
    BY <1>6, <1>7, <1>8, <1>10 DEF FollowInv, StoppableInv, IsWatching
  <1>12. ASSUME FollowsInv PROVE FollowsInv'
    <2>1. Versions' = Versions
      BY <1>1, SameType
    <2>2. CASE stopFunction' = stopFunction
      <3>1. IsWatching' <=> IsWatching
        BY <2>2 DEF IsWatching
      <3>2. IsWatching => controllers'[stopFunction'].version = controllers[stopFunction].version
        BY <1>6, <1>7, <2>2
      <3> QED
        BY <1>1, <1>2, <1>8, <1>12, <2>1, <3>1, <3>2 DEF FollowsInv
    <2>3. CASE stopFunction' = 0 /\ failures' # 0 /\ lock = "free"
      <3>1. ~IsWatching'
        BY <2>3 DEF IsWatching
      <3> QED
        BY <1>1, <1>2, <1>12, <2>3, <3>1 DEF FollowsInv
    <2> QED
      BY <1>10, <2>2, <2>3
  <1> QED
    BY <1>1, <1>3, <1>4, <1>9, <1>11, <1>12 DEF FollowInv, InOrder

-----------------------------------------------------------------------------
(* A handler is called *)

\* SetDefaultApiConfigs or RemoveDefaultApiConfigs is called.
LEMMA ConfigChangesFollow ==
    ASSUME FollowInv, WatchInv, WatchInv', ConfigChanges
    PROVE  FollowInv'
  <1> DEFINE A == Left("crd")
             B == Left("config")
  <1>1. PICK valid \in BOOLEAN : todo' = [todo EXCEPT !["config"] = OnConfig(valid)]
    BY DEF ConfigChanges
  <1>2. /\ Idle("config") /\ overlapped' = (overlapped \/ ~Idle("crd"))
        /\ UNCHANGED <<resourceType, crd, events, crdExists, crdVersion, configValid, lock, ownVersion,
                       controllers, stopFunction, informers, failures>>
    BY DEF ConfigChanges, watch
  <1> DEFINE s == OnConfig(valid)
             I == {Config(valid)} \cup (IF valid THEN Starting ELSE {Stop})
  <1>3. Consists(s, I)
    BY HandlersConsist
  <1>4. valid => I = {Config(TRUE)} \cup Starting
    BY <1>1
  <1>5. ~valid => I = {Config(FALSE)} \cup {Stop}
    BY <1>1
  <1> HIDE DEF s, I
  <1>6. todo'["config"] = s /\ todo'["crd"] = todo["crd"]
    BY <1>1 DEF WatchInv, Procs, s
  <1>7. A' = A /\ LastLeft("crd")' = LastLeft("crd") /\ B' = I /\ B = {}
    <2>1. A' = A /\ LastLeft("crd")' = LastLeft("crd")
      BY <1>6 DEF Left, LastLeft
    <2>2. B' = I
      BY <1>3, <1>6 DEF Left, Consists
    <2>3. B = {}
      BY <1>2, Nothing DEF Left, Idle
    <2> QED
      BY <2>1, <2>2, <2>3
  <1> HIDE DEF A, B
  <1>8. I \subseteq ConfigInstructions
    BY <1>4, <1>5 DEF ConfigInstructions
  <1>9. WellTyped'
    <2>1. \A q \in Procs : Sequenced(todo[q])'
      BY <1>3, <1>6 DEF FollowInv, WellTyped, Procs, Consists, Sequenced
    <2>2. overlapped' \in BOOLEAN
      BY <1>2
    <2>3. A' \subseteq CrdInstructions' /\ B' \subseteq ConfigInstructions'
      BY <1>2, <1>7, <1>8, SameType DEF FollowInv, WellTyped, A
    <2> QED
      BY <1>2, <2>1, <2>2, <2>3, SameType DEF FollowInv, WellTyped, TypeOK, A, B
  <1>10. EventsInv'
    BY <1>2, <1>7, SettlesStays, EventsStay DEF FollowInv, A
  <1>11. RulesInv'
    BY <1>2, <1>7, SameType DEF FollowInv, RulesInv, A
  <1>12. HandlersInv'
    <2>1. /\ valid => Stop \notin I /\ Config(FALSE) \notin I /\ Start \in I
          /\ ~valid => Stop \in I /\ Start \notin I /\ Config(TRUE) \notin I /\ Config(FALSE) \in I
      BY <1>4, <1>5, Distinct
    <2> QED
      BY <1>2, <1>7, <2>1 DEF FollowInv, HandlersInv, A, B
  <1>13. StoppableInv'
    BY <1>2 DEF FollowInv, StoppableInv, IsWatching
  <1>14. InOrder' => InOrder /\ (WantsCrdUpdateEvents => Idle("crd"))
    BY <1>2 DEF InOrder, WantsCrdUpdateEvents
  <1>15. InOrder' => OneAtATime'
    BY <1>2, <1>6, <1>14, SameType DEF OneAtATime, Idle
  <1>16. ASSUME FollowsInv PROVE FollowsInv'
    <2>1. Versions' = Versions /\ (IsWatching' <=> IsWatching)
      BY <1>2, SameType DEF IsWatching
    <2>2. \A q \in Procs : Does(q, "start")' => Does(q, "start")
      <3>1. lock # "config"
        BY <1>2 DEF WatchInv, Disciplined, Does, Idle, Procs
      <3>2. ~Does("config", "start")'
        BY <1>2, <3>1 DEF WatchInv, Disciplined, Procs
      <3> QED
        BY <1>6, <3>2 DEF Does, Procs
    <2> QED
      BY <1>2, <1>7, <1>16, <2>1, <2>2 DEF FollowsInv, A, B
  <1> QED
    BY <1>9, <1>10, <1>11, <1>12, <1>13, <1>14, <1>15, <1>16 DEF FollowInv

\* The instructions I of the handler for the event e.
HandlesEvent(e, I) ==
    LET new == ChooseVersion(e.served) IN
    \/ /\ e.type = "create" /\ ~WantsCrdUpdateEvents /\ new = Preferred[1] /\ new # NoVersion
       /\ I = {Exists(TRUE)} \cup Starting
    \/ e.type = "create" /\ WantsCrdUpdateEvents /\ new # NoVersion /\ I = Recording(new) \cup Starting
    \/ /\ e.type = "create" /\ WantsCrdUpdateEvents /\ new = NoVersion
       /\ I = {Exists(TRUE)} \cup Resetting \cup Starting
    \/ e.type = "delete" /\ new = NoVersion /\ I = {Exists(FALSE), Stop}
    \/ e.type = "update" /\ WantsCrdUpdateEvents /\
         \/ new = NoVersion /\ I = (IF crdExists /\ IsWatching THEN {Stop} ELSE {}) \cup Resetting
         \/ new # NoVersion /\ crdExists /\ crdVersion = new /\ I = {}
         \/ new # NoVersion /\ ~IsWatching /\ I = Recording(new) \cup (IF crdExists THEN {} ELSE Starting)
         \/ new # NoVersion /\ IsWatching /\ I = {Stop} \cup Recording(new) \cup Starting

Handler(e) ==
    CASE e.type = "create" -> OnCreate(e.served)
      [] e.type = "delete" -> OnDelete
      [] OTHER -> HandleVersionChangeOnUpdate(e.served)

\* The program of the handler consists of these instructions.
LEMMA HandlerOfEvent ==
    ASSUME WellTyped, NEW e, EventIsKnown(e)
    PROVE  \E I : /\ Consists(Handler(e), I) /\ HandlesEvent(e, I)
                  /\ e.type = "delete" => Handler(e)[Len(Handler(e))] = Stop
  <1> DEFINE new == ChooseVersion(e.served)
             served == e.served
  <1>1. e.type = "create" => Handler(e) = OnCreate(served)
    BY DEF Handler
  <1>2. e.type = "delete" => Handler(e) = OnDelete
    BY DEF Handler
  <1>3. e.type = "update" => Handler(e) = HandleVersionChangeOnUpdate(served)
    BY DEF Handler
  <1>4. /\ e.type \in {"create", "update", "delete"} /\ served \in CrdStates
        /\ e.type = "delete" <=> served = Absent
        /\ e.type = "update" => WantsCrdUpdateEvents
        /\ resourceType \in ResourceTypes
    BY DEF EventIsKnown, WellTyped
  <1> HIDE DEF new, served
  <1>5. CASE e.type = "create" /\ ~WantsCrdUpdateEvents
    <2>1. served = Range(Preferred)
      BY <1>4, <1>5 DEF CrdStates
    <2>2. new = Preferred[1] /\ new # NoVersion
      BY <1>4, <2>1, VersionChoices DEF new, served
    <2>3. Consists(OnCreate(served), {Exists(TRUE)} \cup Starting)
      BY <1>5, HandlersConsist
    <2> QED
      BY <1>1, <1>5, <2>2, <2>3 DEF HandlesEvent, new
  <1>6. CASE e.type = "create" /\ WantsCrdUpdateEvents /\ new # NoVersion
    <2>1. Consists(OnCreate(served), Recording(new) \cup Starting)
      BY <1>6, HandlersConsist DEF new, served
    <2> QED
      BY <1>1, <1>6, <2>1 DEF HandlesEvent, new
  <1>7. CASE e.type = "create" /\ WantsCrdUpdateEvents /\ new = NoVersion
    <2>1. Consists(OnCreate(served), {Exists(TRUE)} \cup Resetting \cup Starting)
      BY <1>7, HandlersConsist DEF new, served
    <2> QED
      BY <1>1, <1>7, <2>1 DEF HandlesEvent, new
  <1>8. CASE e.type = "delete"
    <2>1. new = NoVersion
      BY <1>4, <1>8, VersionChoices DEF new, served
    <2>2. Consists(OnDelete, {Exists(FALSE), Stop})
      BY HandlersConsist
    <2>3. OnDelete[Len(OnDelete)] = Stop
      <3> DEFINE q == SetExists(FALSE)
                 r == StopWatch
                 S == {Exists(FALSE), Stop}
      <3>0. q \in Seq(S) /\ r \in Seq(S)
        BY DEF SetExists, StopWatch, Exists, Stop
      <3>1. Len(q) = 1 /\ Len(r) = 1 /\ r[1] = Stop
        BY DEF SetExists, StopWatch, Exists, Stop
      <3> HIDE DEF q, r, S
      <3>2. /\ Len(q \o r) = Len(q) + Len(r)
            /\ \A k \in 1 .. Len(q) + Len(r) : (q \o r)[k] = IF k <= Len(q) THEN q[k] ELSE r[k - Len(q)]
        BY <3>0
      <3>3. Len(q) + Len(r) = 2 /\ 2 \in 1 .. Len(q) + Len(r) /\ ~(2 <= Len(q)) /\ 2 - Len(q) = 1
        BY <3>1
      <3> QED
        BY <3>1, <3>2, <3>3 DEF OnDelete, q, r
    <2> QED
      BY <1>2, <1>8, <2>1, <2>2, <2>3 DEF HandlesEvent, new
  <1>9. CASE e.type = "update"
    <2> DEFINE s == HandleVersionChangeOnUpdate(served)
    <2>1. /\ new = NoVersion => Consists(s, (IF crdExists /\ IsWatching THEN {Stop} ELSE {}) \cup Resetting)
          /\ (new # NoVersion /\ crdExists /\ crdVersion = new) => Consists(s, {})
          /\ (new # NoVersion /\ ~(crdExists /\ crdVersion = new) /\ ~IsWatching) =>
                Consists(s, Recording(new) \cup (IF crdExists THEN {} ELSE Starting))
          /\ (new # NoVersion /\ ~(crdExists /\ crdVersion = new) /\ IsWatching) =>
                Consists(s, {Stop} \cup Recording(new) \cup Starting)
      BY UpdateConsists DEF new, served
    <2> HIDE DEF s
    <2>2. CASE new = NoVersion
      BY <1>3, <1>4, <1>9, <2>1, <2>2 DEF HandlesEvent, new, s
    <2>3. CASE new # NoVersion /\ crdExists /\ crdVersion = new
      BY <1>3, <1>4, <1>9, <2>1, <2>3 DEF HandlesEvent, new, s
    <2>4. CASE new # NoVersion /\ ~(crdExists /\ crdVersion = new) /\ ~IsWatching
      BY <1>3, <1>4, <1>9, <2>1, <2>4 DEF HandlesEvent, new, s
    <2>5. CASE new # NoVersion /\ ~(crdExists /\ crdVersion = new) /\ IsWatching
      BY <1>3, <1>4, <1>9, <2>1, <2>5 DEF HandlesEvent, new, s
    <2> QED
      BY <2>2, <2>3, <2>4, <2>5
  <1> QED
    BY <1>4, <1>5, <1>6, <1>7, <1>8, <1>9

\* What the handler for an event will have done in the end, and what it needs a watch for.
LEMMA HandlerFacts ==
    ASSUME FollowInv, NEW e, EventIsKnown(e), NEW I, HandlesEvent(e, I)
    PROVE  LET new == ChooseVersion(e.served) IN
           /\ I \subseteq CrdInstructions
           /\ new = NoVersion => Exists(FALSE) \in I
           /\ new # NoVersion => /\ Exists(FALSE) \notin I
                                 /\ crdExists \/ Exists(TRUE) \in I
                                 /\ \A v \in Versions : Version(v) \in I => v = new
                                 /\ crdVersion = new \/ Version(new) \in I
           /\ ~WantsCrdUpdateEvents => \A v \in Versions : Version(v) \notin I
           /\ Stop \in I => Exists(FALSE) \in I \/ Start \in I
           /\ (Exists(TRUE) \in I /\ Start \notin I) => crdExists /\ Exists(FALSE) \notin I
           /\ (Exists(FALSE) \in I /\ ~WantsCrdUpdateEvents) => e.type = "delete" /\ Stop \in I
           /\ (Exists(FALSE) \in I /\ Stop \notin I) =>
                 WantsCrdUpdateEvents /\ ((e.type = "create" /\ new = NoVersion) \/ ~(crdExists /\ IsWatching))
           /\ Stop \notin I => \/ \A v \in Versions : Version(v) \notin I
                               \/ e.type = "create" \/ ~(crdExists /\ IsWatching)
  <1> DEFINE new == ChooseVersion(e.served)
  <1>1. new \in Versions /\ NoVersion \in Versions
    BY VersionChoices DEF FollowInv, WellTyped, Versions
  <1>2. ~WantsCrdUpdateEvents => crdVersion = Preferred[1]
    BY DEF FollowInv, RulesInv
  <1>3. /\ Starting \subseteq CrdInstructions /\ Stop \in CrdInstructions
        /\ Exists(TRUE) \in CrdInstructions /\ Exists(FALSE) \in CrdInstructions
        /\ Version(new) \in CrdInstructions /\ Version(NoVersion) \in CrdInstructions
    BY <1>1 DEF CrdInstructions
  <1>4. TRUE # FALSE /\ Exists(TRUE) # Exists(FALSE)
    BY Distinct
  <1> HIDE DEF new
  <1>5. CASE e.type = "create" /\ ~WantsCrdUpdateEvents /\ new = Preferred[1] /\ new # NoVersion
             /\ I = {Exists(TRUE)} \cup Starting
    BY <1>2, <1>3, <1>4, <1>5, Distinct DEF new
  <1>6. CASE e.type = "create" /\ WantsCrdUpdateEvents /\ new # NoVersion /\ I = Recording(new) \cup Starting
    BY <1>3, <1>4, <1>6, Distinct DEF new, Recording
  <1>7. CASE e.type = "create" /\ WantsCrdUpdateEvents /\ new = NoVersion
             /\ I = {Exists(TRUE)} \cup Resetting \cup Starting
    BY <1>3, <1>4, <1>7, Distinct DEF new, Resetting
  <1>8. CASE e.type = "delete" /\ new = NoVersion /\ I = {Exists(FALSE), Stop}
    BY <1>3, <1>4, <1>8, Distinct DEF new
  <1>9. CASE e.type = "update" /\ WantsCrdUpdateEvents /\ new = NoVersion
             /\ I = (IF crdExists /\ IsWatching THEN {Stop} ELSE {}) \cup Resetting
    BY <1>3, <1>4, <1>9, Distinct DEF new, Resetting
  <1>10. CASE e.type = "update" /\ WantsCrdUpdateEvents /\ new # NoVersion /\ crdExists /\ crdVersion = new /\ I = {}
    BY <1>3, <1>4, <1>10, Distinct DEF new
  <1>11. CASE e.type = "update" /\ WantsCrdUpdateEvents /\ new # NoVersion /\ ~IsWatching
              /\ I = Recording(new) \cup (IF crdExists THEN {} ELSE Starting)
    BY <1>3, <1>4, <1>11, Distinct DEF new, Recording
  <1>12. CASE e.type = "update" /\ WantsCrdUpdateEvents /\ new # NoVersion /\ IsWatching
              /\ I = {Stop} \cup Recording(new) \cup Starting
    BY <1>3, <1>4, <1>12, Distinct DEF new, Recording
  <1> QED
    BY <1>5, <1>6, <1>7, <1>8, <1>9, <1>10, <1>11, <1>12 DEF HandlesEvent, new

\* The handler for CRD events has been called for the first event, and Settles holds for it.
LEMMA EventIsTaken ==
    ASSUME EventsInv, events # <<>>, events' = Tail(events), UNCHANGED <<resourceType, crd>>,
           NEW e, e = events[1], Settles(e.served)'
    PROVE  EventsInv'
  <1> DEFINE t == Tail(events)
             n == Len(t)
  <1>1. PICK S : events \in Seq(S)
    BY DEF EventsInv, IsSequence
  <1>2. /\ events' \in Seq(S) /\ n \in Nat /\ Len(events) = n + 1
        /\ \A k \in 1 .. n : events'[k] = events[k + 1]
        /\ events' = <<>> <=> n = 0
        /\ Len(events') = n
    <2>1. t \in Seq(S) /\ Len(t) = Len(events) - 1 /\ Len(events) \in Nat /\ Len(events) > 0
      BY <1>1
    <2>2. \A k \in 1 .. Len(events) - 1 : t[k] = events[k + 1]
      BY <1>1
    <2>3. t = <<>> <=> Len(t) = 0
      BY <2>1, EmptySeq
    <2> HIDE DEF t
    <2>4. events' = t
      BY DEF t
    <2> HIDE DEF n
    <2>5. n \in Nat /\ Len(events) = n + 1 /\ Len(t) = n
      BY <2>1 DEF n
    <2>6. n = Len(events) - 1
      BY <2>5
    <2> QED
      BY <2>1, <2>2, <2>3, <2>4, <2>5, <2>6
  <1> HIDE DEF n, t
  <1>3. ASSUME NEW k \in 1 .. n
        PROVE  /\ EventIsKnown(events'[k])
               /\ (k # 1 /\ events'[k].type = "create") => events'[k - 1].served = Absent
               /\ (k = 1 /\ events'[k].type = "create") => e.served = Absent
    <2>1. /\ k + 1 \in 1 .. Len(events) /\ k + 1 \in 2 .. Len(events) /\ (k + 1) - 1 = k
          /\ k # 1 => k - 1 \in 1 .. n /\ (k - 1) + 1 = k
      BY <1>2
    <2>2. /\ EventIsKnown(events[k + 1])
          /\ events[k + 1].type = "create" => events[k].served = Absent
      BY <2>1 DEF EventsInv
    <2> QED
      BY <1>2, <2>1, <2>2
  <1>4. (\A k \in 1 .. Len(events) : EventIsKnown(events[k]))'
    <2>1. \A k \in 1 .. n : EventIsKnown(events'[k])
      BY <1>3
    <2>2. CrdStates' = CrdStates /\ WantsCrdUpdateEvents' = WantsCrdUpdateEvents
      BY SameType
    <2> QED
      BY <1>2, <2>1, <2>2 DEF EventIsKnown
  <1>5. (\A k \in 2 .. Len(events) : events[k].type = "create" => events[k - 1].served = Absent)'
    <2>1. \A k \in 2 .. n : k \in 1 .. n /\ k # 1
      BY <1>2
    <2> QED
      BY <1>2, <1>3, <2>1
  <1>6. (events = <<>> => Settles(crd))'
    <2> SUFFICES ASSUME events' = <<>> PROVE Settles(crd)'
      OBVIOUS
    <2>1. Len(events) = 1 /\ e.served = crd
      BY <1>2 DEF EventsInv
    <2> QED
      BY <2>1 DEF Settles
  <1>7. (events # <<>> => events[Len(events)].served = crd)'
    <2> SUFFICES ASSUME events' # <<>> PROVE events'[n].served = crd
      BY <1>2
    <2>1. n \in 1 .. n /\ n + 1 = Len(events)
      BY <1>2
    <2> QED
      BY <1>2, <2>1 DEF EventsInv
  <1>8. ((events # <<>> /\ events[1].type = "create") => Settles(Absent) \/ Settles(events[1].served))'
    <2> SUFFICES ASSUME events' # <<>>, events'[1].type = "create" PROVE Settles(Absent)'
      BY DEF Settles
    <2>1. 1 \in 1 .. n
      BY <1>2
    <2>2. e.served = Absent
      BY <1>3, <2>1
    <2> QED
      BY <2>2 DEF Settles
  <1> QED
    BY <1>2, <1>4, <1>5, <1>6, <1>7, <1>8 DEF EventsInv, IsSequence

\* The handler for CRD events is called for the next event.
LEMMA HandleCrdEventFollows ==
    ASSUME FollowInv, WatchInv, WatchInv', HandleCrdEvent
    PROVE  FollowInv'
  <1> DEFINE A == Left("crd")
             B == Left("config")
  <1>1. /\ Idle("crd") /\ events # <<>> /\ overlapped' = (overlapped \/ ~Idle("config"))
        /\ events' = Tail(events)
        /\ todo' = [todo EXCEPT !["crd"] = Handler(Head(events))]
        /\ UNCHANGED <<resourceType, crd, crdExists, crdVersion, configValid, lock, ownVersion,
                       controllers, stopFunction, informers, failures>>
    BY DEF HandleCrdEvent, watch, Handler
  <1>2. PICK e : e = events[1]
    OBVIOUS
  <1>3. e = Head(events) /\ EventIsKnown(e)
    <2>1. PICK S : events \in Seq(S)
      BY DEF FollowInv, EventsInv, IsSequence
    <2>2. e = Head(events)
      BY <1>1, <1>2, <2>1
    <2>3. 1 \in 1 .. Len(events)
      BY <1>1, <2>1, EmptySeq
    <2> QED
      BY <1>2, <2>2, <2>3 DEF FollowInv, EventsInv
  <1>4. PICK s : s = Handler(e)
    OBVIOUS
  <1>5. PICK I : Consists(s, I) /\ HandlesEvent(e, I) /\ (e.type = "delete" => s[Len(s)] = Stop)
    BY <1>3, <1>4, HandlerOfEvent DEF FollowInv
  <1>6. todo'["crd"] = s /\ todo'["config"] = todo["config"]
    BY <1>1, <1>3, <1>4 DEF WatchInv, Procs
  <1>7. A' = I /\ A = {} /\ B' = B /\ (e.type = "delete" => LastLeft("crd")' = Stop)
    <2>1. A' = I
      BY <1>5, <1>6 DEF Left, Consists
    <2>2. A = {}
      BY <1>1, Nothing DEF Left, Idle
    <2>3. B' = B
      BY <1>6 DEF Left
    <2>4. e.type = "delete" => LastLeft("crd")' = Stop
      BY <1>5, <1>6 DEF LastLeft
    <2> QED
      BY <2>1, <2>2, <2>3, <2>4
  <1> DEFINE new == ChooseVersion(e.served)
  <1>8. /\ I \subseteq CrdInstructions
        /\ new = NoVersion => Exists(FALSE) \in I
        /\ new # NoVersion => /\ Exists(FALSE) \notin I
                              /\ crdExists \/ Exists(TRUE) \in I
                              /\ \A v \in Versions : Version(v) \in I => v = new
                              /\ crdVersion = new \/ Version(new) \in I
        /\ ~WantsCrdUpdateEvents => \A v \in Versions : Version(v) \notin I
        /\ Stop \in I => Exists(FALSE) \in I \/ Start \in I
        /\ (Exists(TRUE) \in I /\ Start \notin I) => crdExists /\ Exists(FALSE) \notin I
        /\ (Exists(FALSE) \in I /\ ~WantsCrdUpdateEvents) => e.type = "delete" /\ Stop \in I
        /\ (Exists(FALSE) \in I /\ Stop \notin I) =>
              WantsCrdUpdateEvents /\ ((e.type = "create" /\ new = NoVersion) \/ ~(crdExists /\ IsWatching))
        /\ Stop \notin I => \/ \A v \in Versions : Version(v) \notin I
                            \/ e.type = "create" \/ ~(crdExists /\ IsWatching)
    BY <1>3, <1>5, HandlerFacts
  <1> HIDE DEF A, B, new
  <1>9. ChooseVersion(e.served)' = new /\ Versions' = Versions
    BY <1>1, SameType DEF new
  <1>10. WellTyped'
    <2>1. \A q \in Procs : Sequenced(todo[q])'
      BY <1>5, <1>6 DEF FollowInv, WellTyped, Procs, Consists, Sequenced
    <2>2. overlapped' \in BOOLEAN
      BY <1>1
    <2>3. A' \subseteq CrdInstructions' /\ B' \subseteq ConfigInstructions'
      BY <1>1, <1>7, <1>8, SameType DEF FollowInv, WellTyped, B
    <2> QED
      BY <1>1, <2>1, <2>2, <2>3, SameType DEF FollowInv, WellTyped, TypeOK, A, B
  <1>11. Settles(e.served)'
    BY <1>1, <1>7, <1>8, <1>9 DEF Settles, A
  <1>12. EventsInv'
    BY <1>1, <1>2, <1>11, EventIsTaken DEF FollowInv
  <1>13. RulesInv'
    BY <1>1, <1>7, <1>8, <1>9, SameType DEF FollowInv, RulesInv, A
  <1>14. HandlersInv'
    BY <1>1, <1>7, <1>8 DEF FollowInv, HandlersInv, A, B
  <1>15. StoppableInv'
    BY <1>1 DEF FollowInv, StoppableInv, IsWatching
  <1>16. InOrder' => InOrder /\ (WantsCrdUpdateEvents => Idle("config"))
    BY <1>1 DEF InOrder, WantsCrdUpdateEvents
  <1>17. InOrder' => OneAtATime'
    BY <1>1, <1>6, <1>16, SameType DEF OneAtATime, Idle
  <1>18. ASSUME FollowsInv, WantsCrdUpdateEvents => Idle("config") PROVE FollowsInv'
    <2>1. IsWatching' <=> IsWatching
      BY <1>1 DEF IsWatching
    <2>2. lock # "crd" /\ (WantsCrdUpdateEvents => lock = "free")
      BY <1>1, <1>18 DEF WatchInv, Disciplined, Does, Idle, Procs
    <2>3. \A q \in Procs : Does(q, "start")' => Does(q, "start")
      <3>1. ~Does("crd", "start")'
        BY <1>1, <2>2 DEF WatchInv, Disciplined, Procs
      <3> QED
        BY <1>6, <3>1 DEF Does, Procs
    <2>4. IsWatching => crdExists
      BY <1>7, <1>18 DEF FollowsInv, A
    <2>5. e.type = "create" => Settles(Absent) \/ Settles(e.served)
      BY <1>1, <1>2 DEF FollowInv, EventsInv
    <2>6. ChooseVersion(Absent) = NoVersion
      BY VersionChoices DEF FollowInv, WellTyped
    <2>7. (e.type = "create" /\ new = NoVersion) => ~IsWatching
      BY <1>7, <2>4, <2>5, <2>6 DEF Settles, new, A
    <2>8. (e.type = "create" /\ new # NoVersion /\ IsWatching) => crdVersion = new
      BY <1>7, <2>4, <2>5, <2>6 DEF Settles, new, A
    <2>9. (Exists(FALSE) \in I /\ Stop \notin I) => ~IsWatching /\ lock = "free"
      BY <1>8, <2>2, <2>4, <2>7
    <2>10. (IsWatching /\ Stop \notin I) => \A v \in Versions : Version(v) \in I => v = crdVersion
      BY <1>8, <2>4, <2>7, <2>8
    <2> QED
      BY <1>1, <1>7, <1>9, <1>18, <2>1, <2>3, <2>4, <2>9, <2>10 DEF FollowsInv, A, B
  <1> QED
    BY <1>10, <1>12, <1>13, <1>14, <1>15, <1>16, <1>17, <1>18 DEF FollowInv

\* Nothing happens.
LEMMA NothingHappensFollows ==
    ASSUME FollowInv, UNCHANGED vars
    PROVE  FollowInv'
  <1>1. UNCHANGED <<resourceType, overlapped, crd, events, crdExists, crdVersion, configValid, lock, todo, ownVersion,
                    controllers, stopFunction, informers, failures>>
    BY DEF vars
  <1>2. /\ \A p : Left(p)' = Left(p) /\ LastLeft(p)' = LastLeft(p)
        /\ \A p, op : Does(p, op)' <=> Does(p, op)
    BY <1>1 DEF Left, LastLeft, Does
  <1>3. EventsInv'
    BY <1>1, <1>2, SettlesStays, EventsStay DEF FollowInv
  <1>4. WellTyped'
    BY <1>1, <1>2, SameType DEF FollowInv, WellTyped, TypeOK
  <1>5. RulesInv' /\ HandlersInv'
    BY <1>1, <1>2, SameType DEF FollowInv, RulesInv, HandlersInv
  <1>6. StoppableInv' /\ (IsWatching' <=> IsWatching)
    BY <1>1 DEF FollowInv, StoppableInv, IsWatching
  <1>7. FollowsInv => FollowsInv'
    BY <1>1, <1>2, <1>6, SameType DEF FollowsInv
  <1>8. OneAtATime => OneAtATime'
    BY <1>1, SameType DEF OneAtATime, Idle
  <1> QED
    BY <1>1, <1>3, <1>4, <1>5, <1>6, <1>7, <1>8 DEF FollowInv, InOrder

\* Every step keeps the invariant.
LEMMA NextFollows == FollowInv /\ WatchInv /\ WatchInv' /\ [Next]_vars => FollowInv'
  <1> SUFFICES ASSUME FollowInv, WatchInv, WatchInv', [Next]_vars PROVE FollowInv'
    OBVIOUS
  <1>1. CASE CrdChanges
    BY <1>1, CrdChangesFollow
  <1>2. CASE HandleCrdEvent
    BY <1>2, HandleCrdEventFollows
  <1>3. CASE ConfigChanges
    BY <1>3, ConfigChangesFollow
  <1>4. ASSUME NEW p \in Procs, ProcStep(p) PROVE FollowInv'
    <2>1. CASE StoreExists(p) \/ StoreVersion(p) \/ StoreConfig(p)
      BY <2>1, StoreExistsFollows, StoreVersionFollows, StoreConfigFollows
    <2>2. CASE CheckPrerequisites(p) \/ ReadVersion(p)
      BY <2>2, CheckFollows, ReadVersionFollows
    <2>3. CASE StartController(p) \/ CannotStartController(p) \/ StopWatching(p)
      BY <2>3, StartFollows, CannotStartFollows, StopFollows
    <2> QED
      BY <1>4, <2>1, <2>2, <2>3 DEF ProcStep
  <1>5. ASSUME NEW c \in DOMAIN controllers, ControllerFails(c) \/ ControllerReturns(c) PROVE FollowInv'
    BY <1>5, ControllerFollows
  <1>6. CASE UNCHANGED vars
    BY <1>6, NothingHappensFollows
  <1> QED
    BY <1>1, <1>2, <1>3, <1>4, <1>5, <1>6 DEF Next

\* At rest nothing is left to be done, hence the watch is what the invariant wants it to be.
LEMMA FollowedAtRest ==
    ASSUME FollowInv, WatchInv
    PROVE  WatchFollowsTheCluster
  <1>1. TypeOK /\ OnlyWatchIsTheStoppableOne
    BY DEF FollowInv, WellTyped, WatchInv
  <1>2. ASSUME Settled, InOrder
        PROVE  /\ failures = 0 => (IsWatching <=> (ChooseVersion(crd) # NoVersion /\ configValid))
               /\ IsWatching => /\ controllers[stopFunction].version = crdVersion
                                /\ crdVersion = ChooseVersion(crd)
               /\ failures = 0 => informers = IF IsWatching THEN {controllers[stopFunction].version} ELSE {}
    <2>1. todo["crd"] = <<>> /\ todo["config"] = <<>> /\ events = <<>>
      BY <1>2 DEF Settled, Idle, Procs
    <2>2. Left("crd") = {} /\ Left("config") = {}
      BY <2>1, Nothing DEF Left
    <2>3. Settles(crd) /\ FollowsInv
      BY <1>2, <2>1 DEF FollowInv, EventsInv
    <2>4. IF ChooseVersion(crd) = NoVersion THEN ~crdExists ELSE crdExists /\ crdVersion = ChooseVersion(crd)
      BY <2>2, <2>3 DEF Settles
    <2>5. /\ IsWatching => configValid /\ crdExists /\ controllers[stopFunction].version = crdVersion
          /\ failures = 0 => informers = IF IsWatching THEN {crdVersion} ELSE {}
          /\ (failures = 0 /\ crdExists /\ configValid) => IsWatching
      BY <2>2, <2>3 DEF FollowsInv
    <2> QED
      BY <2>4, <2>5
  <1>3. WatchMatchesCluster
    BY <1>2 DEF WatchMatchesCluster
  <1>4. WatchIsOnChosenVersion
    BY <1>2 DEF WatchIsOnChosenVersion
  <1> QED
    BY <1>1, <1>3, <1>4 DEF WatchFollowsTheCluster

\* The watch follows the CRD and the API config: once the handlers are done and no controller
\* is about to return, there is a watch if and only if the CRD serves a supported version and
\* there is a valid API config, it is on the version that chooseVersionFromCrd selects, and no
\* informer of an earlier watch is left. This is so for any sequence of events and config
\* changes, and for Prometheus rules also if maybeStartWatchingThirdPartyResources and
\* stopWatchingThirdPartyResources are called by the handler for CRD events
\* (handleVersionChangeOnUpdate) and by SetDefaultApiConfigs or RemoveDefaultApiConfigs at the
\* same time.
THEOREM WatchIsWhatTheClusterWants == Spec => []WatchFollowsTheCluster
<1>1. Init => WatchInv /\ FollowInv
  BY InitWatch, InitFollow
<1>2. (WatchInv /\ FollowInv) /\ [Next]_vars => (WatchInv /\ FollowInv)'
  BY NextKeepsInv, NextFollows
<1>3. (WatchInv /\ FollowInv) => WatchFollowsTheCluster
  BY FollowedAtRest
<1> QED
  BY <1>1, <1>2, <1>3, PTL DEF Spec
=============================================================================
