-------------------------- MODULE ServerCore_proofs --------------------------
(***************************************************************************)
(* Proofs about ServerCore for every set of callers and every list of      *)
(* parts, when the calls that manage the server do not overlap.            *)
(*                                                                         *)
(* The invariant LifeInv says, for each place of the one managing caller,  *)
(* which of the three threads exist: while running is set all of them do;  *)
(* a caller in Hands is creating or ending them and knows by at[c] which   *)
(* are left; otherwise every thread is either not created or joined.       *)
(***************************************************************************)
EXTENDS ServerCore, TLAPS

Needed == Range(Parts) \ Optional

(* The threads of S have been created and not joined. *)
Created(S) == \A t \in S : thr[t] \notin {"none", "joined"}
Joined(S) == \A t \in S : thr[t] = "joined"
Absent(S) == \A t \in S : thr[t] = "none"

(* Where a caller is answerable for threads although running is not set. *)
Hands == {"spawn", "started", "unwind_one", "unwind_two", "stop_state", "stop_cancel", "stop_join"}

(* Where a caller knows that the server does not run. *)
Stopped == Hands \cup {"init", "stop_clean", "stop_done", "destroy_wait", "destroy_clean",
                       "destroy_free", "restore_idle", "restore_stopped"}

(* At most one caller manages the server. *)
OneManager == \A c, d \in Callers : Managing(c) /\ Managing(d) => c = d

(* While running is set the threads and all they need exist. *)
RunFacts ==
    running => /\ state = "RUNNING" /\ cancel = {} /\ Needed \subseteq comps /\ ~freed
               /\ Created(Threads)
               /\ \A c \in Callers : pc[c] \notin Stopped

(* With nobody answerable for them there are no threads. *)
StopFacts ==
    (~running /\ \A c \in Callers : pc[c] \notin Hands)
        => \A t \in Threads : thr[t] \in {"none", "joined"}

(* What each place in Hands says of the threads. *)
HandFacts ==
    \A c \in Callers :
        /\ pc[c] \in Hands => Needed \subseteq comps /\ ~freed
        /\ pc[c] \in {"spawn", "started", "stop_state"} => state = "RUNNING" /\ cancel = {}
        /\ pc[c] = "spawn" =>
               \/ at[c] = "accept" /\ Absent(Threads)
               \/ at[c] = "cleanup" /\ Created({"accept"}) /\ Absent({"cleanup", "maintenance"})
               \/ at[c] = "maintenance" /\ Created({"accept", "cleanup"}) /\ Absent({"maintenance"})
        /\ pc[c] = "unwind_one" =>
               \/ at[c] = "accept" /\ Created({"accept"}) /\ Absent({"cleanup", "maintenance"})
               \/ at[c] = "cleanup" /\ Joined({"accept"}) /\ Created({"cleanup"}) /\ Absent({"maintenance"})
        /\ pc[c] = "unwind_two" =>
               at[c] = "accept" /\ Created({"accept", "cleanup"}) /\ Absent({"maintenance"})
        /\ pc[c] \in {"unwind_one", "unwind_two"} => state = "RUNNING"
        /\ pc[c] \in {"started", "stop_state", "stop_cancel"} => Created(Threads)
        /\ pc[c] = "stop_join" =>
               \/ at[c] = "accept" /\ Created(Threads)
               \/ at[c] = "cleanup" /\ Joined({"accept"}) /\ Created({"cleanup", "maintenance"})
               \/ at[c] = "maintenance" /\ Joined({"accept", "cleanup"}) /\ Created({"maintenance"})

(* The other places of a managing caller. *)
PlaceFacts ==
    \A c \in Callers :
        /\ pc[c] = "init" => state = "INITIALIZING"
        /\ pc[c] = "stop_flag" => running
        /\ pc[c] \in {"stop_cancel", "stop_join", "stop_clean", "stop_done"} => state = "SHUTTING_DOWN"
        /\ pc[c] \in {"stop_clean", "stop_done"} => Joined(Threads)
        /\ pc[c] = "stop_done" => comps = {}

(* Before server_init has succeeded there are no threads. *)
InitFacts == state = "INITIALIZING" => cancel = {} /\ Absent(Threads)

FreeFacts == freed => \A c \in Callers : ~Managing(c)

LifeInv ==
    /\ TypeOK /\ JoinOnce /\ OneManager /\ RunFacts /\ StopFacts /\ HandFacts
    /\ PlaceFacts /\ InitFacts /\ FreeFacts /\ ShutdownIsComplete

-------------------------------------------------------------------------------
(* A prefix of the list of parts holds parts only, the whole list all that
   is needed. *)
LEMMA PrefixParts ==
    ASSUME NEW k \in 0..Len(Parts), NEW missing \in SUBSET Optional
    PROVE  /\ BuiltUpTo(k, missing) \subseteq Range(Parts)
           /\ k = Len(Parts) => Needed \subseteq BuiltUpTo(k, missing)
<1> DEFINE prefix == SubSeq(Parts, 1, k)
<1>1. DOMAIN prefix = 1..k /\ DOMAIN Parts = 1..Len(Parts) /\ k \in Nat
  BY CoreAssumption
<1>2. \A i \in 1..k : prefix[i] = Parts[i]
  BY CoreAssumption
<1>3. Range(prefix) \subseteq Range(Parts)
  BY <1>1, <1>2 DEF Range
<1>4. k = Len(Parts) => Range(prefix) = Range(Parts)
  BY <1>1, <1>2 DEF Range
<1> QED BY <1>3, <1>4 DEF BuiltUpTo, Needed

(* The invariant survives: server_start's tests. *)
LEMMA StartChecksKeeps ==
    ASSUME LifeInv, NEW c \in Callers, StartChecks(c)
    PROVE  LifeInv'
<1>1. TypeOK'
  BY DEF LifeInv, TypeOK, CallerStates, StartChecks, Goto, server, threads, args
<1>2. OneManager' /\ FreeFacts'
  BY DEF LifeInv, TypeOK, OneManager, Managing, StartChecks, Goto, server, threads, args,
       FreeFacts
<1>3. JoinOnce' /\ InitFacts' /\ ShutdownIsComplete'
  BY DEF LifeInv, TypeOK, JoinOnce, StartChecks, Goto, server, threads, args, InitFacts,
       Absent, ShutdownIsComplete
<1>4. RunFacts' /\ StopFacts'
  BY DEF LifeInv, TypeOK, RunFacts, Stopped, Hands, Created, StartChecks, Goto, server,
       threads, args, StopFacts
<1>5. HandFacts' /\ PlaceFacts'
  BY DEF LifeInv, TypeOK, HandFacts, Hands, Created, Joined, Absent, StartChecks, Goto,
       server, threads, args, PlaceFacts
<1> QED BY <1>1, <1>2, <1>3, <1>4, <1>5 DEF LifeInv

(* The invariant survives: a failed server_init. *)
LEMMA InitFailsKeeps ==
    ASSUME LifeInv, NEW c \in Callers, InitFails(c)
    PROVE  LifeInv'
<1>1. TypeOK'
  BY CoreAssumption, PrefixParts DEF LifeInv, TypeOK, CallerStates, InitFails, Goto,
       threads, args
<1>2. JoinOnce'
  BY DEF LifeInv, TypeOK, JoinOnce, InitFails, Goto, threads, args
<1>3. OneManager' /\ FreeFacts'
  BY DEF LifeInv, TypeOK, OneManager, Managing, InitFails, Goto, threads, args, FreeFacts
<1>4. RunFacts'
  BY DEF LifeInv, TypeOK, RunFacts, Stopped, Hands, Created, InitFails, Goto, threads, args
<1>5. StopFacts'
  BY DEF LifeInv, TypeOK, StopFacts, Hands, InitFails, Goto, threads, args
<1>6. HandFacts'
  BY DEF LifeInv, TypeOK, HandFacts, Hands, Created, Joined, Absent, InitFails, Goto,
       threads, args
<1>7. PlaceFacts'
  BY DEF LifeInv, TypeOK, PlaceFacts, Joined, InitFails, Goto, threads, args
<1>8. InitFacts' /\ ShutdownIsComplete'
  BY DEF LifeInv, TypeOK, InitFacts, Absent, InitFails, Goto, threads, args,
       ShutdownIsComplete, OneManager, Managing, PlaceFacts, Hands, Stopped, Threads,
       StopFacts, RunFacts, Created, Joined
<1> QED BY <1>1, <1>2, <1>3, <1>4, <1>5, <1>6, <1>7, <1>8 DEF LifeInv

(* The invariant survives: a completed server_init. *)
LEMMA InitSucceedsKeeps ==
    ASSUME LifeInv, NEW c \in Callers, InitSucceeds(c)
    PROVE  LifeInv'
<1>1. TypeOK'
  BY CoreAssumption, PrefixParts DEF LifeInv, TypeOK, CallerStates, States, Threads,
       InitSucceeds, UpdateState, threads
<1>2. JoinOnce'
  BY DEF LifeInv, TypeOK, JoinOnce, InitSucceeds, UpdateState, threads
<1>3. OneManager' /\ FreeFacts'
  BY DEF LifeInv, TypeOK, OneManager, Managing, InitSucceeds, UpdateState, threads,
       FreeFacts
<1>4. RunFacts'
  BY DEF LifeInv, TypeOK, RunFacts, Stopped, Hands, Created, InitSucceeds, UpdateState,
       threads
<1>5. StopFacts'
  BY DEF LifeInv, TypeOK, StopFacts, Hands, InitSucceeds, UpdateState, threads
<1>6. HandFacts'
  BY CoreAssumption, PrefixParts DEF LifeInv, TypeOK, HandFacts, Hands, Created, Joined,
       Absent, InitSucceeds, UpdateState, threads, OneManager, Managing, PlaceFacts,
       Stopped, Threads, StopFacts, RunFacts, InitFacts, FreeFacts
<1>7. PlaceFacts'
  BY DEF LifeInv, TypeOK, PlaceFacts, Joined, InitSucceeds, UpdateState, threads,
       OneManager, Managing
<1>8. InitFacts' /\ ShutdownIsComplete'
  BY DEF LifeInv, TypeOK, InitFacts, Absent, InitSucceeds, UpdateState, threads,
       ShutdownIsComplete
<1> QED BY <1>1, <1>2, <1>3, <1>4, <1>5, <1>6, <1>7, <1>8 DEF LifeInv

(* The invariant survives: pthread_create in server_start. *)
LEMMA SpawnKeeps ==
    ASSUME LifeInv, NEW c \in Callers, Spawn(c)
    PROVE  LifeInv'
<1>1. TypeOK'
  BY DEF LifeInv, TypeOK, ThreadStates, CallerStates, Threads, Spawn, Goto, Following,
       server
<1>2. JoinOnce'
  BY DEF LifeInv, TypeOK, JoinOnce, Spawn, Goto, Following, server
<1>3. OneManager' /\ FreeFacts'
  BY DEF LifeInv, TypeOK, OneManager, Managing, Spawn, Goto, Following, server, FreeFacts
<1>4. RunFacts'
  BY DEF LifeInv, TypeOK, RunFacts, Stopped, Hands, Created, Spawn, Goto, Following, server
<1>5. StopFacts'
  BY DEF LifeInv, TypeOK, StopFacts, Hands, Spawn, Goto, Following, server
<1>6. HandFacts'
  BY DEF LifeInv, TypeOK, HandFacts, Hands, Created, Joined, Absent, Spawn, Goto, Following,
       server, OneManager, Managing, PlaceFacts, Stopped, Threads, StopFacts, RunFacts
<1>7. PlaceFacts'
  BY DEF LifeInv, TypeOK, PlaceFacts, Joined, Spawn, Goto, Following, server, OneManager,
       Managing
<1>8. InitFacts' /\ ShutdownIsComplete'
  BY DEF LifeInv, TypeOK, InitFacts, Absent, Spawn, Goto, Following, server, OneManager,
       Managing, PlaceFacts, Hands, Stopped, Threads, StopFacts, RunFacts, Created, Joined,
       HandFacts, FreeFacts, ShutdownIsComplete
<1> QED BY <1>1, <1>2, <1>3, <1>4, <1>5, <1>6, <1>7, <1>8 DEF LifeInv

(* The invariant survives: a failed pthread_create. *)
LEMMA SpawnFailsKeeps ==
    ASSUME LifeInv, NEW c \in Callers, SpawnFails(c)
    PROVE  LifeInv'
<1>1. TypeOK'
  BY DEF LifeInv, TypeOK, CallerStates, Threads, SpawnFails, Goto
<1>2. JoinOnce'
  BY DEF LifeInv, TypeOK, JoinOnce, SpawnFails, Goto
<1>3. OneManager' /\ FreeFacts'
  BY DEF LifeInv, TypeOK, OneManager, Managing, SpawnFails, Goto, FreeFacts
<1>4. RunFacts'
  BY DEF LifeInv, TypeOK, RunFacts, Stopped, Hands, Created, SpawnFails, Goto
<1>5. StopFacts'
  BY DEF LifeInv, TypeOK, StopFacts, Hands, SpawnFails, Goto, OneManager, Managing,
       PlaceFacts, Stopped, Threads, RunFacts, Created, Joined, Absent, HandFacts,
       InitFacts, FreeFacts
<1>6. HandFacts'
  BY DEF LifeInv, TypeOK, HandFacts, Hands, Created, Joined, Absent, SpawnFails, Goto,
       OneManager, Managing
<1>7. PlaceFacts'
  BY DEF LifeInv, TypeOK, PlaceFacts, Joined, SpawnFails, Goto, OneManager, Managing, Hands,
       Stopped, Threads, StopFacts, RunFacts, Created, Absent
<1>8. InitFacts' /\ ShutdownIsComplete'
  BY DEF LifeInv, TypeOK, InitFacts, Absent, SpawnFails, Goto, OneManager, Managing,
       PlaceFacts, Hands, Stopped, Threads, StopFacts, RunFacts, Created, Joined, HandFacts,
       FreeFacts, ShutdownIsComplete
<1> QED BY <1>1, <1>2, <1>3, <1>4, <1>5, <1>6, <1>7, <1>8 DEF LifeInv

(* The invariant survives: the end of server_start. *)
LEMMA StartedKeeps ==
    ASSUME LifeInv, NEW c \in Callers, Started(c)
    PROVE  LifeInv'
<1>1. TypeOK'
  BY DEF LifeInv, TypeOK, CallerStates, Started, Goto, threads, args
<1>2. JoinOnce'
  BY DEF LifeInv, TypeOK, JoinOnce, Started, Goto, threads, args
<1>3. OneManager' /\ FreeFacts'
  BY DEF LifeInv, TypeOK, OneManager, Managing, Started, Goto, threads, args, FreeFacts
<1>4. RunFacts'
  BY DEF LifeInv, TypeOK, RunFacts, Stopped, Hands, Created, Started, Goto, threads, args,
       OneManager, Managing, PlaceFacts, Threads, StopFacts, Joined, Absent, HandFacts,
       InitFacts, FreeFacts
<1>5. StopFacts'
  BY DEF LifeInv, TypeOK, StopFacts, Hands, Started, Goto, threads, args
<1>6. HandFacts'
  BY DEF LifeInv, TypeOK, HandFacts, Hands, Created, Joined, Absent, Started, Goto, threads,
       args
<1>7. PlaceFacts'
  BY DEF LifeInv, TypeOK, PlaceFacts, Joined, Started, Goto, threads, args
<1>8. InitFacts' /\ ShutdownIsComplete'
  BY DEF LifeInv, TypeOK, InitFacts, Absent, Started, Goto, threads, args,
       ShutdownIsComplete, OneManager, Managing, PlaceFacts, Hands, Stopped, Threads,
       StopFacts, RunFacts, Created, Joined, HandFacts, FreeFacts
<1> QED BY <1>1, <1>2, <1>3, <1>4, <1>5, <1>6, <1>7, <1>8 DEF LifeInv

(* The invariant survives: pthread_join in a failed server_start. *)
LEMMA UnwindKeeps ==
    ASSUME LifeInv, NEW c \in Callers, Unwind(c)
    PROVE  LifeInv'
<1>1. TypeOK'
  BY DEF LifeInv, TypeOK, ThreadStates, CallerStates, Threads, Unwind, Goto, Join, Live,
       server
<1>2. JoinOnce'
  BY DEF LifeInv, TypeOK, JoinOnce, Unwind, Goto, Join, Live, server, OneManager, Managing,
       PlaceFacts, Hands, Stopped, Threads, StopFacts, RunFacts, Created, Joined, Absent,
       HandFacts, InitFacts, FreeFacts
<1>3. OneManager' /\ FreeFacts'
  BY DEF LifeInv, TypeOK, OneManager, Managing, Unwind, Goto, Join, Live, server, FreeFacts
<1>4. RunFacts'
  BY DEF LifeInv, TypeOK, RunFacts, Stopped, Hands, Created, Unwind, Goto, Join, Live,
       server
<1>5. StopFacts'
  BY DEF LifeInv, TypeOK, StopFacts, Hands, Unwind, Goto, Join, Live, server, OneManager,
       Managing, PlaceFacts, Stopped, Threads, RunFacts, Created, Joined, Absent, HandFacts,
       InitFacts, FreeFacts
<1>6. HandFacts'
  BY DEF LifeInv, TypeOK, HandFacts, Hands, Created, Joined, Absent, Unwind, Goto, Join,
       Live, server, OneManager, Managing
<1>7. PlaceFacts'
  BY DEF LifeInv, TypeOK, PlaceFacts, Joined, Unwind, Goto, Join, Live, server
<1>8. InitFacts' /\ ShutdownIsComplete'
  BY DEF LifeInv, TypeOK, InitFacts, Absent, Unwind, Goto, Join, Live, server, OneManager,
       Managing, PlaceFacts, Hands, Stopped, Threads, StopFacts, RunFacts, Created, Joined,
       HandFacts, FreeFacts, ShutdownIsComplete
<1> QED BY <1>1, <1>2, <1>3, <1>4, <1>5, <1>6, <1>7, <1>8 DEF LifeInv

(* The invariant survives: server_stop's test. *)
LEMMA StopChecksKeeps ==
    ASSUME LifeInv, NEW c \in Callers, StopChecks(c)
    PROVE  LifeInv'
<1>1. TypeOK'
  BY DEF LifeInv, TypeOK, CallerStates, StopChecks, Goto, server, threads, args
<1>2. OneManager' /\ FreeFacts'
  BY DEF LifeInv, TypeOK, OneManager, Managing, StopChecks, Goto, server, threads, args,
       FreeFacts
<1>3. JoinOnce' /\ InitFacts' /\ ShutdownIsComplete'
  BY DEF LifeInv, TypeOK, JoinOnce, StopChecks, Goto, server, threads, args, InitFacts,
       Absent, ShutdownIsComplete
<1>4. RunFacts' /\ StopFacts'
  BY DEF LifeInv, TypeOK, RunFacts, Stopped, Hands, Created, StopChecks, Goto, server,
       threads, args, StopFacts
<1>5. HandFacts' /\ PlaceFacts'
  BY DEF LifeInv, TypeOK, HandFacts, Hands, Created, Joined, Absent, StopChecks, Goto,
       server, threads, args, PlaceFacts
<1> QED BY <1>1, <1>2, <1>3, <1>4, <1>5 DEF LifeInv

(* The invariant survives: running := false. *)
LEMMA StopFlagsKeeps ==
    ASSUME LifeInv, NEW c \in Callers, StopFlags(c)
    PROVE  LifeInv'
<1>1. TypeOK'
  BY DEF LifeInv, TypeOK, CallerStates, StopFlags, Goto, threads, args
<1>2. JoinOnce'
  BY DEF LifeInv, TypeOK, JoinOnce, StopFlags, Goto, threads, args
<1>3. OneManager' /\ FreeFacts'
  BY DEF LifeInv, TypeOK, OneManager, Managing, StopFlags, Goto, threads, args, FreeFacts
<1>4. RunFacts'
  BY DEF LifeInv, TypeOK, RunFacts, Stopped, Hands, Created, StopFlags, Goto, threads, args
<1>5. StopFacts'
  BY DEF LifeInv, TypeOK, StopFacts, Hands, StopFlags, Goto, threads, args
<1>6. HandFacts'
  BY DEF LifeInv, TypeOK, HandFacts, Hands, Created, Joined, Absent, StopFlags, Goto,
       threads, args, OneManager, Managing, PlaceFacts, Stopped, Threads, StopFacts,
       RunFacts
<1>7. PlaceFacts'
  BY DEF LifeInv, TypeOK, PlaceFacts, Joined, StopFlags, Goto, threads, args, OneManager,
       Managing
<1>8. InitFacts' /\ ShutdownIsComplete'
  BY DEF LifeInv, TypeOK, InitFacts, Absent, StopFlags, Goto, threads, args,
       ShutdownIsComplete
<1> QED BY <1>1, <1>2, <1>3, <1>4, <1>5, <1>6, <1>7, <1>8 DEF LifeInv

(* The invariant survives: the state SHUTTING_DOWN. *)
LEMMA StopAnnouncesKeeps ==
    ASSUME LifeInv, NEW c \in Callers, StopAnnounces(c)
    PROVE  LifeInv'
<1>1. TypeOK'
  BY DEF LifeInv, TypeOK, CallerStates, States, StopAnnounces, UpdateState, threads, args
<1>2. JoinOnce'
  BY DEF LifeInv, TypeOK, JoinOnce, StopAnnounces, UpdateState, threads, args
<1>3. OneManager' /\ FreeFacts'
  BY DEF LifeInv, TypeOK, OneManager, Managing, StopAnnounces, UpdateState, threads, args,
       FreeFacts
<1>4. RunFacts'
  BY DEF LifeInv, TypeOK, RunFacts, Stopped, Hands, Created, StopAnnounces, UpdateState,
       threads, args
<1>5. StopFacts'
  BY DEF LifeInv, TypeOK, StopFacts, Hands, StopAnnounces, UpdateState, threads, args
<1>6. HandFacts'
  BY DEF LifeInv, TypeOK, HandFacts, Hands, Created, Joined, Absent, StopAnnounces,
       UpdateState, threads, args, OneManager, Managing
<1>7. PlaceFacts'
  BY DEF LifeInv, TypeOK, PlaceFacts, Joined, StopAnnounces, UpdateState, threads, args,
       OneManager, Managing
<1>8. InitFacts' /\ ShutdownIsComplete'
  BY DEF LifeInv, TypeOK, InitFacts, Absent, StopAnnounces, UpdateState, threads, args,
       ShutdownIsComplete
<1> QED BY <1>1, <1>2, <1>3, <1>4, <1>5, <1>6, <1>7, <1>8 DEF LifeInv

(* The invariant survives: pthread_cancel in server_stop. *)
LEMMA StopCancelsKeeps ==
    ASSUME LifeInv, NEW c \in Callers, StopCancels(c)
    PROVE  LifeInv'
<1>1. TypeOK'
  BY DEF LifeInv, TypeOK, CallerStates, Threads, StopCancels, Goto, server
<1>2. JoinOnce'
  BY DEF LifeInv, TypeOK, JoinOnce, StopCancels, Goto, server
<1>3. OneManager' /\ FreeFacts'
  BY DEF LifeInv, TypeOK, OneManager, Managing, StopCancels, Goto, server, FreeFacts
<1>4. RunFacts'
  BY DEF LifeInv, TypeOK, RunFacts, Stopped, Hands, Created, StopCancels, Goto, server
<1>5. StopFacts'
  BY DEF LifeInv, TypeOK, StopFacts, Hands, StopCancels, Goto, server
<1>6. HandFacts'
  BY DEF LifeInv, TypeOK, HandFacts, Hands, Created, Joined, Absent, StopCancels, Goto,
       server, OneManager, Managing
<1>7. PlaceFacts'
  BY DEF LifeInv, TypeOK, PlaceFacts, Joined, StopCancels, Goto, server
<1>8. InitFacts' /\ ShutdownIsComplete'
  BY DEF LifeInv, TypeOK, InitFacts, Absent, StopCancels, Goto, server, OneManager,
       Managing, PlaceFacts, Hands, Stopped, Threads, StopFacts, RunFacts, Created, Joined,
       ShutdownIsComplete
<1> QED BY <1>1, <1>2, <1>3, <1>4, <1>5, <1>6, <1>7, <1>8 DEF LifeInv

(* The invariant survives: pthread_join in server_stop. *)
LEMMA StopJoinsKeeps ==
    ASSUME LifeInv, NEW c \in Callers, StopJoins(c)
    PROVE  LifeInv'
<1>1. TypeOK'
  BY DEF LifeInv, TypeOK, ThreadStates, CallerStates, Threads, StopJoins, Goto, Join,
       Following, Live, server
<1>2. JoinOnce'
  BY DEF LifeInv, TypeOK, JoinOnce, StopJoins, Goto, Join, Following, Live, server,
       OneManager, Managing, PlaceFacts, Hands, Stopped, Threads, StopFacts, RunFacts,
       Created, Joined, Absent, HandFacts, InitFacts, FreeFacts
<1>3. OneManager' /\ FreeFacts'
  BY DEF LifeInv, TypeOK, OneManager, Managing, StopJoins, Goto, Join, Following, Live,
       server, FreeFacts
<1>4. RunFacts'
  BY DEF LifeInv, TypeOK, RunFacts, Stopped, Hands, Created, StopJoins, Goto, Join,
       Following, Live, server
<1>5. StopFacts'
  BY DEF LifeInv, TypeOK, StopFacts, Hands, StopJoins, Goto, Join, Following, Live, server,
       OneManager, Managing, PlaceFacts, Stopped, Threads, RunFacts, Created, Joined,
       Absent, HandFacts, InitFacts, FreeFacts
<1>6. HandFacts'
  <2>1. CASE at[c] = "accept"
    BY <2>1 DEF LifeInv, TypeOK, HandFacts, Hands, Created, Joined, Absent, StopJoins, Goto,
         Join, Following, Live, server, OneManager, Managing, PlaceFacts, Stopped, Threads,
         StopFacts, RunFacts
  <2>2. CASE at[c] = "cleanup"
    BY <2>2 DEF LifeInv, TypeOK, HandFacts, Hands, Created, Joined, Absent, StopJoins, Goto,
         Join, Following, Live, server, OneManager, Managing
  <2>3. CASE at[c] = "maintenance"
    BY <2>3 DEF LifeInv, TypeOK, HandFacts, Hands, Created, Joined, Absent, StopJoins, Goto,
         Join, Following, Live, server, OneManager, Managing
  <2> QED BY <2>1, <2>2, <2>3 DEF LifeInv, TypeOK, Threads
<1>7. PlaceFacts'
  BY DEF LifeInv, TypeOK, PlaceFacts, Joined, StopJoins, Goto, Join, Following, Live,
       server, OneManager, Managing, Hands, Stopped, Threads, StopFacts, RunFacts, Created,
       Absent, HandFacts, InitFacts, FreeFacts
<1>8. InitFacts' /\ ShutdownIsComplete'
  BY DEF LifeInv, TypeOK, InitFacts, Absent, StopJoins, Goto, Join, Following, Live, server,
       OneManager, Managing, PlaceFacts, Hands, Stopped, Threads, StopFacts, RunFacts,
       Created, Joined, ShutdownIsComplete
<1> QED BY <1>1, <1>2, <1>3, <1>4, <1>5, <1>6, <1>7, <1>8 DEF LifeInv

(* The invariant survives: server_cleanup_components in server_stop. *)
LEMMA StopCleansKeeps ==
    ASSUME LifeInv, NEW c \in Callers, StopCleans(c)
    PROVE  LifeInv'
<1>1. TypeOK'
  BY DEF LifeInv, TypeOK, CallerStates, StopCleans, Goto, CleanupComponents, threads, args
<1>2. JoinOnce'
  BY DEF LifeInv, TypeOK, JoinOnce, StopCleans, Goto, CleanupComponents, threads, args
<1>3. OneManager' /\ FreeFacts'
  BY DEF LifeInv, TypeOK, OneManager, Managing, StopCleans, Goto, CleanupComponents,
       threads, args, FreeFacts
<1>4. RunFacts'
  BY DEF LifeInv, TypeOK, RunFacts, Stopped, Hands, Created, StopCleans, Goto,
       CleanupComponents, threads, args
<1>5. StopFacts'
  BY DEF LifeInv, TypeOK, StopFacts, Hands, StopCleans, Goto, CleanupComponents, threads,
       args
<1>6. HandFacts'
  BY DEF LifeInv, TypeOK, HandFacts, Hands, Created, Joined, Absent, StopCleans, Goto,
       CleanupComponents, threads, args, OneManager, Managing
<1>7. PlaceFacts'
  BY DEF LifeInv, TypeOK, PlaceFacts, Joined, StopCleans, Goto, CleanupComponents, threads,
       args
<1>8. InitFacts' /\ ShutdownIsComplete'
  BY DEF LifeInv, TypeOK, InitFacts, Absent, StopCleans, Goto, CleanupComponents, threads,
       args, ShutdownIsComplete
<1> QED BY <1>1, <1>2, <1>3, <1>4, <1>5, <1>6, <1>7, <1>8 DEF LifeInv

(* The invariant survives: the state SHUTDOWN. *)
LEMMA StopDoneKeeps ==
    ASSUME LifeInv, NEW c \in Callers, StopDone(c)
    PROVE  LifeInv'
<1>1. TypeOK'
  BY DEF LifeInv, TypeOK, CallerStates, States, StopDone, UpdateState, threads
<1>2. JoinOnce'
  BY DEF LifeInv, TypeOK, JoinOnce, StopDone, UpdateState, threads
<1>3. OneManager' /\ FreeFacts'
  BY DEF LifeInv, TypeOK, OneManager, Managing, StopDone, UpdateState, threads, FreeFacts
<1>4. RunFacts'
  BY DEF LifeInv, TypeOK, RunFacts, Stopped, Hands, Created, StopDone, UpdateState, threads
<1>5. StopFacts'
  BY DEF LifeInv, TypeOK, StopFacts, Hands, StopDone, UpdateState, threads
<1>6. HandFacts'
  BY DEF LifeInv, TypeOK, HandFacts, Hands, Created, Joined, Absent, StopDone, UpdateState,
       threads, OneManager, Managing
<1>7. PlaceFacts'
  BY DEF LifeInv, TypeOK, PlaceFacts, Joined, StopDone, UpdateState, threads, OneManager,
       Managing
<1>8. InitFacts' /\ ShutdownIsComplete'
  BY DEF LifeInv, TypeOK, InitFacts, Absent, StopDone, UpdateState, threads,
       ShutdownIsComplete, OneManager, Managing, PlaceFacts, Hands, Stopped, Threads,
       StopFacts, RunFacts, Created, Joined
<1> QED BY <1>1, <1>2, <1>3, <1>4, <1>5, <1>6, <1>7, <1>8 DEF LifeInv

(* The invariant survives: server_destroy's stop. *)
LEMMA DestroyStopsKeeps ==
    ASSUME LifeInv, NEW c \in Callers, DestroyStops(c)
    PROVE  LifeInv'
<1>1. TypeOK'
  BY DEF LifeInv, TypeOK, CallerStates, DestroyStops, Goto, server, threads
<1>2. OneManager' /\ FreeFacts'
  BY DEF LifeInv, TypeOK, OneManager, Managing, DestroyStops, Goto, server, threads,
       FreeFacts
<1>3. JoinOnce' /\ InitFacts' /\ ShutdownIsComplete'
  BY DEF LifeInv, TypeOK, JoinOnce, DestroyStops, Goto, server, threads, InitFacts, Absent,
       ShutdownIsComplete
<1>4. RunFacts' /\ StopFacts'
  BY DEF LifeInv, TypeOK, RunFacts, Stopped, Hands, Created, DestroyStops, Goto, server,
       threads, StopFacts
<1>5. HandFacts' /\ PlaceFacts'
  BY DEF LifeInv, TypeOK, HandFacts, Hands, Created, Joined, Absent, DestroyStops, Goto,
       server, threads, PlaceFacts
<1> QED BY <1>1, <1>2, <1>3, <1>4, <1>5 DEF LifeInv

(* The invariant survives: server_destroy's wait. *)
LEMMA DestroyWaitsKeeps ==
    ASSUME LifeInv, NEW c \in Callers, DestroyWaits(c)
    PROVE  LifeInv'
<1>1. TypeOK'
  BY DEF LifeInv, TypeOK, CallerStates, DestroyWaits, Goto, server, threads
<1>2. OneManager' /\ FreeFacts'
  BY DEF LifeInv, TypeOK, OneManager, Managing, DestroyWaits, Goto, server, threads,
       FreeFacts
<1>3. JoinOnce' /\ InitFacts' /\ ShutdownIsComplete'
  BY DEF LifeInv, TypeOK, JoinOnce, DestroyWaits, Goto, server, threads, InitFacts, Absent,
       ShutdownIsComplete
<1>4. RunFacts' /\ StopFacts'
  BY DEF LifeInv, TypeOK, RunFacts, Stopped, Hands, Created, DestroyWaits, Goto, server,
       threads, StopFacts
<1>5. HandFacts' /\ PlaceFacts'
  BY DEF LifeInv, TypeOK, HandFacts, Hands, Created, Joined, Absent, DestroyWaits, Goto,
       server, threads, PlaceFacts
<1> QED BY <1>1, <1>2, <1>3, <1>4, <1>5 DEF LifeInv

(* The invariant survives: server_cleanup_components in server_destroy. *)
LEMMA DestroyCleansKeeps ==
    ASSUME LifeInv, NEW c \in Callers, DestroyCleans(c)
    PROVE  LifeInv'
<1>1. TypeOK'
  BY DEF LifeInv, TypeOK, CallerStates, DestroyCleans, Goto, CleanupComponents, threads,
       args
<1>2. JoinOnce'
  BY DEF LifeInv, TypeOK, JoinOnce, DestroyCleans, Goto, CleanupComponents, threads, args
<1>3. OneManager' /\ FreeFacts'
  BY DEF LifeInv, TypeOK, OneManager, Managing, DestroyCleans, Goto, CleanupComponents,
       threads, args, FreeFacts
<1>4. RunFacts'
  BY DEF LifeInv, TypeOK, RunFacts, Stopped, Hands, Created, DestroyCleans, Goto,
       CleanupComponents, threads, args
<1>5. StopFacts'
  BY DEF LifeInv, TypeOK, StopFacts, Hands, DestroyCleans, Goto, CleanupComponents, threads,
       args
<1>6. HandFacts'
  BY DEF LifeInv, TypeOK, HandFacts, Hands, Created, Joined, Absent, DestroyCleans, Goto,
       CleanupComponents, threads, args, OneManager, Managing
<1>7. PlaceFacts'
  BY DEF LifeInv, TypeOK, PlaceFacts, Joined, DestroyCleans, Goto, CleanupComponents,
       threads, args
<1>8. InitFacts' /\ ShutdownIsComplete'
  BY DEF LifeInv, TypeOK, InitFacts, Absent, DestroyCleans, Goto, CleanupComponents,
       threads, args, ShutdownIsComplete
<1> QED BY <1>1, <1>2, <1>3, <1>4, <1>5, <1>6, <1>7, <1>8 DEF LifeInv

(* The invariant survives: the end of server_destroy. *)
LEMMA DestroyFreesKeeps ==
    ASSUME LifeInv, NEW c \in Callers, DestroyFrees(c)
    PROVE  LifeInv'
<1>1. TypeOK'
  BY DEF LifeInv, TypeOK, CallerStates, DestroyFrees, Goto, threads, args
<1>2. JoinOnce'
  BY DEF LifeInv, TypeOK, JoinOnce, DestroyFrees, Goto, threads, args
<1>3. OneManager' /\ FreeFacts'
  BY DEF LifeInv, TypeOK, OneManager, Managing, DestroyFrees, Goto, threads, args, FreeFacts
<1>4. RunFacts'
  BY DEF LifeInv, TypeOK, RunFacts, Stopped, Hands, Created, DestroyFrees, Goto, threads,
       args
<1>5. StopFacts'
  BY DEF LifeInv, TypeOK, StopFacts, Hands, DestroyFrees, Goto, threads, args
<1>6. HandFacts'
  BY DEF LifeInv, TypeOK, HandFacts, Hands, Created, Joined, Absent, DestroyFrees, Goto,
       threads, args, OneManager, Managing
<1>7. PlaceFacts'
  BY DEF LifeInv, TypeOK, PlaceFacts, Joined, DestroyFrees, Goto, threads, args
<1>8. InitFacts' /\ ShutdownIsComplete'
  BY DEF LifeInv, TypeOK, InitFacts, Absent, DestroyFrees, Goto, threads, args,
       ShutdownIsComplete
<1> QED BY <1>1, <1>2, <1>3, <1>4, <1>5, <1>6, <1>7, <1>8 DEF LifeInv

(* The invariant survives: server_restore_data's stop. *)
LEMMA RestoreStopsKeeps ==
    ASSUME LifeInv, NEW c \in Callers, RestoreStops(c)
    PROVE  LifeInv'
<1>1. TypeOK'
  BY DEF LifeInv, TypeOK, CallerStates, RestoreStops, Goto, server, threads
<1>2. OneManager' /\ FreeFacts'
  BY DEF LifeInv, TypeOK, OneManager, Managing, RestoreStops, Goto, server, threads,
       FreeFacts
<1>3. JoinOnce' /\ InitFacts' /\ ShutdownIsComplete'
  BY DEF LifeInv, TypeOK, JoinOnce, RestoreStops, Goto, server, threads, InitFacts, Absent,
       ShutdownIsComplete
<1>4. RunFacts' /\ StopFacts'
  BY DEF LifeInv, TypeOK, RunFacts, Stopped, Hands, Created, RestoreStops, Goto, server,
       threads, StopFacts
<1>5. HandFacts' /\ PlaceFacts'
  BY DEF LifeInv, TypeOK, HandFacts, Hands, Created, Joined, Absent, RestoreStops, Goto,
       server, threads, PlaceFacts
<1> QED BY <1>1, <1>2, <1>3, <1>4, <1>5 DEF LifeInv

(* The invariant survives: the exchange of the database file. *)
LEMMA RestoreDatabaseKeeps ==
    ASSUME LifeInv, NEW c \in Callers, RestoreDatabase(c)
    PROVE  LifeInv'
<1>1. TypeOK'
  BY DEF LifeInv, TypeOK, CallerStates, RestoreDatabase, Goto, threads
<1>2. JoinOnce'
  BY DEF LifeInv, TypeOK, JoinOnce, RestoreDatabase, Goto, threads
<1>3. OneManager' /\ FreeFacts'
  BY DEF LifeInv, TypeOK, OneManager, Managing, RestoreDatabase, Goto, threads, FreeFacts
<1>4. RunFacts'
  BY DEF LifeInv, TypeOK, RunFacts, Stopped, Hands, Created, RestoreDatabase, Goto, threads
<1>5. StopFacts'
  BY DEF LifeInv, TypeOK, StopFacts, Hands, RestoreDatabase, Goto, threads
<1>6. HandFacts'
  BY DEF LifeInv, TypeOK, HandFacts, Hands, Created, Joined, Absent, RestoreDatabase, Goto,
       threads, OneManager, Managing
<1>7. PlaceFacts'
  BY DEF LifeInv, TypeOK, PlaceFacts, Joined, RestoreDatabase, Goto, threads
<1>8. InitFacts' /\ ShutdownIsComplete'
  BY DEF LifeInv, TypeOK, InitFacts, Absent, RestoreDatabase, Goto, threads,
       ShutdownIsComplete
<1> QED BY <1>1, <1>2, <1>3, <1>4, <1>5, <1>6, <1>7, <1>8 DEF LifeInv

(* The invariant survives: server_wait_for_state's test. *)
LEMMA WaitChecksKeeps ==
    ASSUME LifeInv, NEW c \in Callers, WaitChecks(c)
    PROVE  LifeInv'
<1>1. TypeOK'
  BY DEF LifeInv, TypeOK, CallerStates, States, WaitChecks, Goto, server, threads
<1>2. OneManager' /\ FreeFacts'
  BY DEF LifeInv, TypeOK, OneManager, Managing, WaitChecks, Goto, server, threads, FreeFacts
<1>3. JoinOnce' /\ InitFacts' /\ ShutdownIsComplete'
  BY DEF LifeInv, TypeOK, JoinOnce, WaitChecks, Goto, server, threads, InitFacts, Absent,
       ShutdownIsComplete
<1>4. RunFacts' /\ StopFacts'
  BY DEF LifeInv, TypeOK, RunFacts, Stopped, Hands, Created, WaitChecks, Goto, server,
       threads, StopFacts
<1>5. HandFacts' /\ PlaceFacts'
  BY DEF LifeInv, TypeOK, HandFacts, Hands, Created, Joined, Absent, WaitChecks, Goto,
       server, threads, PlaceFacts
<1> QED BY <1>1, <1>2, <1>3, <1>4, <1>5 DEF LifeInv

(* The invariant survives: the timeout of server_wait_for_state. *)
LEMMA WaitTimesOutKeeps ==
    ASSUME LifeInv, NEW c \in Callers, WaitTimesOut(c)
    PROVE  LifeInv'
<1>1. TypeOK'
  BY DEF LifeInv, TypeOK, CallerStates, States, WaitTimesOut, Goto, server, threads
<1>2. OneManager' /\ FreeFacts'
  BY DEF LifeInv, TypeOK, OneManager, Managing, WaitTimesOut, Goto, server, threads,
       FreeFacts
<1>3. JoinOnce' /\ InitFacts' /\ ShutdownIsComplete'
  BY DEF LifeInv, TypeOK, JoinOnce, WaitTimesOut, Goto, server, threads, InitFacts, Absent,
       ShutdownIsComplete
<1>4. RunFacts' /\ StopFacts'
  BY DEF LifeInv, TypeOK, RunFacts, Stopped, Hands, Created, WaitTimesOut, Goto, server,
       threads, StopFacts
<1>5. HandFacts' /\ PlaceFacts'
  BY DEF LifeInv, TypeOK, HandFacts, Hands, Created, Joined, Absent, WaitTimesOut, Goto,
       server, threads, PlaceFacts
<1> QED BY <1>1, <1>2, <1>3, <1>4, <1>5 DEF LifeInv

(* The invariant survives: a new call. *)
LEMMA CallKeeps ==
    ASSUME LifeInv, Exclusive, NEW c \in Callers, NEW op \in Ops, Call(c, op)
    PROVE  LifeInv'
<1>1. TypeOK'
  BY CoreAssumption DEF LifeInv, TypeOK, CallerStates, States, Call, Goto, LifeOps,
       CallerOps, server, threads, OneManager, Managing, PlaceFacts, Hands, Stopped,
       Threads, StopFacts, RunFacts, Created, Joined, Absent, HandFacts, InitFacts,
       FreeFacts, JoinOnce, ShutdownIsComplete, Live, args, Destroying, ThreadStates, Locks
<1>2. OneManager' /\ FreeFacts'
  BY CoreAssumption DEF LifeInv, TypeOK, OneManager, Managing, Call, Goto, LifeOps,
       CallerOps, server, threads, PlaceFacts, Hands, Stopped, Threads, StopFacts, RunFacts,
       Created, Joined, Absent, HandFacts, InitFacts, FreeFacts, JoinOnce,
       ShutdownIsComplete, Live, args, Destroying
<1>3. JoinOnce' /\ InitFacts' /\ ShutdownIsComplete'
  BY DEF LifeInv, TypeOK, JoinOnce, Call, Goto, LifeOps, CallerOps, server, threads,
       InitFacts, Absent, ShutdownIsComplete
<1>4. RunFacts' /\ StopFacts'
  BY CoreAssumption DEF LifeInv, TypeOK, RunFacts, Stopped, Hands, Created, Call, Goto,
       LifeOps, CallerOps, server, threads, OneManager, Managing, PlaceFacts, Threads,
       StopFacts, Joined, Absent, HandFacts, InitFacts, FreeFacts, JoinOnce,
       ShutdownIsComplete, Live, args, Destroying
<1>5. HandFacts' /\ PlaceFacts'
  BY CoreAssumption DEF LifeInv, TypeOK, HandFacts, Hands, Created, Joined, Absent, Call,
       Goto, LifeOps, CallerOps, server, threads, OneManager, Managing, PlaceFacts, Stopped,
       Threads, StopFacts, RunFacts, InitFacts, FreeFacts, JoinOnce, ShutdownIsComplete,
       Live, args, Destroying
<1> QED BY <1>1, <1>2, <1>3, <1>4, <1>5 DEF LifeInv

(* The invariant survives: a thread's loop condition. *)
LEMMA LoopTestKeeps ==
    ASSUME LifeInv, NEW t \in Threads, LoopTest(t)
    PROVE  LifeInv'
<1>1. TypeOK'
  BY DEF LifeInv, TypeOK, ThreadStates, Threads, LoopTest, Move, server, args
<1>2. JoinOnce' /\ OneManager' /\ FreeFacts'
  BY DEF LifeInv, TypeOK, JoinOnce, LoopTest, Move, server, args, OneManager, Managing,
       FreeFacts
<1>3. RunFacts' /\ StopFacts'
  BY DEF LifeInv, TypeOK, RunFacts, Stopped, Hands, Created, LoopTest, Move, server, args,
       StopFacts
<1>4. HandFacts'
  BY DEF LifeInv, TypeOK, HandFacts, Hands, Created, Joined, Absent, LoopTest, Move, server,
       args
<1>5. PlaceFacts' /\ InitFacts' /\ ShutdownIsComplete'
  BY DEF LifeInv, TypeOK, PlaceFacts, Joined, LoopTest, Move, server, args, InitFacts,
       Absent, ShutdownIsComplete
<1> QED BY <1>1, <1>2, <1>3, <1>4, <1>5 DEF LifeInv

(* The invariant survives: epoll_wait's return. *)
LEMMA EpollReturnsKeeps ==
    ASSUME LifeInv, EpollReturns
    PROVE  LifeInv'
<1>1. TypeOK'
  BY DEF LifeInv, TypeOK, ThreadStates, Threads, EpollReturns, Move, server, args
<1>2. JoinOnce' /\ OneManager' /\ FreeFacts'
  BY DEF LifeInv, TypeOK, JoinOnce, EpollReturns, Move, server, args, OneManager, Managing,
       FreeFacts
<1>3. RunFacts' /\ StopFacts'
  BY DEF LifeInv, TypeOK, RunFacts, Stopped, Hands, Created, EpollReturns, Move, server,
       args, StopFacts
<1>4. HandFacts'
  BY DEF LifeInv, TypeOK, HandFacts, Hands, Created, Joined, Absent, EpollReturns, Move,
       server, args, OneManager, Managing, PlaceFacts, Stopped, Threads, StopFacts, RunFacts
<1>5. PlaceFacts' /\ InitFacts' /\ ShutdownIsComplete'
  BY DEF LifeInv, TypeOK, PlaceFacts, Joined, EpollReturns, Move, server, args, InitFacts,
       Absent, ShutdownIsComplete
<1> QED BY <1>1, <1>2, <1>3, <1>4, <1>5 DEF LifeInv

(* The invariant survives: handle_tcp_connection. *)
LEMMA AdoptConnectionKeeps ==
    ASSUME LifeInv, AdoptConnection
    PROVE  LifeInv'
<1>1. TypeOK'
  BY DEF LifeInv, TypeOK, ThreadStates, Threads, AdoptConnection, Move, server, args
<1>2. JoinOnce' /\ OneManager' /\ FreeFacts'
  BY DEF LifeInv, TypeOK, JoinOnce, AdoptConnection, Move, server, args, OneManager,
       Managing, FreeFacts
<1>3. RunFacts' /\ StopFacts'
  BY DEF LifeInv, TypeOK, RunFacts, Stopped, Hands, Created, AdoptConnection, Move, server,
       args, StopFacts
<1>4. HandFacts'
  BY DEF LifeInv, TypeOK, HandFacts, Hands, Created, Joined, Absent, AdoptConnection, Move,
       server, args
<1>5. PlaceFacts' /\ InitFacts' /\ ShutdownIsComplete'
  BY DEF LifeInv, TypeOK, PlaceFacts, Joined, AdoptConnection, Move, server, args,
       InitFacts, Absent, ShutdownIsComplete
<1> QED BY <1>1, <1>2, <1>3, <1>4, <1>5 DEF LifeInv

(* The invariant survives: locking audit_mutex. *)
LEMMA LogAuditBeginsKeeps ==
    ASSUME LifeInv, LogAuditBegins
    PROVE  LifeInv'
<1>1. TypeOK'
  BY DEF LifeInv, TypeOK, ThreadStates, Locks, Threads, LogAuditBegins, Move, server, args
<1>2. JoinOnce' /\ OneManager' /\ FreeFacts'
  BY DEF LifeInv, TypeOK, JoinOnce, LogAuditBegins, Move, server, args, OneManager,
       Managing, FreeFacts
<1>3. RunFacts' /\ StopFacts'
  BY DEF LifeInv, TypeOK, RunFacts, Stopped, Hands, Created, LogAuditBegins, Move, server,
       args, StopFacts
<1>4. HandFacts'
  BY DEF LifeInv, TypeOK, HandFacts, Hands, Created, Joined, Absent, LogAuditBegins, Move,
       server, args
<1>5. PlaceFacts' /\ InitFacts' /\ ShutdownIsComplete'
  BY DEF LifeInv, TypeOK, PlaceFacts, Joined, LogAuditBegins, Move, server, args, InitFacts,
       Absent, ShutdownIsComplete
<1> QED BY <1>1, <1>2, <1>3, <1>4, <1>5 DEF LifeInv

(* The invariant survives: unlocking audit_mutex. *)
LEMMA LogAuditEndsKeeps ==
    ASSUME LifeInv, LogAuditEnds
    PROVE  LifeInv'
<1>1. TypeOK'
  BY DEF LifeInv, TypeOK, ThreadStates, Locks, Threads, LogAuditEnds, Move, server, args
<1>2. JoinOnce' /\ OneManager' /\ FreeFacts'
  BY DEF LifeInv, TypeOK, JoinOnce, LogAuditEnds, Move, server, args, OneManager, Managing,
       FreeFacts
<1>3. RunFacts' /\ StopFacts'
  BY DEF LifeInv, TypeOK, RunFacts, Stopped, Hands, Created, LogAuditEnds, Move, server,
       args, StopFacts
<1>4. HandFacts'
  BY DEF LifeInv, TypeOK, HandFacts, Hands, Created, Joined, Absent, LogAuditEnds, Move,
       server, args
<1>5. PlaceFacts' /\ InitFacts' /\ ShutdownIsComplete'
  BY DEF LifeInv, TypeOK, PlaceFacts, Joined, LogAuditEnds, Move, server, args, InitFacts,
       Absent, ShutdownIsComplete
<1> QED BY <1>1, <1>2, <1>3, <1>4, <1>5 DEF LifeInv

(* The invariant survives: the end of a sleep. *)
LEMMA SleepEndsKeeps ==
    ASSUME LifeInv, NEW t \in Threads, SleepEnds(t)
    PROVE  LifeInv'
<1>1. TypeOK'
  BY DEF LifeInv, TypeOK, ThreadStates, Threads, SleepEnds, Move, server, args
<1>2. JoinOnce' /\ OneManager' /\ FreeFacts'
  BY DEF LifeInv, TypeOK, JoinOnce, SleepEnds, Move, server, args, OneManager, Managing,
       FreeFacts
<1>3. RunFacts' /\ StopFacts'
  BY DEF LifeInv, TypeOK, RunFacts, Stopped, Hands, Created, SleepEnds, Move, server, args,
       StopFacts
<1>4. HandFacts'
  BY DEF LifeInv, TypeOK, HandFacts, Hands, Created, Joined, Absent, SleepEnds, Move,
       server, args
<1>5. PlaceFacts' /\ InitFacts' /\ ShutdownIsComplete'
  BY DEF LifeInv, TypeOK, PlaceFacts, Joined, SleepEnds, Move, server, args, InitFacts,
       Absent, ShutdownIsComplete
<1> QED BY <1>1, <1>2, <1>3, <1>4, <1>5 DEF LifeInv

(* The invariant survives: the test after a sleep. *)
LEMMA RecheckKeeps ==
    ASSUME LifeInv, NEW t \in Threads, Recheck(t)
    PROVE  LifeInv'
<1>1. TypeOK'
  BY DEF LifeInv, TypeOK, ThreadStates, Threads, Recheck, Move, server, args
<1>2. JoinOnce' /\ OneManager' /\ FreeFacts'
  BY DEF LifeInv, TypeOK, JoinOnce, Recheck, Move, server, args, OneManager, Managing,
       FreeFacts
<1>3. RunFacts' /\ StopFacts'
  BY DEF LifeInv, TypeOK, RunFacts, Stopped, Hands, Created, Recheck, Move, server, args,
       StopFacts
<1>4. HandFacts'
  BY DEF LifeInv, TypeOK, HandFacts, Hands, Created, Joined, Absent, Recheck, Move, server,
       args
<1>5. PlaceFacts' /\ InitFacts' /\ ShutdownIsComplete'
  BY DEF LifeInv, TypeOK, PlaceFacts, Joined, Recheck, Move, server, args, InitFacts,
       Absent, ShutdownIsComplete
<1> QED BY <1>1, <1>2, <1>3, <1>4, <1>5 DEF LifeInv

(* The invariant survives: locking the pool. *)
LEMMA ExpireBeginsKeeps ==
    ASSUME LifeInv, ExpireBegins
    PROVE  LifeInv'
<1>1. TypeOK'
  BY DEF LifeInv, TypeOK, ThreadStates, Locks, Threads, ExpireBegins, Move, server, args
<1>2. JoinOnce' /\ OneManager' /\ FreeFacts'
  BY DEF LifeInv, TypeOK, JoinOnce, ExpireBegins, Move, server, args, OneManager, Managing,
       FreeFacts
<1>3. RunFacts' /\ StopFacts'
  BY DEF LifeInv, TypeOK, RunFacts, Stopped, Hands, Created, ExpireBegins, Move, server,
       args, StopFacts
<1>4. HandFacts'
  BY DEF LifeInv, TypeOK, HandFacts, Hands, Created, Joined, Absent, ExpireBegins, Move,
       server, args
<1>5. PlaceFacts' /\ InitFacts' /\ ShutdownIsComplete'
  BY DEF LifeInv, TypeOK, PlaceFacts, Joined, ExpireBegins, Move, server, args, InitFacts,
       Absent, ShutdownIsComplete
<1> QED BY <1>1, <1>2, <1>3, <1>4, <1>5 DEF LifeInv

(* The invariant survives: unlocking the pool. *)
LEMMA ExpireEndsKeeps ==
    ASSUME LifeInv, ExpireEnds
    PROVE  LifeInv'
<1>1. TypeOK'
  BY DEF LifeInv, TypeOK, ThreadStates, Locks, Threads, ExpireEnds, Move, server, args
<1>2. JoinOnce' /\ OneManager' /\ FreeFacts'
  BY DEF LifeInv, TypeOK, JoinOnce, ExpireEnds, Move, server, args, OneManager, Managing,
       FreeFacts
<1>3. RunFacts' /\ StopFacts'
  BY DEF LifeInv, TypeOK, RunFacts, Stopped, Hands, Created, ExpireEnds, Move, server, args,
       StopFacts
<1>4. HandFacts'
  BY DEF LifeInv, TypeOK, HandFacts, Hands, Created, Joined, Absent, ExpireEnds, Move,
       server, args
<1>5. PlaceFacts' /\ InitFacts' /\ ShutdownIsComplete'
  BY DEF LifeInv, TypeOK, PlaceFacts, Joined, ExpireEnds, Move, server, args, InitFacts,
       Absent, ShutdownIsComplete
<1> QED BY <1>1, <1>2, <1>3, <1>4, <1>5 DEF LifeInv

(* The invariant survives: server_perform_maintenance. *)
LEMMA MaintainKeeps ==
    ASSUME LifeInv, Maintain
    PROVE  LifeInv'
<1>1. TypeOK'
  BY DEF LifeInv, TypeOK, ThreadStates, Threads, Maintain, Move, server, args
<1>2. JoinOnce' /\ OneManager' /\ FreeFacts'
  BY DEF LifeInv, TypeOK, JoinOnce, Maintain, Move, server, args, OneManager, Managing,
       FreeFacts
<1>3. RunFacts' /\ StopFacts'
  BY DEF LifeInv, TypeOK, RunFacts, Stopped, Hands, Created, Maintain, Move, server, args,
       StopFacts
<1>4. HandFacts'
  BY DEF LifeInv, TypeOK, HandFacts, Hands, Created, Joined, Absent, Maintain, Move, server,
       args
<1>5. PlaceFacts' /\ InitFacts' /\ ShutdownIsComplete'
  BY DEF LifeInv, TypeOK, PlaceFacts, Joined, Maintain, Move, server, args, InitFacts,
       Absent, ShutdownIsComplete
<1> QED BY <1>1, <1>2, <1>3, <1>4, <1>5 DEF LifeInv

(* The invariant survives: the end of a cancelled thread. *)
LEMMA ActOnCancelKeeps ==
    ASSUME LifeInv, NEW t \in Threads, ActOnCancel(t)
    PROVE  LifeInv'
<1>1. TypeOK'
  BY DEF LifeInv, TypeOK, ThreadStates, Threads, ActOnCancel, Move, server, args
<1>2. JoinOnce' /\ OneManager' /\ FreeFacts'
  BY DEF LifeInv, TypeOK, JoinOnce, ActOnCancel, Move, server, args, OneManager, Managing,
       FreeFacts
<1>3. RunFacts' /\ StopFacts'
  BY DEF LifeInv, TypeOK, RunFacts, Stopped, Hands, Created, ActOnCancel, Move, server,
       args, StopFacts
<1>4. HandFacts'
  BY DEF LifeInv, TypeOK, HandFacts, Hands, Created, Joined, Absent, ActOnCancel, Move,
       server, args
<1>5. PlaceFacts' /\ InitFacts' /\ ShutdownIsComplete'
  BY DEF LifeInv, TypeOK, PlaceFacts, Joined, ActOnCancel, Move, server, args, InitFacts,
       Absent, ShutdownIsComplete
<1> QED BY <1>1, <1>2, <1>3, <1>4, <1>5 DEF LifeInv

(* The invariant holds of a fresh instance. *)
LEMMA InitLife == Init => LifeInv
<1> SUFFICES ASSUME Init PROVE LifeInv
  OBVIOUS
<1>1. TypeOK
  BY CoreAssumption DEF Init, TypeOK, ThreadStates, CallerStates, States, Threads, Locks
<1>2. \A c \in Callers : pc[c] = "idle"
  BY DEF Init
<1>3. OneManager /\ FreeFacts
  BY <1>2 DEF OneManager, FreeFacts, Managing
<1>4. RunFacts /\ StopFacts /\ ShutdownIsComplete /\ InitFacts /\ JoinOnce
  BY DEF Init, RunFacts, StopFacts, ShutdownIsComplete, InitFacts, Absent, JoinOnce
<1>5. HandFacts /\ PlaceFacts
  BY <1>2 DEF HandFacts, PlaceFacts, Hands
<1> QED BY <1>1, <1>3, <1>4, <1>5 DEF LifeInv

(* Every step keeps the invariant. *)
LEMMA NextLife ==
    ASSUME Exclusive, LifeInv, [Next]_vars
    PROVE  LifeInv'
<1>1. CASE \E c \in Callers : CallerStep(c)
  <2> PICK c \in Callers : CallerStep(c)
    BY <1>1
  <2> QED
    BY StartChecksKeeps, InitFailsKeeps, InitSucceedsKeeps, SpawnKeeps, SpawnFailsKeeps,
         StartedKeeps, UnwindKeeps, StopChecksKeeps, StopFlagsKeeps, StopAnnouncesKeeps,
         StopCancelsKeeps, StopJoinsKeeps, StopCleansKeeps, StopDoneKeeps, DestroyStopsKeeps,
         DestroyWaitsKeeps, DestroyCleansKeeps, DestroyFreesKeeps, RestoreStopsKeeps,
         RestoreDatabaseKeeps, WaitChecksKeeps, WaitTimesOutKeeps
       DEF CallerStep
<1>2. CASE \E c \in Callers, op \in Ops : Call(c, op)
  BY <1>2, CallKeeps
<1>3. CASE \E t \in Threads : ThreadStep(t)
  <2> PICK t \in Threads : ThreadStep(t)
    BY <1>3
  <2> QED
    BY LoopTestKeeps, EpollReturnsKeeps, AdoptConnectionKeeps, LogAuditBeginsKeeps,
         LogAuditEndsKeeps, SleepEndsKeeps, RecheckKeeps, ExpireBeginsKeeps, ExpireEndsKeeps,
         MaintainKeeps, ActOnCancelKeeps
       DEF ThreadStep
<1>4. CASE UNCHANGED vars
  BY <1>4 DEF vars, server, threads, args, LifeInv, TypeOK, JoinOnce, OneManager, RunFacts,
      StopFacts, HandFacts, PlaceFacts, InitFacts, FreeFacts, ShutdownIsComplete, Created,
      Joined, Absent, Managing
<1> QED BY <1>1, <1>2, <1>3, <1>4 DEF Next

(* The invariant implies the safety properties. *)
LEMMA LifeImplies ==
    ASSUME LifeInv
    PROVE  ThreadsHaveParts /\ JoinOnce /\ RunningMeansRunning /\ ShutdownIsComplete
<1>1. ThreadsHaveParts
  BY DEF LifeInv, ThreadsHaveParts, Live, RunFacts, StopFacts, HandFacts, Needed
<1>2. RunningMeansRunning
  BY DEF LifeInv, RunningMeansRunning, RunFacts, Created
<1> QED BY <1>1, <1>2 DEF LifeInv

(* When management calls do not overlap, for every list of parts and every
   failure of server_init and pthread_create: no thread of the server
   outlives the components, threads are joined exactly once, running means
   RUNNING with all threads in place, and SHUTDOWN means nothing is left. *)
THEOREM SafeLife ==
    Exclusive /\ Spec => [](/\ TypeOK /\ ThreadsHaveParts /\ JoinOnce
                           /\ RunningMeansRunning /\ ShutdownIsComplete)
<1>1. CASE Exclusive
  <2>1. Init => LifeInv
    BY InitLife
  <2>2. LifeInv /\ [Next]_vars => LifeInv'
    BY <1>1, NextLife
  <2>3. LifeInv => /\ TypeOK /\ ThreadsHaveParts /\ JoinOnce
                   /\ RunningMeansRunning /\ ShutdownIsComplete
    BY LifeImplies DEF LifeInv
  <2> QED BY <2>1, <2>2, <2>3, PTL DEF Spec
<1>2. CASE ~Exclusive
  BY <1>2
<1> QED BY <1>1, <1>2

(* Only server_restore_data writes the database file. *)
LEMMA OnlyRestoreReplaces ==
    ASSUME [Next]_vars, database' # database
    PROVE  \E c \in Callers : RestoreDatabase(c)
<1>1. CASE \E c \in Callers : CallerStep(c)
  BY <1>1 DEF CallerStep, server, StartChecks, InitFails, InitSucceeds, Spawn, SpawnFails,
       Started, Unwind, StopChecks, StopFlags, StopAnnounces, StopCancels, StopJoins,
       StopCleans, StopDone, DestroyStops, DestroyWaits, DestroyCleans, DestroyFrees,
       RestoreStops, WaitChecks, WaitTimesOut
<1>2. CASE \E c \in Callers, op \in Ops : Call(c, op)
  BY <1>2 DEF Call, server
<1>3. CASE \E t \in Threads : ThreadStep(t)
  BY <1>3 DEF ThreadStep, server, LoopTest, EpollReturns, AdoptConnection, LogAuditBegins,
       LogAuditEnds, SleepEnds, Recheck, ExpireBegins, ExpireEnds, Maintain, ActOnCancel
<1> QED BY <1>1, <1>2, <1>3 DEF Next, vars, server

(* The database file is exchanged by server_restore_data only while no
   thread of the server exists that could be using it. *)
THEOREM RestoreIsSafe == Exclusive /\ Spec => DbReplacedOnlyWhenStopped
<1>1. CASE Exclusive
  <2>1. Init => LifeInv
    BY InitLife
  <2>2. LifeInv /\ [Next]_vars => LifeInv'
    BY <1>1, NextLife
  <2>3. LifeInv /\ [Next]_vars
            => [database' # database => ~running /\ \A t \in Threads : ~Live(t)]_vars
    <3> SUFFICES ASSUME LifeInv, [Next]_vars, database' # database
                 PROVE  ~running /\ \A t \in Threads : ~Live(t)
      OBVIOUS
    <3> PICK c \in Callers : RestoreDatabase(c)
      BY OnlyRestoreReplaces
    <3>1. \A d \in Callers : pc[d] \notin Hands
      BY DEF RestoreDatabase, LifeInv, OneManager, Managing, Hands
    <3> QED BY <3>1 DEF RestoreDatabase, LifeInv, RunFacts, StopFacts, Stopped, Live
  <2> QED BY <2>1, <2>2, <2>3, PTL DEF Spec, DbReplacedOnlyWhenStopped
<1>2. CASE ~Exclusive
  BY <1>2
<1> QED BY <1>1, <1>2
===============================================================================
