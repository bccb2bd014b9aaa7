------------------------- MODULE ClientWatchProofs -------------------------
(***************************************************************************)
(* The safety properties of ClientWatch hold for every number of changes,  *)
(* events and errors, and for every setting of the Throttle.               *)
(***************************************************************************)
EXTENDS ClientWatch, TLAPS

\* Only a sleeper has triggered the Throttle, and it has begun to sleep: an
\* event is never received while the Throttle would drop it.
Begun == since <= now /\ (triggered => watcher = "sleep")

WatchInv == TypeOK /\ Begun /\ announced <= version /\ NoChangeLost /\ TimeAccounted

\* The division rounds down to a natural number.
LEMMA ShareInNat == ASSUME NEW t \in Nat PROVE Share(t) \in Nat
<1>1. Num \in Nat /\ Den \in Nat \ {0}
  BY WatchAssumption
<1>2. t * Num \in Nat
  BY <1>1
<1>. QED
  BY <1>1, <1>2 DEF Share

LEMMA InitWatchInv == Init => WatchInv
<1>. SUFFICES ASSUME Init PROVE WatchInv
  OBVIOUS
<1>1. TypeOK /\ Begun /\ NoChangeLost
  <2>1. RunTime \in Nat
    BY WatchAssumption
  <2>2. triggered = FALSE
    BY DEF Init
  <2>3. triggered \in BOOLEAN /\ (triggered => watcher = "sleep")
    BY <2>2
  <2>4. since <= now
    BY DEF Init
  <2>5. NoChangeLost
    BY DEF Init, NoChangeLost
  <2>6. TypeOK
    BY <2>1, <2>3 DEF Init, TypeOK
  <2>. QED
    BY <2>3, <2>4, <2>5, <2>6 DEF Begun
<1>2. TimeAccounted /\ announced <= version
  BY WatchAssumption DEF Init, TimeAccounted
<1>. QED
  BY <1>1, <1>2 DEF WatchInv

\* The folder changes, its watcher fails, or time passes.
LEMMA WorldKeepsWatchInv ==
  ASSUME WatchInv, Edit \/ WatchFails \/ Tick PROVE WatchInv'
<1>. USE DEF WatchInv, TypeOK, Begun, NoChangeLost, TimeAccounted,
             throttle, folder, Share
<1>1. CASE Edit
  <2>1. CASE EditInput
    <3>1. PICK k \in 1 .. MaxEvents : events' = events + k
      BY <2>1 DEF EditInput
    <3>. QED
      BY <1>1, <2>1, <3>1, WatchAssumption DEF Edit, EditInput
  <2>2. CASE EditElsewhere
    BY <1>1, <2>2 DEF Edit, EditElsewhere
  <2>. QED
    BY <1>1, <2>1, <2>2 DEF Edit
<1>2. CASE WatchFails
  BY <1>2 DEF WatchFails
<1>3. CASE Tick
  BY <1>3 DEF Tick
<1>. QED
  BY <1>1, <1>2, <1>3

\* The loop, with Compile the one step that reads the folder.
LEMMA LoopKeepsWatchInv ==
  ASSUME WatchInv, Loop PROVE WatchInv'
<1>. USE DEF WatchInv, TypeOK, Begun, NoChangeLost, TimeAccounted,
             throttle, folder, Share
<1>1. CASE Compile
  BY <1>1 DEF Compile
<1>2. CASE Connect
  BY <1>2 DEF Connect
<1>3. CASE SendPromise
  BY <1>3 DEF SendPromise
<1>4. CASE Trigger
  BY <1>4 DEF Trigger, CanTrigger
<1>5. CASE MainError
  BY <1>5 DEF MainError
<1>. QED
  BY <1>1, <1>2, <1>3, <1>4, <1>5 DEF Loop

\* The receiver leaves the Throttle on the way to a trigger.
LEMMA ReceiverKeepsWatchInv ==
  ASSUME WatchInv, Receiver PROVE WatchInv'
<1>. USE DEF WatchInv, TypeOK, Begun, NoChangeLost, TimeAccounted,
             folder
<1>1. CASE ReceiveEvent
  BY <1>1 DEF ReceiveEvent, AfterEvent, throttle, Share
<1>2. CASE ReceiveError
  BY <1>2 DEF ReceiveError, throttle, Share
<1>3. CASE Throttle
  <2>1. UNCHANGED <<main, version, announced, read, events, errors, now>>
    BY <1>3 DEF Throttle
  <2>2. CASE now < earliest
    BY <1>3, <2>1, <2>2 DEF Throttle, Share
  <2>3. CASE now >= earliest
    <3>1. Running \in Nat /\ Running + stopped = now
      BY <1>3, <2>3, WatchAssumption DEF Throttle, Running
    <3>2. running' = Running /\ stopped' = stopped
      BY <1>3, <2>3 DEF Throttle
    <3>3. Share(Running) \in Nat /\ Share(running') = Share(Running)
      BY <3>1, <3>2, ShareInNat DEF Share
    <3>4. CASE Share(Running) > stopped
      <4>1. /\ watcher' = "sleep" /\ triggered' = TRUE
            /\ since' = now /\ earliest' = earliest
        BY <1>3, <2>3, <3>3, <3>4 DEF Throttle
      <4>2. triggered' \in BOOLEAN /\ (triggered' => watcher' = "sleep")
        BY <4>1
      <4>3. (announced <= version)' /\ NoChangeLost'
        BY <2>1, <4>1
      <4>4. TypeOK'
        BY <2>1, <3>1, <3>2, <4>1, <4>2
      <4>5. TimeAccounted' /\ (since <= now)'
        BY <2>1, <3>1, <3>2, <4>1
      <4>. QED
        BY <4>2, <4>3, <4>4, <4>5
    <3>5. CASE Share(Running) <= stopped
      <4>1. /\ watcher' = "trigger" /\ triggered' = FALSE
            /\ since' = now /\ earliest' = now + RunTime
        BY <1>3, <2>3, <3>3, <3>5 DEF Throttle, Leave
      <4>2. triggered' \in BOOLEAN /\ (triggered' => watcher' = "sleep")
        BY <4>1
      <4>3. (announced <= version)' /\ NoChangeLost'
        BY <2>1, <3>2, <3>3, <3>5, <4>1
      <4>4. TypeOK'
        BY <2>1, <3>1, <3>2, <4>1, <4>2, WatchAssumption
      <4>5. TimeAccounted' /\ (since <= now)'
        BY <2>1, <3>1, <3>2, <4>1, WatchAssumption
      <4>. QED
        BY <4>2, <4>3, <4>4, <4>5
    <3>. QED
      BY <3>3, <3>4, <3>5
  <2>. QED
    BY <2>2, <2>3
<1>4. CASE Wake
  <2>1. /\ watcher = "sleep" /\ now >= since + Due
        /\ stopped' = stopped + now - since
        /\ watcher' = "trigger" /\ triggered' = FALSE
        /\ earliest' = now + RunTime /\ since' = since
        /\ running' = running
        /\ UNCHANGED <<main, version, announced, read, events, errors, now>>
    BY <1>4 DEF Wake, Stopped, Leave
  <2>2. Share(running) \in Nat /\ Share(running') = Share(running)
    BY <2>1, ShareInNat DEF Share
  <2>3. (announced <= version)'
    BY <2>1
  <2>4. triggered' \in BOOLEAN /\ (triggered' => watcher' = "sleep")
    BY <2>1
  <2>5. TypeOK'
    BY <2>1, <2>4, WatchAssumption
  <2>6. NoChangeLost' /\ TimeAccounted' /\ (since <= now)'
    BY <2>1, WatchAssumption
  <2>. QED
    BY <2>3, <2>4, <2>5, <2>6
<1>. QED
  BY <1>1, <1>2, <1>3, <1>4 DEF Receiver

\* Every step keeps the invariant.
LEMMA StepWatchInv == ASSUME WatchInv, [Next]_vars PROVE WatchInv'
<1>1. CASE Next
  BY <1>1, WorldKeepsWatchInv, ReceiverKeepsWatchInv, LoopKeepsWatchInv
     DEF Next
<1>2. CASE UNCHANGED vars
  BY <1>2 DEF vars, folder, throttle, WatchInv, TypeOK, Begun, NoChangeLost,
              TimeAccounted, Share
<1>. QED
  BY <1>1, <1>2

\* The invariant that the theorems below take their properties from.
LEMMA AlwaysWatchInv == Spec => []WatchInv
<1>1. WatchInv /\ [Next]_vars => WatchInv'
  BY StepWatchInv
<1>. QED
  BY InitWatchInv, <1>1, PTL DEF Spec

\* client_watch.go: whatever the watcher reports, the state of the loop, the
\* receiver and the Throttle is well typed.
THEOREM WatchTypeCorrect == Spec => []TypeOK
  BY AlwaysWatchInv, PTL DEF WatchInv

\* client_watch.go: a change of the watched folder that the last compilation may
\* have missed is always on its way to the next one, with however many changes
\* that give no event in between.
THEOREM ChangesAreOnTheirWay == Spec => []NoChangeLost
  BY AlwaysWatchInv, PTL DEF WatchInv

\* throttle.go: all time is accounted once, as running or as sleeping.
THEOREM TimeIsAccounted == Spec => []TimeAccounted
  BY AlwaysWatchInv, PTL DEF WatchInv
=============================================================================
