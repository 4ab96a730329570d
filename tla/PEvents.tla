------------------------------- MODULE PEvents -------------------------------
(***************************************************************************)
(* The events of pevents (src/pevents/pevents.cpp, POSIX half): Win32      *)
(* events made of a mutex, a condition variable and a flag, and            *)
(* WaitForMultipleEvents with a wfmo object that is shared by the waiter   *)
(* and all events it registers with, and counted.  A step is what a thread *)
(* does between two points where it may block or others may look: a mutex  *)
(* that is released without waiting for another one is a single step.      *)
(***************************************************************************)
EXTENDS Integers, Sequences, FiniteSets, Functions

CONSTANTS
  Threads,
  Events,
  AutoReset, \* the auto-reset events
  Wfmos,     \* storage for wfmo objects
  Calls,     \* the calls each thread makes, over and over, see Call
  NULL

Timeouts == {"zero", "finite", "infinite"}
Call ==
  [fn : {"WaitForEvent"}, event : Events, milliseconds : Timeouts]
    \cup [fn : {"SetEvent", "PulseEvent", "ResetEvent", "DestroyEvent"}, event : Events]
    \cup [fn : {"WaitForMultipleEvents"}, events : Seq(Events), waitAll : BOOLEAN,
          milliseconds : Timeouts]

ASSUME EventsAssumption ==
  /\ AutoReset \subseteq Events
  /\ Events \cap Wfmos = {} /\ NULL \notin Threads \cup Wfmos
  /\ \A t \in Threads : Calls[t] \subseteq Call

VARIABLES
  State,            \* of the events
  RegisteredWaits,  \* of the events: a sequence of [Waiter, WaitIndex]
  wfmo,             \* the wfmo objects, see Wfmo; RefCount 0: freed
  Mutex,            \* who holds the mutex of each event and each wfmo
  asleep,           \* who waits for the condition variable of each
  pc, call,         \* what every thread is doing, in which call
  i,                \* its loop variable
  skipped_refs,
  mine,             \* the wfmo object of its WaitForMultipleEvents
  timedOut          \* result = WAIT_TIMEOUT

vars == <<State, RegisteredWaits, wfmo, Mutex, asleep, pc, call, i, skipped_refs, mine, timedOut>>
threadVars == <<call, i, skipped_refs, mine, timedOut>>

(* Status is the union of FiredEvent, the index of the event that ended a  *)
(* wait for any of them or -1, and EventsLeft, how many of all are missing.*)
Wfmo == [WaitAll : BOOLEAN, Status : Nat \cup {-1}, StillWaiting : BOOLEAN,
         RefCount : Nat]

Pc == {"idle", "wait.lock", "wait.sleep", "wait.timedout",
       "set.lock", "set.next", "set.waiter", "set.release", "set.signal", "pulse.reset",
       "multi.register", "multi.sleep", "multi.timedout", "multi.done", "multi.unref"}

Init ==
  /\ State = [e \in Events |-> FALSE]
  /\ RegisteredWaits = [e \in Events |-> <<>>]
  /\ wfmo = [w \in Wfmos |-> [WaitAll |-> FALSE, Status |-> -1, StillWaiting |-> FALSE, RefCount |-> 0]]
  /\ Mutex = [m \in Events \cup Wfmos |-> NULL]
  /\ asleep = [m \in Events \cup Wfmos |-> {}]
  /\ pc = [t \in Threads |-> "idle"]
  /\ call = [t \in Threads |-> NULL]
  /\ i = [t \in Threads |-> 0]
  /\ skipped_refs = [t \in Threads |-> 0]
  /\ mine = [t \in Threads |-> NULL]
  /\ timedOut = [t \in Threads |-> FALSE]

-----------------------------------------------------------------------------
At(t, place) == pc[t] = place
Goto(t, place) == pc' = [pc EXCEPT ![t] = place]
(* On with the call, or the end of it and of its locals.                   *)
Stay(t, place) == Goto(t, place) /\ UNCHANGED <<call, i>>
Return(t) ==
  /\ Goto(t, "idle")
  /\ call' = [call EXCEPT ![t] = NULL]
  /\ i' = [i EXCEPT ![t] = 0]
Ev(t) == call[t].event
(* Mutant: a wait for all registers with the last of its events first.     *)
CurrentEvent_Backwards(t) ==
  call[t].events[IF call[t].waitAll THEN Len(call[t].events) - i[t] ELSE i[t] + 1]
CurrentEvent(t) == call[t].events[i[t] + 1]
Count(t) == Len(call[t].events)
IsFree(m) == Mutex[m] = NULL
Locked(m, t) == [Mutex EXCEPT ![m] = t]
Unlocked(m) == [Mutex EXCEPT ![m] = NULL]

(* A thread whose turn it is to take up the mutex again after a wait.      *)
Woken(t, m) == t \notin asleep[m]

(* pthread_cond_signal wakes one of those that wait, if there is one.      *)
Signal(m) ==
  IF asleep[m] = {} THEN UNCHANGED asleep
  ELSE \E t \in asleep[m] : asleep' = [asleep EXCEPT ![m] = @ \ {t}]

(* Mutant: only the waits registered with a manual-reset event are woken.  *)
Broadcast_Registered(e) == UNCHANGED asleep
Broadcast(e) == asleep' = [asleep EXCEPT ![e] = {}]

(* UnlockedWaitForEvent when the flag is set.                              *)
Obtained(e) == [State EXCEPT ![e] = e \notin AutoReset]

Unref(objects, w, n) == [objects EXCEPT ![w].RefCount = @ - n]

-----------------------------------------------------------------------------
(* WaitForEvent.  The calls it answers before it locks leave all as it is. *)
AnsweredAtOnce(c) ==
  \/ c.milliseconds = "zero" /\ ~State[c.event]
  \/ c.event \notin AutoReset /\ State[c.event]

(* UnlockedWaitForEvent: first, and again when it is woken.                *)
WaitLock(t) ==
  /\ At(t, "wait.lock") \/ (At(t, "wait.sleep") /\ Woken(t, Ev(t)))
  /\ IsFree(Ev(t))
  /\ IF State[Ev(t)]
     THEN State' = Obtained(Ev(t)) /\ Return(t) /\ UNCHANGED asleep
     ELSE /\ UNCHANGED State
          /\ IF call[t].milliseconds = "zero"
             THEN Return(t) /\ UNCHANGED asleep
             ELSE /\ Stay(t, "wait.sleep")
                  /\ asleep' = [asleep EXCEPT ![Ev(t)] = @ \cup {t}]
  /\ UNCHANGED <<RegisteredWaits, wfmo, Mutex, skipped_refs, mine, timedOut>>

(* pthread_cond_timedwait gives up, and later has the mutex again: the flag*)
(* may be set by then but is left alone.                                   *)
WaitTimeout(t) ==
  /\ At(t, "wait.sleep") /\ ~Woken(t, Ev(t)) /\ call[t].milliseconds = "finite"
  /\ asleep' = [asleep EXCEPT ![Ev(t)] = @ \ {t}]
  /\ Goto(t, "wait.timedout")
  /\ UNCHANGED <<State, RegisteredWaits, wfmo, Mutex, threadVars>>

WaitTimedOut(t) ==
  /\ At(t, "wait.timedout") /\ IsFree(Ev(t))
  /\ Return(t)
  /\ UNCHANGED <<State, RegisteredWaits, wfmo, Mutex, asleep, skipped_refs, mine, timedOut>>

-----------------------------------------------------------------------------
(* SetEvent.                                                               *)
SetLock(t) ==
  /\ At(t, "set.lock") /\ IsFree(Ev(t))
  /\ Mutex' = Locked(Ev(t), t)
  /\ State' = [State EXCEPT ![Ev(t)] = @ \/ Ev(t) \notin AutoReset]
  /\ i' = [i EXCEPT ![t] = 0]
  /\ Goto(t, "set.next")
  /\ UNCHANGED <<RegisteredWaits, wfmo, asleep, call, skipped_refs, mine, timedOut>>

(* The registration it has come to: an auto-reset event takes them from the*)
(* front of the queue, a manual-reset event goes through it by index.      *)
Waits(t) == RegisteredWaits[Ev(t)]
Registration(t) == Waits(t)[i[t] + 1]
Waiter(t) == Registration(t).Waiter
Pass(t) ==
  IF Ev(t) \in AutoReset
  THEN RegisteredWaits' = [RegisteredWaits EXCEPT ![Ev(t)] = Tail(@)] /\ UNCHANGED i
  ELSE i' = [i EXCEPT ![t] = @ + 1] /\ UNCHANGED RegisteredWaits

(* Mutant: the registrations that have been served are kept.               *)
Cleared_Not(t) == Waits(t)
Cleared(t) == <<>>

(* A waiter that waits no longer loses a reference; no mutex is needed to  *)
(* see that.  After the last registration the event itself is set (a       *)
(* manual-reset event is set already), unlocked, and then signalled.       *)
SetNext(t) ==
  /\ At(t, "set.next")
  /\ IF i[t] = Len(Waits(t))
     THEN /\ State' = [State EXCEPT ![Ev(t)] = @ \/ Ev(t) \in AutoReset]
          /\ RegisteredWaits' = [RegisteredWaits EXCEPT ![Ev(t)] = Cleared(t)]
          /\ Mutex' = Unlocked(Ev(t))
          /\ Goto(t, "set.signal")
          /\ UNCHANGED <<wfmo, i>>
     ELSE /\ IF wfmo[Waiter(t)].StillWaiting
             THEN Goto(t, "set.waiter") /\ UNCHANGED <<wfmo, RegisteredWaits, i>>
             ELSE wfmo' = Unref(wfmo, Waiter(t), 1) /\ Pass(t) /\ UNCHANGED pc
          /\ UNCHANGED <<State, Mutex>>
  /\ UNCHANGED <<asleep, call, skipped_refs, mine, timedOut>>

(* Mutant: an auto-reset event does not look again.                        *)
EndedMeanwhile_Not(t) == FALSE
(* Another event may have ended the wait before the mutex was free; a      *)
(* manual-reset event pretends it has not.                                 *)
EndedMeanwhile(t) == Ev(t) \in AutoReset /\ ~wfmo[Waiter(t)].StillWaiting

(* Mutant: a wait for all does not count down.                             *)
Given_NoCountdown(objects, w, index) ==
  IF objects[w].WaitAll THEN objects ELSE [objects EXCEPT ![w].Status = index]
(* Status after an event: one less is left, or it is the one that fired.   *)
Given(objects, w, index) ==
  [objects EXCEPT ![w].Status = IF objects[w].WaitAll THEN @ - 1 ELSE index]
Fire(w, index) ==
  [Given(wfmo, w, index) EXCEPT ![w].StillWaiting = @ /\ wfmo[w].WaitAll]

SetWaiter(t) ==
  /\ At(t, "set.waiter") /\ IsFree(Waiter(t))
  /\ IF EndedMeanwhile(t)
     THEN wfmo' = Unref(wfmo, Waiter(t), 1) /\ Pass(t) /\ Goto(t, "set.next")
     ELSE /\ wfmo' = Fire(Waiter(t), Registration(t).WaitIndex)
          /\ Goto(t, "set.release")
          /\ UNCHANGED <<RegisteredWaits, i>>
  /\ UNCHANGED <<State, Mutex, asleep, call, skipped_refs, mine, timedOut>>

AfterSet(t) == IF call[t].fn = "PulseEvent" THEN Stay(t, "pulse.reset") ELSE Return(t)

(* The waiter is signalled, its reference given back; an auto-reset event  *)
(* is then done, without having been set.                                  *)
SetRelease(t) ==
  /\ At(t, "set.release")
  /\ Signal(Waiter(t))
  /\ wfmo' = Unref(wfmo, Waiter(t), 1)
  /\ IF Ev(t) \in AutoReset
     THEN /\ RegisteredWaits' = [RegisteredWaits EXCEPT ![Ev(t)] = Tail(@)]
          /\ Mutex' = Unlocked(Ev(t))
          /\ AfterSet(t)
     ELSE Pass(t) /\ Goto(t, "set.next") /\ UNCHANGED <<Mutex, call>>
  /\ UNCHANGED <<State, skipped_refs, mine, timedOut>>

(* After the unlock.                                                       *)
SetSignal(t) ==
  /\ At(t, "set.signal")
  /\ IF Ev(t) \in AutoReset THEN Signal(Ev(t)) ELSE Broadcast(Ev(t))
  /\ AfterSet(t)
  /\ UNCHANGED <<State, RegisteredWaits, wfmo, Mutex, skipped_refs, mine, timedOut>>

(* PulseEvent ends with a ResetEvent.                                      *)
PulseReset(t) ==
  /\ At(t, "pulse.reset")
  /\ State' = [State EXCEPT ![Ev(t)] = FALSE]
  /\ Return(t)
  /\ UNCHANGED <<RegisteredWaits, wfmo, Mutex, asleep, skipped_refs, mine, timedOut>>

-----------------------------------------------------------------------------
(* WaitForMultipleEvents.                                                  *)
NewWfmo(c) ==
  [WaitAll |-> c.waitAll, Status |-> IF c.waitAll THEN Len(c.events) ELSE -1,
   StillWaiting |-> TRUE, RefCount |-> 1 + Len(c.events)]

(* RemoveExpiredWaitHelper for all registrations of an event.              *)
Waiting(r) == wfmo[r.Waiter].StillWaiting
(* Those that are left are moved together, in their order.                 *)
Kept(e) == {k \in DOMAIN RegisteredWaits[e] : Waiting(RegisteredWaits[e][k])}
Remaining(e) ==
  [n \in 1 .. Cardinality(Kept(e)) |->
     RegisteredWaits[e][CHOOSE k \in Kept(e) : Cardinality(Kept(e) \cap 1 .. k) = n]]
Expired(e, w) == {k \in DOMAIN RegisteredWaits[e] :
                    RegisteredWaits[e][k].Waiter = w /\ ~Waiting(RegisteredWaits[e][k])}
Cleaned(e) == [w \in Wfmos |-> [wfmo[w] EXCEPT !.RefCount = @ - Cardinality(Expired(e, w))]]

(* Mutant: one reference too few is given back.                            *)
NotRegistered_OneLess(t) == Count(t) - i[t] - 1
(* The references of the event that is set already and of those after it.  *)
NotRegistered(t) == Count(t) - i[t]

(* The next event: if it is set already, an auto-reset event is taken from *)
(* others at once, even by a wait for all; otherwise the wait is added to  *)
(* its registrations.  A manual-reset event seen set needs no mutex.       *)
MultiRegister(t) ==
  /\ At(t, "multi.register") /\ i[t] < Count(t)
  /\ LET e == CurrentEvent(t)
         w == mine[t]
     IN  \E skipLock \in {FALSE, e \notin AutoReset /\ State[e]} :
           LET objects == IF skipLock THEN wfmo ELSE Cleaned(e)
               waits == IF skipLock THEN RegisteredWaits[e] ELSE Remaining(e)
           IN  /\ skipLock \/ IsFree(e)
               /\ IF State[e]
                  THEN /\ State' = Obtained(e)
                       /\ RegisteredWaits' = [RegisteredWaits EXCEPT ![e] = waits]
                       /\ wfmo' = Given(objects, w, i[t])
                       /\ IF call[t].waitAll
                          THEN /\ skipped_refs' = [skipped_refs EXCEPT ![t] = @ + 1]
                               /\ i' = [i EXCEPT ![t] = @ + 1]
                               /\ UNCHANGED pc
                          ELSE /\ skipped_refs' = [skipped_refs EXCEPT ![t] = @ + NotRegistered(t)]
                               /\ Goto(t, "multi.done")
                               /\ UNCHANGED i
                  ELSE /\ RegisteredWaits' = [RegisteredWaits EXCEPT ![e] =
                                                Append(waits, [Waiter |-> w, WaitIndex |-> i[t]])]
                       /\ wfmo' = objects
                       /\ i' = [i EXCEPT ![t] = @ + 1]
                       /\ UNCHANGED <<State, skipped_refs, pc>>
  /\ UNCHANGED <<Mutex, asleep, call, mine, timedOut>>

(* After the last event, and again whenever it is woken and has its mutex. *)
Ended(w) == IF wfmo[w].WaitAll THEN wfmo[w].Status = 0 ELSE wfmo[w].Status # -1
MultiWait(t) ==
  /\ \/ At(t, "multi.register") /\ i[t] = Count(t)
     \/ At(t, "multi.sleep") /\ Woken(t, mine[t]) /\ IsFree(mine[t])
  /\ IF Ended(mine[t]) \/ call[t].milliseconds = "zero"
     THEN /\ Mutex' = Locked(mine[t], t)
          /\ timedOut' = [timedOut EXCEPT ![t] = ~Ended(mine[t])]
          /\ Goto(t, "multi.done")
          /\ UNCHANGED asleep
     ELSE /\ Mutex' = Unlocked(mine[t])
          /\ asleep' = [asleep EXCEPT ![mine[t]] = @ \cup {t}]
          /\ Goto(t, "multi.sleep")
          /\ UNCHANGED timedOut
  /\ UNCHANGED <<State, RegisteredWaits, wfmo, call, i, skipped_refs, mine>>

(* The wait times out, and says so even if events come before it has its   *)
(* mutex again.                                                            *)
MultiTimeout(t) ==
  /\ At(t, "multi.sleep") /\ ~Woken(t, mine[t]) /\ call[t].milliseconds = "finite"
  /\ asleep' = [asleep EXCEPT ![mine[t]] = @ \ {t}]
  /\ Goto(t, "multi.timedout")
  /\ UNCHANGED <<State, RegisteredWaits, wfmo, Mutex, threadVars>>

MultiTimedOut(t) ==
  /\ At(t, "multi.timedout") /\ IsFree(mine[t])
  /\ Mutex' = Locked(mine[t], t)
  /\ timedOut' = [timedOut EXCEPT ![t] = TRUE]
  /\ Goto(t, "multi.done")
  /\ UNCHANGED <<State, RegisteredWaits, wfmo, asleep, call, i, skipped_refs, mine>>

(* The wait is over, the mutex released, the references given back.        *)
MultiDone(t) ==
  /\ At(t, "multi.done")
  /\ wfmo' = [wfmo EXCEPT ![mine[t]].StillWaiting = FALSE]
  /\ Mutex' = Unlocked(mine[t])
  /\ Goto(t, "multi.unref")
  /\ UNCHANGED <<State, RegisteredWaits, asleep, threadVars>>

MultiUnref(t) ==
  /\ At(t, "multi.unref")
  /\ wfmo' = Unref(wfmo, mine[t], 1 + skipped_refs[t])
  /\ mine' = [mine EXCEPT ![t] = NULL]
  /\ skipped_refs' = [skipped_refs EXCEPT ![t] = 0]
  /\ timedOut' = [timedOut EXCEPT ![t] = FALSE]
  /\ Return(t)
  /\ UNCHANGED <<State, RegisteredWaits, Mutex, asleep>>

-----------------------------------------------------------------------------
(* The calls begin.                                                        *)
Began(t, c, place) ==
  /\ At(t, "idle")
  /\ call' = [call EXCEPT ![t] = c]
  /\ i' = [i EXCEPT ![t] = 0]
  /\ Goto(t, place)

CallWait(t, c) ==
  /\ c.fn = "WaitForEvent" /\ ~AnsweredAtOnce(c)
  /\ Began(t, c, "wait.lock")
  /\ UNCHANGED <<State, RegisteredWaits, wfmo, Mutex, asleep, skipped_refs, mine, timedOut>>

CallSet(t, c) ==
  /\ c.fn \in {"SetEvent", "PulseEvent"}
  /\ Began(t, c, "set.lock")
  /\ UNCHANGED <<State, RegisteredWaits, wfmo, Mutex, asleep, skipped_refs, mine, timedOut>>

(* Without the mutex.                                                      *)
ResetEvent(t, c) ==
  /\ c.fn = "ResetEvent" /\ At(t, "idle")
  /\ State' = [State EXCEPT ![c.event] = FALSE]
  /\ UNCHANGED <<RegisteredWaits, wfmo, Mutex, asleep, pc, threadVars>>

(* wfmo is new, its mutex locked.                                          *)
CallMulti(t, c) ==
  /\ c.fn = "WaitForMultipleEvents"
  /\ \E w \in Wfmos :
       /\ wfmo[w].RefCount = 0
       /\ wfmo' = [wfmo EXCEPT ![w] = NewWfmo(c)]
       /\ Mutex' = Locked(w, t)
       /\ mine' = [mine EXCEPT ![t] = w]
  /\ Began(t, c, "multi.register")
  /\ UNCHANGED <<State, RegisteredWaits, asleep, skipped_refs, timedOut>>

(* Its caller sees to it that nobody uses the event any more; CreateEvent  *)
(* makes another in its place.                                             *)
Uses(t, e) ==
  /\ pc[t] # "idle"
  /\ e \in IF call[t].fn = "WaitForMultipleEvents" THEN Range(call[t].events) ELSE {Ev(t)}
DestroyEvent(t, c) ==
  /\ c.fn = "DestroyEvent" /\ At(t, "idle")
  /\ \A u \in Threads : ~Uses(u, c.event)
  /\ wfmo' = Cleaned(c.event)
  /\ RegisteredWaits' = [RegisteredWaits EXCEPT ![c.event] = <<>>]
  /\ State' = [State EXCEPT ![c.event] = FALSE]
  /\ UNCHANGED <<Mutex, asleep, pc, threadVars>>

Step(t) ==
  \/ WaitLock(t) \/ WaitTimeout(t) \/ WaitTimedOut(t)
  \/ SetLock(t) \/ SetNext(t) \/ SetWaiter(t) \/ SetRelease(t) \/ SetSignal(t) \/ PulseReset(t)
  \/ MultiRegister(t) \/ MultiWait(t) \/ MultiTimeout(t) \/ MultiTimedOut(t)
  \/ MultiDone(t) \/ MultiUnref(t)
Begin(t) ==
  \E c \in Calls[t] :
    CallWait(t, c) \/ CallSet(t, c) \/ ResetEvent(t, c) \/ CallMulti(t, c) \/ DestroyEvent(t, c)
Next == \E t \in Threads : Step(t) \/ Begin(t)

Spec == Init /\ [][Next]_vars

-----------------------------------------------------------------------------
(* The variables have their types.                                         *)
TypeOK ==
  /\ State \in [Events -> BOOLEAN]
  /\ \A e \in Events : \A r \in Range(RegisteredWaits[e]) : r \in [Waiter : Wfmos, WaitIndex : Nat]
  /\ wfmo \in [Wfmos -> Wfmo]
  /\ Mutex \in [Events \cup Wfmos -> Threads \cup {NULL}]
  /\ asleep \in [Events \cup Wfmos -> SUBSET Threads]
  /\ pc \in [Threads -> Pc]
  /\ \A t \in Threads : call[t] \in Calls[t] \cup {NULL}
  /\ i \in [Threads -> Nat] /\ skipped_refs \in [Threads -> Nat]
  /\ mine \in [Threads -> Wfmos \cup {NULL}]
  /\ timedOut \in [Threads -> BOOLEAN]

Setting(t, e) == pc[t] \in {"set.next", "set.waiter", "set.release"} /\ Ev(t) = e
(* The registrations of w that still hold a reference: those a SetEvent has*)
(* passed in a manual-reset event are not removed until it is through.     *)
Held(w) ==
  UNION {{e} \X {k \in DOMAIN RegisteredWaits[e] :
                   /\ RegisteredWaits[e][k].Waiter = w
                   /\ \A t \in Threads : Setting(t, e) => i[t] < k} : e \in Events}
Unvisited(t) == IF pc[t] = "multi.register" THEN Count(t) - i[t] ELSE 0
OwnersOf(w) == {t \in Threads : mine[t] = w}

(* A wfmo object has a reference for each registration, and its caller's   *)
(* with those of the events the caller has not registered with: it is      *)
(* freed exactly when nothing leads to it any more, whatever event, thread *)
(* or timeout lets go of it last.                                          *)
RefsBalanced ==
  \A w \in Wfmos :
    \/ OwnersOf(w) = {} /\ wfmo[w].RefCount = Cardinality(Held(w))
    \/ \E t \in Threads :
         /\ OwnersOf(w) = {t}
         /\ wfmo[w].RefCount = Cardinality(Held(w)) + 1 + skipped_refs[t] + Unvisited(t)

(* A wait for all of its events that still waits has exactly the events    *)
(* left that it is registered with or has not come to: none is counted     *)
(* twice, and it cannot return early or wait for an event it was given.    *)
BeingSignalled(w) == {t \in Threads : pc[t] = "set.release" /\ Waiter(t) = w}
LeftCounted ==
  \A t \in Threads :
    LET w == mine[t] IN
    w # NULL /\ wfmo[w].WaitAll /\ wfmo[w].StillWaiting /\ pc[t] # "multi.done" =>
      wfmo[w].Status = Cardinality(Held(w)) - Cardinality(BeingSignalled(w)) + Unvisited(t)

(* An auto-reset event that ends a wait for any of several, or is taken by *)
(* it while it registers, is what the wait returns, and another auto-reset *)
(* event is never handed to a wait that is over: it would be lost.  Two    *)
(* exceptions are the code's.  A manual-reset event that found the wait    *)
(* waiting writes its own index over the one that is there (OverwrittenBy).*)
(* A wait with a finite timeout that has given up before it has its mutex  *)
(* again says that it timed out, and the event it was handed is lost.      *)
ForAny(w) == wfmo[w].RefCount > 0 /\ ~wfmo[w].WaitAll
Over(w) == Ended(w) \/ ~wfmo[w].StillWaiting
OverwrittenBy(t, w) ==
  /\ At(t, "set.waiter") /\ Waiter(t) = w /\ Ev(t) \notin AutoReset
  /\ wfmo'[w].Status = Registration(t).WaitIndex
HandedOnce ==
  [][/\ \A w \in Wfmos : ForAny(w) /\ Over(w) /\ wfmo'[w].RefCount > 0 =>
          wfmo'[w].Status = wfmo[w].Status \/ \E t \in Threads : OverwrittenBy(t, w)
     /\ \A t \in Threads : MultiDone(t) /\ ~wfmo[mine[t]].WaitAll /\ timedOut[t] =>
          wfmo[mine[t]].Status = -1 \/ call[t].milliseconds = "finite"]_vars

(* Nobody sleeps through an event that is set, unless somebody is about to *)
(* take it or to signal it; an auto-reset event is not set while waits are *)
(* registered with it, and a wait for several events that has got them     *)
(* does not sleep unless it is being signalled.                            *)
NoLostWakeup ==
  /\ \A e \in Events : State[e] /\ asleep[e] # {} =>
       \E t \in Threads :
         \/ pc[t] \in {"set.next", "set.waiter", "set.release", "set.signal"} /\ Ev(t) = e
         \/ e \in AutoReset /\ At(t, "wait.sleep") /\ Ev(t) = e /\ Woken(t, e)
  /\ \A e \in AutoReset : State[e] => RegisteredWaits[e] = <<>>
  /\ \A w \in Wfmos : asleep[w] # {} /\ Ended(w) => BeingSignalled(w) # {}

(* No threads wait for each other's mutexes in a circle: SetEvent locks an *)
(* event and then the waits registered with it, WaitForMultipleEvents locks*)
(* its wait and then the events.                                           *)
Wants(t) ==
  CASE pc[t] \in {"wait.lock", "wait.timedout", "set.lock"} -> {Ev(t)}
    [] At(t, "set.waiter") -> {Waiter(t)}
    [] At(t, "multi.register") /\ i[t] < Count(t) -> {CurrentEvent(t)}
    [] At(t, "multi.timedout") -> {mine[t]}
    [] OTHER -> {}
WaitsForOneOf(t, S) == \E m \in Wants(t) : Mutex[m] \in S
NoCircularWait ==
  \A S \in (SUBSET Threads) \ {{}} : \E t \in S : ~WaitsForOneOf(t, S)
=============================================================================
