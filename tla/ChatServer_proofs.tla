--------------------------- MODULE ChatServer_proofs ---------------------------
(***************************************************************************)
(* One inference at a time, and a history that holds only the conversation *)
(* on the screen, for any number of tabs and of handler threads.           *)
(*                                                                         *)
(* The argument has two halves that never meet.  On the server the lock is *)
(* exactly the region of do_POST() between its acquisition and the finally *)
(* clause, whatever raises in between.  On the page a pending fetch is     *)
(* exactly one thread that still answers to the tab, and what that thread  *)
(* will append is the tab's present conversation unless it was cleared     *)
(* meanwhile.                                                              *)
(***************************************************************************)
EXTENDS ChatServer, FiniteSetTheorems, TLAPS

\* The stages of do_POST() between the acquisition of the lock and its release.
Holding == {"spawn", "run", "release", "raise"}

TypeOK ==
  /\ history \in [Tabs -> Seq(Nat)]
  /\ busy \in [Tabs -> BOOLEAN] /\ clearedBusy \in [Tabs -> BOOLEAN]
  /\ clears \in [Tabs -> Nat] /\ asking \in [Tabs -> Nat]
  /\ stage \in [Threads -> {"free", "invalid", "parse", "reply", "dead"} \cup Holding]
  /\ client \in [Threads -> Tabs \cup {NoTab}]
  /\ result \in [Threads -> {"none", "ok", "error", "timeout", "timeout_silent"}]
  /\ lock \in Threads \cup {NoThread}
  /\ child \in [Threads -> BOOLEAN]

\* The thread that holds the lock is the one between acquisition and release.
LockIsRegion == \A h \in Threads : lock = h <=> stage[h] \in Holding

\* A ggnpu process lives only while subprocess.run() waits for it.
ChildIsWatched == \A h \in Threads : child[h] => stage[h] = "run"

\* A tab is busy exactly while one thread answers to it; an idle thread
\* answers to none.
OneAnswer ==
  /\ \A h \in Threads : stage[h] = "free" => client[h] = NoTab
  /\ \A h \in Threads : client[h] # NoTab => busy[client[h]]
  /\ \A t \in Tabs : busy[t] => \E h \in Threads : client[h] = t
  /\ \A g, h \in Threads : client[g] = client[h] /\ client[h] # NoTab => g = h

\* Unless the tab was cleared while it waited, its turns and the turn it
\* waits for belong to the conversation on the screen.
TurnsAreCurrent ==
  \A t \in Tabs : ~clearedBusy[t] =>
    /\ busy[t] => asking[t] = clears[t]
    /\ \A i \in 1 .. Len(history[t]) : history[t][i] = clears[t]

IInv == TypeOK /\ LockIsRegion /\ ChildIsWatched /\ OneAnswer /\ TurnsAreCurrent

LEMMA InitIInv == Init => IInv
<1> SUFFICES ASSUME Init PROVE IInv
  OBVIOUS
<1> USE ChatServerAssumption DEF Init
<1>1. TypeOK
  BY DEF TypeOK
<1>2. LockIsRegion
  BY DEF LockIsRegion, Holding
<1>3. ChildIsWatched
  BY DEF ChildIsWatched
<1>4. OneAnswer
  BY DEF OneAnswer
<1>5. TurnsAreCurrent
  BY DEF TurnsAreCurrent
<1> QED
  BY <1>1, <1>2, <1>3, <1>4, <1>5 DEF IInv

-----------------------------------------------------------------------------
(* A request ends in five actions; what they share is proved once.          *)

\* What an end of a request with no lock held leaves: the tab that waited is
\* answered, and gains a turn only if the reply was good.
LEMMA FinishStep ==
  ASSUME IInv, NEW h \in Threads, NEW ok \in BOOLEAN, stage[h] \notin Holding,
         Finish(h, ok), UNCHANGED <<lock, child>>
  PROVE  IInv'
<1> USE DEF IInv
<1> DEFINE c == client[h]
<1>0. c \in Tabs \cup {NoTab} /\ NoTab \notin Tabs
  BY ChatServerAssumption DEF TypeOK
<1>1. /\ stage' = [stage EXCEPT ![h] = "free"]
      /\ client' = [client EXCEPT ![h] = NoTab]
      /\ result' = [result EXCEPT ![h] = "none"]
      /\ Receive(c, ok)
  BY DEF Finish
<1>2. CASE c = NoTab
  <2>1. UNCHANGED tabVars
    BY <1>1, <1>2 DEF Receive
  <2>2. TypeOK'
    BY <1>1, <2>1 DEF TypeOK, tabVars
  <2>3. LockIsRegion' /\ ChildIsWatched'
    BY <1>1 DEF TypeOK, LockIsRegion, ChildIsWatched, Holding
  <2>4. OneAnswer'
    BY <1>1, <1>2, <2>1 DEF TypeOK, OneAnswer, tabVars
  <2>5. TurnsAreCurrent'
    BY <2>1 DEF TurnsAreCurrent, tabVars
  <2> QED
    BY <2>2, <2>3, <2>4, <2>5
<1>3. CASE c \in Tabs
  <2>1. /\ busy' = [busy EXCEPT ![c] = FALSE]
        /\ history' = IF ok THEN [history EXCEPT ![c] = Append(@, asking[c])] ELSE history
        /\ UNCHANGED <<clears, asking, clearedBusy>>
    BY <1>0, <1>1, <1>3 DEF Receive
  <2>2. history' \in [Tabs -> Seq(Nat)]
    BY <1>3, <2>1 DEF TypeOK
  <2>3. TypeOK'
    BY <1>1, <2>1, <2>2 DEF TypeOK
  <2>4. LockIsRegion' /\ ChildIsWatched'
    BY <1>1 DEF TypeOK, LockIsRegion, ChildIsWatched, Holding
  <2>5. OneAnswer'
    BY <1>0, <1>1, <1>3, <2>1 DEF TypeOK, OneAnswer
  <2>6. TurnsAreCurrent'
    <3> SUFFICES ASSUME NEW t \in Tabs, ~clearedBusy'[t]
                 PROVE  /\ busy'[t] => asking'[t] = clears'[t]
                        /\ \A i \in 1 .. Len(history'[t]) : history'[t][i] = clears'[t]
      BY DEF TurnsAreCurrent
    <3>1. ~clearedBusy[t] /\ asking'[t] = asking[t] /\ clears'[t] = clears[t]
      BY <2>1
    <3>2. busy'[t] => asking'[t] = clears'[t]
      BY <2>1, <3>1 DEF TypeOK, TurnsAreCurrent
    <3>3. CASE ~ok \/ t # c
      BY <2>1, <3>1, <3>2, <3>3 DEF TypeOK, TurnsAreCurrent
    <3>4. CASE ok /\ t = c
      <4>1. busy[t] /\ asking[t] = clears[t]
        BY <1>0, <1>3, <3>1, <3>4 DEF OneAnswer, TurnsAreCurrent
      <4>2. history'[t] = Append(history[t], clears[t]) /\ history[t] \in Seq(Nat)
        BY <2>1, <3>4, <4>1 DEF TypeOK
      <4>3. \A i \in 1 .. Len(history[t]) : history[t][i] = clears[t]
        BY <3>1 DEF TurnsAreCurrent
      <4>4. \A i \in 1 .. Len(history'[t]) : history'[t][i] = clears[t]
        BY <4>2, <4>3
      <4> QED
        BY <3>1, <3>2, <4>4
    <3> QED
      BY <3>3, <3>4
  <2> QED
    BY <2>3, <2>4, <2>5, <2>6
<1> QED
  BY <1>0, <1>2, <1>3

-----------------------------------------------------------------------------
(* One step per action.                                                     *)

LEMMA PageStep ==
  ASSUME IInv, NEW t \in Tabs, Send(t) \/ Clear(t) \/ Reload(t)
  PROVE  IInv'
<1> USE DEF IInv
<1>0. NoTab \notin Tabs
  BY ChatServerAssumption
<1>1. CASE Send(t)
  <2>1. PICK h \in Threads : /\ stage[h] = "free"
                             /\ \E s \in {"invalid", "parse"} : stage' = [stage EXCEPT ![h] = s]
                             /\ client' = [client EXCEPT ![h] = t]
    BY <1>1 DEF Send
  <2>2. /\ ~busy[t] /\ busy' = [busy EXCEPT ![t] = TRUE] /\ asking' = [asking EXCEPT ![t] = clears[t]]
        /\ UNCHANGED <<history, clears, clearedBusy, result, lock, child>>
    BY <1>1 DEF Send, SendReady
  <2>3. PICK s \in {"invalid", "parse"} : stage' = [stage EXCEPT ![h] = s]
    BY <2>1
  <2>4. TypeOK'
    BY <2>1, <2>2, <2>3 DEF TypeOK
  <2>5. LockIsRegion' /\ ChildIsWatched'
    BY <2>1, <2>2, <2>3 DEF TypeOK, LockIsRegion, ChildIsWatched, Holding
  <2>6. client[h] = NoTab /\ \A g \in Threads : client[g] # t
    BY <2>1, <2>2, <1>0 DEF OneAnswer
  <2>7. OneAnswer'
    BY <1>0, <2>1, <2>2, <2>3, <2>6 DEF TypeOK, OneAnswer
  <2>8. TurnsAreCurrent'
    BY <2>2 DEF TypeOK, TurnsAreCurrent
  <2> QED
    BY <2>4, <2>5, <2>7, <2>8
<1>2. CASE Clear(t)
  <2>1. /\ clears' = [clears EXCEPT ![t] = @ + 1]
        /\ history' = [history EXCEPT ![t] = <<>>]
        /\ clearedBusy' = [clearedBusy EXCEPT ![t] = @ \/ busy[t]]
        /\ UNCHANGED <<busy, asking, threadVars>>
    BY <1>2 DEF Clear
  <2>2. TypeOK'
    BY <2>1 DEF TypeOK, threadVars
  <2>3. LockIsRegion' /\ ChildIsWatched' /\ OneAnswer'
    BY <2>1 DEF LockIsRegion, ChildIsWatched, OneAnswer, threadVars
  <2>4. TurnsAreCurrent'
    <3> SUFFICES ASSUME NEW u \in Tabs, ~clearedBusy'[u]
                 PROVE  /\ busy'[u] => asking'[u] = clears'[u]
                        /\ \A i \in 1 .. Len(history'[u]) : history'[u][i] = clears'[u]
      BY DEF TurnsAreCurrent
    <3>1. CASE u = t
      <4>1. ~busy[u] /\ history'[u] = <<>>
        BY <2>1, <3>1 DEF TypeOK
      <4> QED
        BY <2>1, <4>1
    <3>2. CASE u # t
      BY <2>1, <3>2 DEF TypeOK, TurnsAreCurrent
    <3> QED
      BY <3>1, <3>2
  <2> QED
    BY <2>2, <2>3, <2>4
<1>3. CASE Reload(t)
  <2>1. /\ history' = [history EXCEPT ![t] = <<>>] /\ busy' = [busy EXCEPT ![t] = FALSE]
        /\ clears' = [clears EXCEPT ![t] = 0] /\ asking' = [asking EXCEPT ![t] = 0]
        /\ clearedBusy' = [clearedBusy EXCEPT ![t] = FALSE]
        /\ client' = [h \in Threads |-> IF client[h] = t THEN NoTab ELSE client[h]]
        /\ UNCHANGED <<stage, result, lock, child>>
    BY <1>3 DEF Reload
  <2>2. TypeOK'
    BY <2>1 DEF TypeOK
  <2>3. LockIsRegion' /\ ChildIsWatched'
    BY <2>1 DEF LockIsRegion, ChildIsWatched
  <2>4. OneAnswer'
    BY <1>0, <2>1 DEF TypeOK, OneAnswer
  <2>5. TurnsAreCurrent'
    BY <2>1 DEF TypeOK, TurnsAreCurrent
  <2> QED
    BY <2>2, <2>3, <2>4, <2>5
<1> QED
  BY <1>1, <1>2, <1>3

\* The actions of a thread that touch neither the page nor who waits.
LEMMA HandlerStep ==
  ASSUME IInv, NEW h \in Threads,
         \/ Acquire(h) \/ Spawn(h) \/ SpawnFails(h) \/ ChildEnds(h) \/ Reaped(h)
         \/ TimesOut(h) \/ Release(h) \/ ReplyFails(h)
  PROVE  IInv'
<1> USE DEF IInv, TypeOK, Holding
<1>0. NoThread \notin Threads
  BY ChatServerAssumption
<1>1. UNCHANGED tabVars /\ UNCHANGED client
  BY DEF Acquire, Spawn, SpawnFails, ChildEnds, Reaped, TimesOut, Release, ReplyFails
<1>2. \A g \in Threads : stage'[g] = "free" => stage[g] = "free"
  BY DEF Acquire, Spawn, SpawnFails, ChildEnds, Reaped, TimesOut, Release, ReplyFails
<1>3. OneAnswer' /\ TurnsAreCurrent'
  BY <1>1, <1>2 DEF OneAnswer, TurnsAreCurrent, tabVars
<1>4. LockIsRegion' /\ ChildIsWatched'
  <2> USE DEF LockIsRegion, ChildIsWatched
  <2>1. CASE Acquire(h)
    BY <1>0, <2>1 DEF Acquire
  <2>2. CASE Spawn(h) \/ SpawnFails(h)
    BY <2>2 DEF Spawn, SpawnFails
  <2>3. CASE ChildEnds(h) \/ Reaped(h) \/ TimesOut(h)
    BY <2>3 DEF ChildEnds, Reaped, TimesOut, AfterTimeout
  <2>4. CASE Release(h)
    BY <1>0, <2>4 DEF Release
  <2>5. CASE ReplyFails(h)
    BY <2>5 DEF ReplyFails
  <2> QED
    BY <2>1, <2>2, <2>3, <2>4, <2>5
<1>5. TypeOK'
  BY <1>1 DEF tabVars, Acquire, Spawn, SpawnFails, ChildEnds, Reaped, TimesOut, AfterTimeout,
              Release, ReplyFails
<1> QED
  BY <1>3, <1>4, <1>5

LEMMA RestartStep == ASSUME IInv, Restart PROVE IInv'
<1> USE DEF IInv
<1>1. /\ stage' = [h \in Threads |-> "free"] /\ client' = [h \in Threads |-> NoTab]
      /\ result' = [h \in Threads |-> "none"] /\ lock' = NoThread
      /\ child' = [h \in Threads |-> FALSE] /\ busy' = [t \in Tabs |-> FALSE]
      /\ UNCHANGED <<history, clears, asking, clearedBusy>>
  BY DEF Restart
<1>2. TypeOK'
  BY <1>1 DEF TypeOK
<1>3. LockIsRegion' /\ ChildIsWatched'
  BY <1>1, ChatServerAssumption DEF LockIsRegion, ChildIsWatched, Holding
<1>4. OneAnswer' /\ TurnsAreCurrent'
  BY <1>1 DEF OneAnswer, TurnsAreCurrent
<1> QED
  BY <1>2, <1>3, <1>4

LEMMA StepIInv == IInv /\ [Next]_vars => IInv'
<1> SUFFICES ASSUME IInv, [Next]_vars PROVE IInv'
  OBVIOUS
<1>1. CASE \E t \in Tabs : Send(t) \/ Clear(t) \/ Reload(t)
  BY <1>1, PageStep
<1>2. ASSUME NEW h \in Threads, Serve(h)
      PROVE  IInv'
  <2>1. CASE BadRequest(h) \/ Unavailable(h) \/ Drop(h)
    <3>1. Finish(h, FALSE) /\ UNCHANGED <<lock, child>> /\ stage[h] \notin Holding
      BY <2>1 DEF BadRequest, Unavailable, Drop, Holding
    <3> QED
      BY <3>1, FinishStep
  <2>2. CASE Reply(h)
    <3>1. Finish(h, result[h] = "ok") /\ UNCHANGED <<lock, child>> /\ stage[h] \notin Holding
      BY <2>2 DEF Reply, Holding
    <3> QED
      BY <3>1, FinishStep
  <2>3. CASE ~ (BadRequest(h) \/ Unavailable(h) \/ Drop(h) \/ Reply(h))
    BY <1>2, <2>3, HandlerStep DEF Serve
  <2> QED
    BY <2>1, <2>2, <2>3
<1>3. CASE Restart
  BY <1>3, RestartStep
<1>4. CASE OrphanEnds \/ UNCHANGED vars
  BY <1>4 DEF OrphanEnds, vars, tabVars, threadVars, IInv, TypeOK, LockIsRegion,
              ChildIsWatched, OneAnswer, TurnsAreCurrent
<1> QED
  BY <1>1, <1>2, <1>3, <1>4 DEF Next

\* The inductive invariant holds for any number of tabs and handler threads.
THEOREM ChatInvariant == Spec => []IInv
<1>1. Init => IInv
  BY InitIInv
<1>2. IInv /\ [Next]_vars => IInv'
  BY StepIInv
<1> QED
  BY <1>1, <1>2, PTL DEF Spec

-----------------------------------------------------------------------------
(* The properties.                                                          *)

\* However requests time out, raise, are abandoned or cut off by a restart,
\* a ggnpu process of the server belongs to the one thread that holds
\* _inference_lock: at most one of them runs.
THEOREM OneInferenceAtATime == Spec => []OneInference
<1>1. IInv => OneInference
  BY DEF IInv, LockIsRegion, ChildIsWatched, OneInference, Holding
<1> QED
  BY <1>1, ChatInvariant, PTL

\* A tab's history holds only turns of the conversation it shows, and the
\* reply it waits for has one thread working for it, unless the tab was
\* cleared while a reply was pending (the Clear button keeps the fetch).
THEOREM HistoryStaysCurrent == Spec => []HistoryIsCurrent
<1>1. ASSUME IInv PROVE HistoryIsCurrent
  <2> SUFFICES ASSUME NEW t \in Tabs
               PROVE  Cardinality({h \in Threads : client[h] = t}) = IF busy[t] THEN 1 ELSE 0
    BY <1>1 DEF IInv, TurnsAreCurrent, HistoryIsCurrent
  <2>0. NoTab \notin Tabs
    BY ChatServerAssumption
  <2>1. CASE busy[t]
    <3>1. PICK h \in Threads : client[h] = t
      BY <1>1, <2>1 DEF IInv, OneAnswer
    <3>2. {g \in Threads : client[g] = t} = {h}
      BY <1>1, <2>0, <3>1 DEF IInv, OneAnswer
    <3> QED
      BY <2>1, <3>2, FS_Singleton
  <2>2. CASE ~busy[t]
    <3>1. {g \in Threads : client[g] = t} = {}
      BY <1>1, <2>0, <2>2 DEF IInv, OneAnswer
    <3> QED
      BY <2>2, <3>1, FS_EmptySet
  <2> QED
    BY <2>1, <2>2
<1> QED
  BY <1>1, ChatInvariant, PTL

\* The lock never passes from one request to another without coming free, and
\* only the thread that holds it, or the end of the server, gives it back.
THEOREM LockHandedOverFree ==
  Spec => [][\A h \in Threads : lock = h /\ lock' # h => /\ lock' = NoThread
                                                      /\ (Release(h) \/ Restart)]_vars
<1>1. ASSUME IInv, [Next]_vars, NEW h \in Threads, lock = h, lock' # h
      PROVE  lock' = NoThread /\ (Release(h) \/ Restart)
  <2>0. h # NoThread
    BY ChatServerAssumption
  <2>1. CASE Restart
    BY <2>1 DEF Restart
  <2>2. ASSUME NEW g \in Threads, Serve(g)
        PROVE  lock' = NoThread /\ Release(h)
    <3>1. Release(g)
      BY <1>1, <2>0, <2>2 DEF Serve, BadRequest, Acquire, Unavailable, Spawn, SpawnFails, ChildEnds,
            Reaped, TimesOut, Reply, ReplyFails, Drop
    <3>2. lock = g
      BY <1>1, <3>1 DEF Release, IInv, LockIsRegion, Holding
    <3> QED
      BY <1>1, <3>1, <3>2 DEF Release
  <2>3. CASE (\E t \in Tabs : Send(t) \/ Clear(t) \/ Reload(t)) \/ OrphanEnds \/ UNCHANGED vars
    BY <1>1, <2>3 DEF Send, Clear, Reload, OrphanEnds, vars, threadVars
  <2> QED
    BY <1>1, <2>1, <2>2, <2>3 DEF Next
<1>2. IInv /\ [Next]_vars => [\A h \in Threads : lock = h /\ lock' # h => /\ lock' = NoThread
                                                      /\ (Release(h) \/ Restart)]_vars
  BY <1>1
<1> QED
  BY <1>2, ChatInvariant, PTL DEF Spec
=============================================================================
