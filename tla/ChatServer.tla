----------------------------- MODULE ChatServer -----------------------------
(***************************************************************************)
(* The web chat: browser tabs (web/index.html) that talk to a threaded     *)
(* server (scripts/chat_server.py), which runs one ggnpu process per       *)
(* request behind _inference_lock.                                         *)
(*                                                                         *)
(* Data abstraction.  A turn of a conversation is the number of times its  *)
(* tab had been cleared when its message was sent; a request's fields are  *)
(* valid or not; what ggnpu prints is left out.                            *)
(***************************************************************************)
EXTENDS Integers, Sequences, FiniteSets

CONSTANTS Tabs, Threads,
          NoTab, NoThread,
          MaxTurns,     \* bound: turns in a history
          MaxClears,    \* bound: clears of a tab
          MaxOrphans    \* bound: ggnpu processes left behind by dead servers

ASSUME ChatServerAssumption ==
  /\ NoTab \notin Tabs /\ NoThread \notin Threads
  /\ MaxTurns \in Nat /\ MaxClears \in Nat /\ MaxOrphans \in Nat

VARIABLES
  history,     \* per tab: the turns it will send
  busy,        \* per tab: a fetch is pending
  clears,      \* per tab: how often it has been cleared
  asking,      \* per tab: clears when the pending message was sent
  clearedBusy, \* history: has the tab been cleared while busy?
  stage,       \* per handler thread: where do_POST() is
  client,      \* per handler thread: the tab that still waits for it
  result,      \* per handler thread: what run_ggnpu() came to
  lock,        \* who holds _inference_lock
  child,       \* per handler thread: does its ggnpu process live?
  orphans      \* ggnpu processes whose server is gone

tabVars == <<history, busy, clears, asking, clearedBusy>>
threadVars == <<stage, client, result, lock, child>>
vars == <<tabVars, threadVars, orphans>>

Init ==
  /\ history = [t \in Tabs |-> <<>>]
  /\ busy = [t \in Tabs |-> FALSE] /\ clearedBusy = [t \in Tabs |-> FALSE]
  /\ clears = [t \in Tabs |-> 0] /\ asking = [t \in Tabs |-> 0]
  /\ stage = [h \in Threads |-> "free"]
  /\ client = [h \in Threads |-> NoTab]
  /\ result = [h \in Threads |-> "none"]
  /\ lock = NoThread
  /\ child = [h \in Threads |-> FALSE]
  /\ orphans = 0

-----------------------------------------------------------------------------
(* The page.                                                                *)

\* Mutant: a second message may be sent while one is pending.
SendReadyAlways(t) == Len(history[t]) < MaxTurns

SendReady(t) == ~busy[t] /\ Len(history[t]) < MaxTurns

\* sendMessage(); the server gives the connection a thread of its own.  The
\* request may be one that do_POST() refuses.
Send(t) ==
  /\ SendReady(t)
  /\ busy' = [busy EXCEPT ![t] = TRUE]
  /\ asking' = [asking EXCEPT ![t] = clears[t]]
  /\ \E h \in Threads :
       /\ stage[h] = "free"
       /\ stage' \in {[stage EXCEPT ![h] = s] : s \in {"invalid", "parse"}}
       /\ client' = [client EXCEPT ![h] = t]
  /\ UNCHANGED <<history, clears, clearedBusy, result, lock, child, orphans>>

\* The clear button works at any time.
Clear(t) ==
  /\ clears[t] < MaxClears
  /\ clears' = [clears EXCEPT ![t] = @ + 1]
  /\ history' = [history EXCEPT ![t] = <<>>]
  /\ clearedBusy' = [clearedBusy EXCEPT ![t] = @ \/ busy[t]]
  /\ UNCHANGED <<busy, asking, threadVars, orphans>>

\* The page is reloaded: its pending request goes on without it.
Reload(t) ==
  /\ history' = [history EXCEPT ![t] = <<>>]
  /\ busy' = [busy EXCEPT ![t] = FALSE]
  /\ clears' = [clears EXCEPT ![t] = 0]
  /\ asking' = [asking EXCEPT ![t] = 0]
  /\ clearedBusy' = [clearedBusy EXCEPT ![t] = FALSE]
  /\ client' = [h \in Threads |-> IF client[h] = t THEN NoTab ELSE client[h]]
  /\ UNCHANGED <<stage, result, lock, child, orphans>>

\* The end of a fetch: only an OK reply adds its turn to the history.
Receive(t, ok) ==
  IF t = NoTab
  THEN UNCHANGED tabVars
  ELSE /\ busy' = [busy EXCEPT ![t] = FALSE]
       /\ history' = IF ok THEN [history EXCEPT ![t] = Append(@, asking[t])] ELSE history
       /\ UNCHANGED <<clears, asking, clearedBusy>>

-----------------------------------------------------------------------------
(* do_POST().                                                               *)

\* The thread is done with its request, with or without a reply.
Finish(h, ok) ==
  /\ stage' = [stage EXCEPT ![h] = "free"]
  /\ client' = [client EXCEPT ![h] = NoTab]
  /\ result' = [result EXCEPT ![h] = "none"]
  /\ Receive(client[h], ok)

\* 400 for a body that is not JSON, an empty message or a history that is not
\* a list; a field of another wrong type raises, and nothing is sent.
BadRequest(h) ==
  /\ stage[h] = "invalid"
  /\ Finish(h, FALSE)
  /\ UNCHANGED <<lock, child, orphans>>

Acquire(h) ==
  /\ stage[h] = "parse"
  /\ lock = NoThread
  /\ lock' = h
  /\ stage' = [stage EXCEPT ![h] = "spawn"]
  /\ UNCHANGED <<tabVars, client, result, child, orphans>>

\* Mutant: the acquisition blocks.
UnavailableWaits(h) == FALSE /\ UNCHANGED vars

\* 503: the acquisition does not block.
Unavailable(h) ==
  /\ stage[h] = "parse"
  /\ lock # NoThread
  /\ Finish(h, FALSE)
  /\ UNCHANGED <<lock, child, orphans>>

Spawn(h) ==
  /\ stage[h] = "spawn"
  /\ stage' = [stage EXCEPT ![h] = "run"]
  /\ child' = [child EXCEPT ![h] = TRUE]
  /\ UNCHANGED <<tabVars, client, result, lock, orphans>>

\* Mutant: the exception leaves without going through the lock's release.
SpawnFailsLeaking(h) ==
  /\ stage[h] = "spawn"
  /\ stage' = [stage EXCEPT ![h] = "dead"]
  /\ UNCHANGED <<tabVars, client, result, lock, child, orphans>>

\* A turn of the history that is not an object makes format_prompt() raise, a
\* binary that is gone makes subprocess.run() raise.
SpawnFails(h) ==
  /\ stage[h] = "spawn"
  /\ stage' = [stage EXCEPT ![h] = "raise"]
  /\ UNCHANGED <<tabVars, client, result, lock, child, orphans>>

\* ggnpu ends by itself.
ChildEnds(h) ==
  /\ stage[h] = "run" /\ child[h]
  /\ child' = [child EXCEPT ![h] = FALSE]
  /\ UNCHANGED <<tabVars, stage, client, result, lock, orphans>>

\* subprocess.run() has seen it end.
Reaped(h) ==
  /\ stage[h] = "run" /\ ~child[h]
  /\ result' \in {[result EXCEPT ![h] = r] : r \in {"ok", "error"}}
  /\ stage' = [stage EXCEPT ![h] = "release"]
  /\ UNCHANGED <<tabVars, client, lock, child, orphans>>

\* Mutant: the process is not killed.
AfterTimeoutAlive(h) == UNCHANGED child

\* subprocess.run() kills the process and waits for it before it raises.
AfterTimeout(h) == child' = [child EXCEPT ![h] = FALSE]

\* The exception carries what had been printed to stderr, as bytes, or None.
TimesOut(h) ==
  /\ stage[h] = "run"
  /\ AfterTimeout(h)
  /\ result' \in {[result EXCEPT ![h] = r] : r \in {"timeout", "timeout_silent"}}
  /\ stage' = [stage EXCEPT ![h] = "release"]
  /\ UNCHANGED <<tabVars, client, lock, orphans>>

\* The finally clause, on the way to the reply or out with an exception.
Release(h) ==
  /\ stage[h] \in {"release", "raise"}
  /\ lock' = NoThread
  /\ stage' = [stage EXCEPT ![h] = IF stage[h] = "raise" THEN "dead" ELSE "reply"]
  /\ UNCHANGED <<tabVars, client, result, child, orphans>>

\* json.dumps() cannot encode the bytes of an interrupted process.
Encodable(h) == result[h] # "timeout"

Reply(h) ==
  /\ stage[h] = "reply"
  /\ Encodable(h)
  /\ Finish(h, result[h] = "ok")
  /\ UNCHANGED <<lock, child, orphans>>

ReplyFails(h) ==
  /\ stage[h] = "reply"
  /\ ~Encodable(h)
  /\ stage' = [stage EXCEPT ![h] = "dead"]
  /\ UNCHANGED <<tabVars, client, result, lock, child, orphans>>

\* An uncaught exception ends the thread: the connection closes without a reply.
Drop(h) ==
  /\ stage[h] = "dead"
  /\ Finish(h, FALSE)
  /\ UNCHANGED <<lock, child, orphans>>

\* The server is killed and started again: every connection closes, and a
\* running ggnpu lives on unless it gets the same signal.
Restart ==
  /\ \E h \in Threads : stage[h] # "free"
  /\ \E left \in {0, Cardinality({h \in Threads : child[h]})} :
       orphans + left <= MaxOrphans /\ orphans' = orphans + left
  /\ stage' = [h \in Threads |-> "free"]
  /\ client' = [h \in Threads |-> NoTab]
  /\ result' = [h \in Threads |-> "none"]
  /\ lock' = NoThread
  /\ child' = [h \in Threads |-> FALSE]
  /\ busy' = [t \in Tabs |-> FALSE]
  /\ UNCHANGED <<history, clears, asking, clearedBusy>>

OrphanEnds ==
  /\ orphans > 0
  /\ orphans' = orphans - 1
  /\ UNCHANGED <<tabVars, threadVars>>

Serve(h) ==
  \/ BadRequest(h) \/ Acquire(h) \/ Unavailable(h)
  \/ Spawn(h) \/ SpawnFails(h)
  \/ ChildEnds(h) \/ Reaped(h) \/ TimesOut(h)
  \/ Release(h) \/ Reply(h) \/ ReplyFails(h) \/ Drop(h)

Next ==
  \/ \E t \in Tabs : Send(t) \/ Clear(t) \/ Reload(t)
  \/ \E h \in Threads : Serve(h)
  \/ Restart \/ OrphanEnds

\* A thread always has a next step: the timeout bounds the wait for ggnpu, and
\* the lock is never waited for.
Spec == Init /\ [][Next]_vars /\ \A h \in Threads : WF_vars(Serve(h))

-----------------------------------------------------------------------------
(* Properties.                                                              *)

\* "One inference at a time": the ggnpu processes of a server are at most one,
\* and while one lives its thread holds the lock, whatever times out, raises
\* or is abandoned.
OneInference ==
  \A h \in Threads : child[h] => lock = h /\ stage[h] = "run"

\* The lock is never lost: it always comes free again.
LockComesFree == \A h \in Threads : lock = h ~> lock # h

\* Every message a tab sends comes to an end, and the page takes another one.
TabComesBack == \A t \in Tabs : busy[t] ~> ~busy[t]

\* The history a tab sends holds only turns of the conversation on the screen,
\* and a reply that is awaited has one thread working for it, unless the tab
\* was cleared while a reply was pending.
HistoryIsCurrent ==
  \A t \in Tabs :
    /\ ~clearedBusy[t] => \A i \in 1 .. Len(history[t]) : history[t][i] = clears[t]
    /\ Cardinality({h \in Threads : client[h] = t}) = IF busy[t] THEN 1 ELSE 0

\* run_ggnpu() returns "tuple[str, str, int, float]" and the message "ggnpu
\* timed out after {timeout}s": a request that times out is answered.
TimeoutAnswered ==
  \A h \in Threads : stage[h] = "dead" => result[h] \notin {"timeout", "timeout_silent"}
=============================================================================
