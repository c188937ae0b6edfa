-------------------------- MODULE ValidationServer --------------------------
(***************************************************************************)
(* The server mode of validateQueries.py (run_server_mode) and its client, *)
(* IterativeQueryRecord._do_validation_remotely: tasks are posted to a     *)
(* threaded HTTP server, queued, validated one after the other by the main *)
(* task loop, and polled for by their clients.                             *)
(***************************************************************************)
EXTENDS Integers, Sequences

CONSTANTS
  Clients,      \* processes that validate remotely
  MaxPosts,     \* bound: validations a client asks for, one after the other
  MaxRestarts,  \* bound: restarts of the server process
  TasksMayFail  \* whether the handling of a task may raise

ASSUME ServerAssumption ==
  /\ MaxPosts \in Nat \ {0}
  /\ MaxRestarts \in Nat
  /\ TasksMayFail \in BOOLEAN

Tasks  == Clients \X (1..MaxPosts)   \* taskid: fresh for every post
NoTask == <<>>
Torn   == -1

VARIABLES
  q,         \* Q, the queue of the server
  statuses,  \* [Tasks -> ...] task_statuses, "absent" when not in the dict
  handler,   \* [Tasks -> ...] the thread that serves the POST of the task
  current,   \* item of main_task_loop, or NoTask
  loop,      \* where main_task_loop is
  finished,  \* history: tasks whose handling ended
  posts,     \* [Clients -> Nat] posts made by the client
  client,    \* [Clients -> ...] where the client is
  output,    \* [Clients -> ...] the post localOutPath was written for, 0 when
             \* it was not, Torn when the file was opened and not written
  loaded,    \* history: [Tasks -> ...] the output loaded for a task
  restarts   \* restarts of the server so far

vars == <<q, statuses, handler, current, loop, finished, posts, client, output,
          loaded, restarts>>

Statuses == {"absent", "inqueue", "validating", "done", "err"}

TypeInv ==
  /\ q \in Seq(Tasks)
  /\ statuses \in [Tasks -> Statuses]
  /\ handler \in [Tasks -> {"none", "enqueue", "status", "answered"}]
  /\ current \in Tasks \cup {NoTask}
  /\ loop \in {"get", "begin", "work", "write", "end", "fail"}
  /\ finished \subseteq Tasks
  /\ posts \in [Clients -> 0..MaxPosts]
  /\ client \in [Clients -> {"idle", "posting", "polling", "raised"}]
  /\ output \in [Clients -> Torn..MaxPosts]
  /\ loaded \in [Tasks -> Torn..MaxPosts]
  /\ restarts \in 0..MaxRestarts

Init ==
  /\ q = << >>
  /\ statuses = [t \in Tasks |-> "absent"]
  /\ handler = [t \in Tasks |-> "none"]
  /\ current = NoTask
  /\ loop = "get"
  /\ finished = {}
  /\ posts = [c \in Clients |-> 0]
  /\ client = [c \in Clients |-> "idle"]
  /\ output = [c \in Clients |-> 0]
  /\ loaded = [t \in Tasks |-> 0]
  /\ restarts = 0

Task(c) == <<c, posts[c]>>

-----------------------------------------------------------------------------
(***************************************************************************)
(* POST /validate, in a thread of its own.                                 *)
(***************************************************************************)

\* The client's request arrives; the handler makes a fresh task id.
Post(c) ==
  /\ client[c] = "idle"
  /\ posts[c] < MaxPosts
  /\ posts' = [posts EXCEPT ![c] = @ + 1]
  /\ client' = [client EXCEPT ![c] = "posting"]
  /\ handler' = [handler EXCEPT ![<<c, posts'[c]>>] = "enqueue"]
  /\ UNCHANGED <<q, statuses, current, loop, finished, output, loaded, restarts>>

\* Q.put(task)
Enqueue(t) ==
  /\ handler[t] = "enqueue"
  /\ handler' = [handler EXCEPT ![t] = "status"]
  /\ q' = Append(q, t)
  /\ UNCHANGED <<statuses, current, loop, finished, posts, client, output, loaded,
                 restarts>>

\* Mutant of SetInqueue: a status the dict never holds otherwise.
SetQueued(t) ==
  /\ handler[t] = "status"
  /\ handler' = [handler EXCEPT ![t] = "answered"]
  /\ statuses' = [statuses EXCEPT ![t] = "queued"]
  /\ client' = [client EXCEPT ![t[1]] = "polling"]
  /\ UNCHANGED <<q, current, loop, finished, posts, output, loaded, restarts>>

\* task_statuses[taskid] = 'inqueue', and the answer with the task id.
SetInqueue(t) ==
  /\ handler[t] = "status"
  /\ handler' = [handler EXCEPT ![t] = "answered"]
  /\ statuses' = [statuses EXCEPT ![t] = "inqueue"]
  /\ client' = [client EXCEPT ![t[1]] = "polling"]
  /\ UNCHANGED <<q, current, loop, finished, posts, output, loaded, restarts>>

-----------------------------------------------------------------------------
(***************************************************************************)
(* main_task_loop.                                                         *)
(***************************************************************************)

\* item = Q.get()
GetTask ==
  /\ loop = "get"
  /\ q # << >>
  /\ current' = Head(q)
  /\ q' = Tail(q)
  /\ loop' = "begin"
  /\ UNCHANGED <<statuses, handler, finished, posts, client, output, loaded, restarts>>

\* task_statuses[taskid] = 'validating'
BeginTask ==
  /\ loop = "begin"
  /\ statuses' = [statuses EXCEPT ![current] = "validating"]
  /\ loop' = "work"
  /\ UNCHANGED <<q, handler, current, finished, posts, client, output, loaded, restarts>>

\* The validation of all project groups, up to the opening of outputjson, which
\* empties the file.
Work ==
  /\ loop = "work"
  /\ \/ /\ output' = [output EXCEPT ![current[1]] = Torn]
        /\ loop' = "write"
     \/ /\ TasksMayFail
        /\ loop' = "fail"
        /\ UNCHANGED output
  /\ UNCHANGED <<q, statuses, handler, current, finished, posts, client, loaded, restarts>>

\* json.dump and the closing of the file; a failure leaves what was written.
WriteOutput ==
  /\ loop = "write"
  /\ \/ /\ output' = [output EXCEPT ![current[1]] = current[2]]
        /\ loop' = "end"
     \/ /\ TasksMayFail
        /\ loop' = "fail"
        /\ UNCHANGED output
  /\ UNCHANGED <<q, statuses, handler, current, finished, posts, client, loaded, restarts>>

\* Mutant of EndTask: every task ends with 'done', failed or not.
EndTaskAsDone ==
  /\ loop \in {"end", "fail"}
  /\ statuses' = [statuses EXCEPT ![current] = "done"]
  /\ finished' = finished \cup {current}
  /\ current' = NoTask
  /\ loop' = "get"
  /\ UNCHANGED <<q, handler, posts, client, output, loaded, restarts>>

\* Mutant of EndTask: a task that raised is put back until it succeeds.
EndTaskOrRequeue ==
  /\ \/ /\ loop = "end"
        /\ statuses' = [statuses EXCEPT ![current] = "done"]
        /\ finished' = finished \cup {current}
        /\ UNCHANGED q
     \/ /\ loop = "fail"
        /\ statuses' = [statuses EXCEPT ![current] = "inqueue"]
        /\ q' = Append(q, current)
        /\ UNCHANGED finished
  /\ current' = NoTask
  /\ loop' = "get"
  /\ UNCHANGED <<handler, posts, client, output, loaded, restarts>>

\* Mutant of EndTask: a task that raised is put into the queue once more.
EndTaskOrRetry ==
  /\ loop \in {"end", "fail"}
  /\ statuses' = [statuses EXCEPT ![current] = IF loop = "end" THEN "done" ELSE "err"]
  /\ q' = IF loop = "fail" THEN Append(q, current) ELSE q
  /\ finished' = finished \cup {current}
  /\ current' = NoTask
  /\ loop' = "get"
  /\ UNCHANGED <<handler, posts, client, output, loaded, restarts>>

\* 'done', or 'err-...' by the exception handler; task_done().
EndTask ==
  /\ loop \in {"end", "fail"}
  /\ statuses' = [statuses EXCEPT ![current] = IF loop = "end" THEN "done" ELSE "err"]
  /\ finished' = finished \cup {current}
  /\ current' = NoTask
  /\ loop' = "get"
  /\ UNCHANGED <<q, handler, posts, client, output, loaded, restarts>>

-----------------------------------------------------------------------------
(***************************************************************************)
(* _do_validation_remotely after its POST.                                 *)
(***************************************************************************)

\* One POST /status: 'unknown' raises, 'done' loads localOutPath; otherwise
\* the client sleeps and polls again.
Poll(c) ==
  LET status == statuses[Task(c)]
  IN  /\ client[c] = "polling"
      /\ \/ /\ status = "absent"
            /\ client' = [client EXCEPT ![c] = "raised"]
            /\ UNCHANGED loaded
         \/ /\ status = "done"
            /\ client' = [client EXCEPT ![c] = "idle"]
            /\ loaded' = [loaded EXCEPT ![Task(c)] = output[c]]
      /\ UNCHANGED <<q, statuses, handler, current, loop, finished, posts, output, restarts>>

\* The server process dies and is started again: its queue and statuses are
\* gone, and an output it was writing stays torn; a client in a request (every
\* posting one, and any of the polling ones) gets a connection error, which it
\* raises.
Restart ==
  /\ restarts < MaxRestarts
  /\ restarts' = restarts + 1
  /\ q' = << >>
  /\ statuses' = [t \in Tasks |-> "absent"]
  /\ handler' = [t \in Tasks |-> "none"]
  /\ current' = NoTask
  /\ loop' = "get"
  /\ \E cut \in SUBSET { c \in Clients : client[c] = "polling" } :
       client' = [c \in Clients |->
                   IF client[c] = "posting" \/ c \in cut THEN "raised" ELSE client[c]]
  /\ UNCHANGED <<finished, posts, output, loaded>>

\* All posts are made, and the clients only wait, or are gone.
Settled ==
  /\ \A c \in Clients : \/ client[c] = "raised"
                        \/ client[c] = "idle" /\ posts[c] = MaxPosts
                        \/ client[c] = "polling" /\ statuses[Task(c)] \in {"inqueue", "err"}
  /\ q = << >> /\ loop = "get"
  /\ UNCHANGED vars

Server == GetTask \/ BeginTask \/ Work \/ WriteOutput \/ EndTask

Next ==
  \/ \E c \in Clients : Post(c) \/ Poll(c)
  \/ \E t \in Tasks : Enqueue(t) \/ SetInqueue(t)
  \/ Server
  \/ Restart
  \/ Settled

(***************************************************************************)
(* The threads of the server are scheduled, the handling of a task ends,   *)
(* and a client polls again and again.                                     *)
(***************************************************************************)
Fairness ==
  /\ WF_vars(Server)
  /\ \A t \in Tasks : WF_vars(Enqueue(t)) /\ WF_vars(SetInqueue(t))
  /\ \A c \in Clients : WF_vars(Poll(c))

Spec     == Init /\ [][Next]_vars
FairSpec == Spec /\ Fairness

-----------------------------------------------------------------------------
(***************************************************************************)
(* Properties.                                                             *)
(***************************************************************************)

\* A client that was told 'done' loads the output of the very task it posted,
\* not what an earlier validation left in the same file, and not one that is
\* only half written.
LoadsItsOwnResult ==
  \A t \in Tasks : loaded[t] \in {0, t[2]}

\* A client is told 'unknown' only when the server has been restarted.
UnknownOnlyAfterRestart ==
  \A c \in Clients : client[c] = "raised" => restarts > 0

\* What a client is told is true, whatever the order of its own requests, of
\* the handlers' threads and of the main loop.
ToldTheTruth == LoadsItsOwnResult /\ UnknownOnlyAfterRestart

\* The server implements TaskService: between its handler, the queue and the
\* loop a task is in one place only; it is handled once, whether it raises or
\* not, or goes down with the server; and its client gets a result only when
\* it has been handled, however late the statuses are set.
InQueue(t)  == \E i \in 1..Len(q) : q[i] = t
InServer(t) == handler[t] = "enqueue" \/ InQueue(t) \/ current = t

Stage(t) ==
  IF t \in finished THEN (IF InServer(t) THEN "again" ELSE "handled")
  ELSE IF InServer(t) THEN "waiting"
  ELSE IF posts[t[1]] < t[2] THEN "new" ELSE "lost"

Service == INSTANCE TaskService WITH
             stage <- [t \in Tasks |-> Stage(t)],
             got   <- { t \in Tasks : loaded[t] # 0 }

ImplementsTaskService == Service!Spec

\* Every task that is posted is handled to its end, unless the server goes
\* down: a task that raises does not take the loop with it.
PostedIsHandled ==
  \A t \in Tasks : handler[t] = "enqueue" ~> t \in finished \/ restarts > 0

\* libIterative.py, after the POST: "wait for completion".  When the task is
\* complete, the wait of its client comes to an end.
WaitEnds ==
  \A c \in Clients : \A n \in 1..MaxPosts :
    (client[c] = "polling" /\ posts[c] = n /\ <<c, n>> \in finished)
      ~> ~(client[c] = "polling" /\ posts[c] = n)
=============================================================================
