----------------------- MODULE ValidationServerProofs -----------------------
(***************************************************************************)
(* What is proved of the validation server for any number of clients,      *)
(* posts and restarts: its types, that clients are told the truth, and     *)
(* that it implements TaskService. The argument: a task is at one place of *)
(* the server at a time, so that its stage can be read off the places;     *)
(* every action moves one task along.                                      *)
(***************************************************************************)
EXTENDS ValidationServer, TLAPS

(***************************************************************************)
(* The inductive invariant.                                                *)
(***************************************************************************)

\* A task waits at one place of the server: once in the queue, or in the loop,
\* and not with its handler any more.
OnePlace ==
  /\ \A i, j \in 1..Len(q) : q[i] = q[j] => i = j
  /\ \A t \in Tasks : InQueue(t) \/ current = t => handler[t] \in {"status", "answered"}
  /\ \A t \in Tasks : ~(InQueue(t) /\ current = t)
  /\ current = NoTask <=> loop = "get"

\* What waits is the last post of a client that is not done with it.
WaitingIsLast ==
  \A t \in Tasks : InServer(t) =>
    t \notin finished /\ t[2] = posts[t[1]] /\ client[t[1]] # "idle"

\* Of a task that is not posted yet nobody knows.
UnpostedIsUnknown ==
  \A t \in Tasks : posts[t[1]] < t[2] =>
    handler[t] = "none" /\ t \notin finished /\ statuses[t] = "absent" /\ loaded[t] = 0

HandlersInStep ==
  \A t \in Tasks :
    /\ handler[t] \in {"enqueue", "status"} =>
         t[2] = posts[t[1]] /\ client[t[1]] = "posting"
    /\ handler[t] = "answered" => statuses[t] # "absent"

ClientsInStep ==
  \A c \in Clients :
    /\ client[c] = "polling" => handler[Task(c)] = "answered" \/ restarts > 0
    /\ client[c] \in {"posting", "polling"} => posts[c] > 0 /\ loaded[Task(c)] = 0
    /\ client[c] = "raised" => restarts > 0

\* 'done' is said of a task that was handled, and until the client's next
\* post its output is the one in the file.
DoneIsWritten ==
  /\ \A t \in Tasks : statuses[t] = "done" =>
       t \in finished /\ (t[2] = posts[t[1]] => output[t[1]] = t[2])
  /\ loop = "end" => output[current[1]] = current[2]

IndInv ==
  /\ TypeInv
  /\ OnePlace
  /\ WaitingIsLast
  /\ UnpostedIsUnknown
  /\ HandlersInStep
  /\ ClientsInStep
  /\ DoneIsWritten
  /\ LoadsItsOwnResult

-----------------------------------------------------------------------------
(***************************************************************************)
(* Tasks and the queue.                                                    *)
(***************************************************************************)

\* A task is a client and a number.
LEMMA TaskIsPair ==
  /\ \A t \in Tasks : t[1] \in Clients /\ t[2] \in 1..MaxPosts /\ t = <<t[1], t[2]>>
  /\ \A c \in Clients, n \in 1..MaxPosts : <<c, n>> \in Tasks
  /\ NoTask \notin Tasks
BY DEF Tasks, NoTask

\* Append puts one element that is new into a queue without repetitions.
LEMMA AppendAdds ==
  ASSUME NEW S, NEW s \in Seq(S), NEW x \in S,
         \A i, j \in 1..Len(s) : s[i] = s[j] => i = j,
         \A i \in 1..Len(s) : s[i] # x
  PROVE  /\ Append(s, x) \in Seq(S)
         /\ \A y : (\E i \in 1..Len(Append(s, x)) : Append(s, x)[i] = y)
                     <=> ((\E i \in 1..Len(s) : s[i] = y) \/ y = x)
         /\ \A i, j \in 1..Len(Append(s, x)) : Append(s, x)[i] = Append(s, x)[j] => i = j
<1>1. /\ Append(s, x) \in Seq(S)
      /\ Len(Append(s, x)) = Len(s) + 1
      /\ \A i \in 1..Len(s) : Append(s, x)[i] = s[i]
      /\ Append(s, x)[Len(s) + 1] = x
      /\ Len(s) \in Nat
  OBVIOUS
<1> QED
  BY <1>1

\* Tail takes the first element out of a queue without repetitions.
LEMMA TailRemoves ==
  ASSUME NEW S, NEW s \in Seq(S), s # << >>,
         \A i, j \in 1..Len(s) : s[i] = s[j] => i = j
  PROVE  /\ Tail(s) \in Seq(S) /\ Head(s) \in S
         /\ \E i \in 1..Len(s) : s[i] = Head(s)
         /\ \A y : (\E i \in 1..Len(Tail(s)) : Tail(s)[i] = y)
                     <=> ((\E i \in 1..Len(s) : s[i] = y) /\ y # Head(s))
         /\ \A i, j \in 1..Len(Tail(s)) : Tail(s)[i] = Tail(s)[j] => i = j
<1>1. /\ Tail(s) \in Seq(S) /\ Head(s) \in S /\ Head(s) = s[1]
      /\ Len(s) \in Nat \ {0} /\ Len(Tail(s)) = Len(s) - 1
      /\ \A i \in 1..Len(s) - 1 : Tail(s)[i] = s[i + 1]
  OBVIOUS
<1>2. \A i \in 1..Len(s) : i = 1 \/ (i - 1 \in 1..Len(Tail(s)) /\ Tail(s)[i - 1] = s[i])
  BY <1>1
<1>3. \A i \in 1..Len(Tail(s)) : Tail(s)[i] = s[i + 1] /\ i + 1 \in 1..Len(s) /\ i + 1 # 1
  BY <1>1
<1>4. ASSUME NEW y, y # s[1], NEW i \in 1..Len(s), s[i] = y
      PROVE  \E j \in 1..Len(Tail(s)) : Tail(s)[j] = y
  <2>1. i # 1
    BY <1>4
  <2>2. i - 1 \in 1..Len(Tail(s)) /\ Tail(s)[i - 1] = y
    BY <1>2, <1>4, <2>1
  <2> QED
    BY <2>2
<1>5. ASSUME NEW j \in 1..Len(Tail(s))
      PROVE  Tail(s)[j] # s[1] /\ \E i \in 1..Len(s) : s[i] = Tail(s)[j]
  BY <1>1, <1>3, 1 \in 1..Len(s)
<1>6. ASSUME NEW i \in 1..Len(Tail(s)), NEW j \in 1..Len(Tail(s)), Tail(s)[i] = Tail(s)[j]
      PROVE  i = j
  <2>1. s[i + 1] = s[j + 1] /\ i + 1 \in 1..Len(s) /\ j + 1 \in 1..Len(s)
    BY <1>3, <1>6
  <2>2. i + 1 = j + 1
    BY <2>1
  <2> QED
    BY <2>2, <1>1
<1>7. \E i \in 1..Len(s) : s[i] = Head(s)
  BY <1>1, 1 \in 1..Len(s)
<1> QED
  BY <1>1, <1>4, <1>5, <1>6, <1>7

-----------------------------------------------------------------------------
(***************************************************************************)
(* One lemma per action that changes what the server has.                  *)
(***************************************************************************)
LEMMA InitHolds == Init => IndInv
BY ServerAssumption, TaskIsPair
DEF Init, IndInv, TypeInv, OnePlace, WaitingIsLast, UnpostedIsUnknown, HandlersInStep,
    ClientsInStep, DoneIsWritten, LoadsItsOwnResult, InServer, InQueue, Statuses, Task, Torn

\* A client posts.
LEMMA PostKeeps == ASSUME IndInv, NEW c \in Clients, Post(c) PROVE IndInv'
<1> USE TaskIsPair, ServerAssumption DEF IndInv
<1> DEFINE new == <<c, posts[c] + 1>>
<1>1. /\ new \in Tasks /\ new[1] = c /\ new[2] = posts[c] + 1
      /\ posts' = [posts EXCEPT ![c] = posts[c] + 1]
      /\ handler' = [handler EXCEPT ![new] = "enqueue"]
      /\ client' = [client EXCEPT ![c] = "posting"]
      /\ UNCHANGED <<q, statuses, current, loop, finished, output, loaded, restarts>>
  <2>1. posts[c] + 1 \in 1..MaxPosts /\ posts'[c] = posts[c] + 1
    BY DEF TypeInv, Post
  <2>2. new \in Tasks
    BY <2>1
  <2> QED
    BY <2>1, <2>2 DEF Post
<1>2. /\ handler[new] = "none" /\ new \notin finished
      /\ statuses[new] = "absent" /\ loaded[new] = 0
  BY <1>1 DEF TypeInv, UnpostedIsUnknown
<1>3. \A t \in Tasks : t # new =>
        /\ handler'[t] = handler[t]
        /\ t[1] = c => t[2] # posts'[c]
        /\ t[1] # c => posts'[t[1]] = posts[t[1]] /\ client'[t[1]] = client[t[1]]
  BY <1>1 DEF TypeInv
<1> HIDE DEF new
<1>4. TypeInv'
  BY <1>1, SMTT(30) DEF TypeInv, Post
<1>5. ~InQueue(new) /\ current # new
  BY <1>1, <1>2 DEF OnePlace
<1>6. OnePlace'
  BY <1>1, <1>3, <1>5 DEF OnePlace, InQueue
<1>7. WaitingIsLast'
  <2> SUFFICES ASSUME NEW t \in Tasks, InServer(t)'
               PROVE  t \notin finished /\ t[2] = posts'[t[1]] /\ client'[t[1]] # "idle"
    BY <1>1 DEF WaitingIsLast
  <2>1. CASE t = new
    BY <2>1, <1>1, <1>2 DEF TypeInv
  <2>2. CASE t # new
    <3>1. InServer(t)
      BY <2>2, <1>1, <1>3 DEF InServer, InQueue
    <3>2. t[1] # c
      BY <3>1 DEF WaitingIsLast, Post
    <3> QED
      BY <3>1, <3>2, <2>2, <1>3 DEF WaitingIsLast
  <2> QED
    BY <2>1, <2>2
<1>8. UnpostedIsUnknown'
  BY <1>1, <1>2, <1>3 DEF UnpostedIsUnknown, TypeInv
<1>9. HandlersInStep'
  BY <1>1, <1>2, <1>3, SMTT(30) DEF HandlersInStep, TypeInv, Post
<1>10. ClientsInStep'
  <2> SUFFICES ASSUME NEW d \in Clients
               PROVE  /\ client'[d] = "polling" => handler'[Task(d)'] = "answered" \/ restarts > 0
                      /\ client'[d] \in {"posting", "polling"} =>
                           posts'[d] > 0 /\ loaded[Task(d)'] = 0
                      /\ client'[d] = "raised" => restarts > 0
    BY <1>1 DEF ClientsInStep
  <2>1. CASE d = c
    BY <2>1, <1>1, <1>2 DEF TypeInv, Task, new
  <2>2. CASE d # c
    <3>1. Task(d)' = Task(d) /\ client'[d] = client[d] /\ posts'[d] = posts[d]
      BY <2>2, <1>1 DEF TypeInv, Task
    <3>2. Task(d) # new
      BY <2>2 DEF Task, new
    <3>3. client[d] = "polling" => Task(d) \in Tasks
      BY DEF ClientsInStep, TypeInv, Task
    <3> QED
      BY <3>1, <3>2, <3>3, <1>1, <1>3 DEF ClientsInStep
  <2> QED
    BY <2>1, <2>2
<1>11. DoneIsWritten'
  BY <1>1, <1>2, <1>3 DEF DoneIsWritten, TypeInv
<1>12. LoadsItsOwnResult'
  BY <1>1 DEF LoadsItsOwnResult
<1> QED
  BY <1>4, <1>6, <1>7, <1>8, <1>9, <1>10, <1>11, <1>12

\* The handler of the post puts the task into the queue.
LEMMA EnqueueKeeps == ASSUME IndInv, NEW t \in Tasks, Enqueue(t) PROVE IndInv'
<1> USE TaskIsPair, ServerAssumption DEF IndInv
<1>1. /\ q' = Append(q, t)
      /\ handler' = [handler EXCEPT ![t] = "status"]
      /\ UNCHANGED <<statuses, current, loop, finished, posts, client, output, loaded, restarts>>
      /\ handler[t] = "enqueue"
  BY DEF Enqueue
<1>2. ~InQueue(t) /\ current # t
  BY <1>1 DEF OnePlace
<1>3. /\ \A u \in Tasks : InQueue(u)' <=> (InQueue(u) \/ u = t)
      /\ q' \in Seq(Tasks)
      /\ \A i, j \in 1..Len(q') : q'[i] = q'[j] => i = j
  <2>1. /\ q \in Seq(Tasks) /\ \A i, j \in 1..Len(q) : q[i] = q[j] => i = j
        /\ \A i \in 1..Len(q) : q[i] # t
    BY <1>2 DEF TypeInv, OnePlace, InQueue
  <2>2. /\ Append(q, t) \in Seq(Tasks)
        /\ \A y : (\E i \in 1..Len(Append(q, t)) : Append(q, t)[i] = y)
                    <=> ((\E i \in 1..Len(q) : q[i] = y) \/ y = t)
        /\ \A i, j \in 1..Len(Append(q, t)) : Append(q, t)[i] = Append(q, t)[j] => i = j
    BY ONLY <2>1, AppendAdds, t \in Tasks
  <2> QED
    BY <1>1, <2>2 DEF InQueue
<1>4. TypeInv'
  BY <1>1, <1>3 DEF TypeInv
<1>5. OnePlace'
  <2>1. \A u \in Tasks : InQueue(u)' \/ current = u => handler'[u] \in {"status", "answered"}
    BY <1>1, <1>2, <1>3 DEF OnePlace, TypeInv
  <2>2. \A u \in Tasks : ~(InQueue(u)' /\ current = u)
    BY <1>1, <1>2, <1>3 DEF OnePlace
  <2> QED
    BY <2>1, <2>2, <1>1, <1>3 DEF OnePlace
<1>6. WaitingIsLast'
  BY <1>1, <1>2, <1>3 DEF WaitingIsLast, InServer, TypeInv
<1>7. UnpostedIsUnknown' /\ HandlersInStep'
  BY <1>1 DEF UnpostedIsUnknown, HandlersInStep, TypeInv
<1>8. ClientsInStep' /\ DoneIsWritten' /\ LoadsItsOwnResult'
  BY <1>1, SMTT(30) DEF ClientsInStep, DoneIsWritten, LoadsItsOwnResult, TypeInv, Task
<1> QED
  BY <1>4, <1>5, <1>6, <1>7, <1>8

\* The handler sets the status 'inqueue', when the task may be taken already.
LEMMA SetInqueueKeeps == ASSUME IndInv, NEW t \in Tasks, SetInqueue(t) PROVE IndInv'
<1> USE TaskIsPair, ServerAssumption DEF IndInv
<1>1. /\ handler' = [handler EXCEPT ![t] = "answered"]
      /\ statuses' = [statuses EXCEPT ![t] = "inqueue"]
      /\ client' = [client EXCEPT ![t[1]] = "polling"]
      /\ UNCHANGED <<q, current, loop, finished, posts, output, loaded, restarts>>
      /\ handler[t] = "status"
  BY DEF SetInqueue
<1>2. t[2] = posts[t[1]] /\ client[t[1]] = "posting" /\ t = Task(t[1])
  BY <1>1 DEF HandlersInStep, Task
<1>3. TypeInv'
  BY <1>1 DEF TypeInv, Statuses
<1>4. OnePlace'
  BY <1>1 DEF OnePlace, InQueue, TypeInv
<1>5. WaitingIsLast'
  BY <1>1 DEF WaitingIsLast, InServer, InQueue, TypeInv
<1>6. UnpostedIsUnknown'
  BY <1>1, <1>2 DEF UnpostedIsUnknown, TypeInv
<1>7. HandlersInStep'
  <2> SUFFICES ASSUME NEW u \in Tasks
               PROVE  /\ handler'[u] \in {"enqueue", "status"} =>
                           u[2] = posts[u[1]] /\ client'[u[1]] = "posting"
                      /\ handler'[u] = "answered" => statuses'[u] # "absent"
    BY <1>1 DEF HandlersInStep
  <2>1. CASE u = t
    BY <2>1, <1>1 DEF TypeInv
  <2>2. CASE u # t
    <3>1. u[2] = posts[u[1]] => u[1] # t[1]
      BY <2>2, <1>2
    <3> QED
      BY <3>1, <2>2, <1>1 DEF HandlersInStep, TypeInv
  <2> QED
    BY <2>1, <2>2
<1>8. ClientsInStep'
  BY <1>1, <1>2 DEF ClientsInStep, TypeInv, Task
<1>9. DoneIsWritten' /\ LoadsItsOwnResult'
  BY <1>1 DEF DoneIsWritten, LoadsItsOwnResult, TypeInv
<1> QED
  BY <1>3, <1>4, <1>5, <1>6, <1>7, <1>8, <1>9

\* The daemon takes a task from the queue.
LEMMA GetTaskKeeps == ASSUME IndInv, GetTask PROVE IndInv'
<1> USE TaskIsPair, ServerAssumption DEF IndInv
<1>1. /\ q # << >> /\ loop = "get" /\ current = NoTask
      /\ q' = Tail(q) /\ current' = Head(q) /\ loop' = "begin"
      /\ UNCHANGED <<statuses, handler, finished, posts, client, output, loaded, restarts>>
  BY DEF GetTask, OnePlace
<1>2. /\ q' \in Seq(Tasks) /\ current' \in Tasks /\ InQueue(current')
      /\ \A i, j \in 1..Len(q') : q'[i] = q'[j] => i = j
      /\ \A u \in Tasks : InQueue(u)' <=> (InQueue(u) /\ u # current')
  <2>1. q \in Seq(Tasks) /\ \A i, j \in 1..Len(q) : q[i] = q[j] => i = j
    BY DEF TypeInv, OnePlace
  <2>2. /\ Tail(q) \in Seq(Tasks) /\ Head(q) \in Tasks
        /\ \E i \in 1..Len(q) : q[i] = Head(q)
        /\ \A y : (\E i \in 1..Len(Tail(q)) : Tail(q)[i] = y)
                    <=> ((\E i \in 1..Len(q) : q[i] = y) /\ y # Head(q))
        /\ \A i, j \in 1..Len(Tail(q)) : Tail(q)[i] = Tail(q)[j] => i = j
    BY <1>1, <2>1, TailRemoves, ZenonT(40)
  <2> QED
    BY <1>1, <2>2 DEF InQueue
<1>3. \A u \in Tasks : InServer(u)' <=> InServer(u)
  BY <1>1, <1>2 DEF InServer
<1>4. TypeInv'
  BY <1>1, <1>2 DEF TypeInv
<1>5. OnePlace'
  BY <1>1, <1>2 DEF OnePlace, TypeInv
<1>6. WaitingIsLast'
  BY <1>1, <1>3 DEF WaitingIsLast
<1>7. UnpostedIsUnknown' /\ HandlersInStep' /\ LoadsItsOwnResult'
  BY <1>1 DEF UnpostedIsUnknown, HandlersInStep, LoadsItsOwnResult
<1>8. ClientsInStep' /\ DoneIsWritten'
  BY <1>1 DEF ClientsInStep, DoneIsWritten, Task
<1> QED
  BY <1>4, <1>5, <1>6, <1>7, <1>8

\* It notes that the task is being worked on.
LEMMA BeginTaskKeeps == ASSUME IndInv, BeginTask PROVE IndInv'
<1> USE TaskIsPair, ServerAssumption DEF IndInv
<1>1. /\ loop = "begin" /\ loop' = "work" /\ current \in Tasks
      /\ statuses' = [statuses EXCEPT ![current] = "validating"]
      /\ UNCHANGED <<q, handler, current, finished, posts, client, output, loaded, restarts>>
  BY DEF BeginTask, TypeInv, OnePlace
<1>2. current[2] = posts[current[1]]
  BY <1>1 DEF WaitingIsLast, InServer
<1>3. TypeInv'
  BY <1>1 DEF TypeInv, Statuses
<1>4. OnePlace' /\ WaitingIsLast'
  BY <1>1 DEF OnePlace, WaitingIsLast, InServer, InQueue
<1>5. UnpostedIsUnknown' /\ HandlersInStep'
  BY <1>1, <1>2 DEF UnpostedIsUnknown, HandlersInStep, TypeInv
<1>6. ClientsInStep' /\ DoneIsWritten' /\ LoadsItsOwnResult'
  BY <1>1 DEF ClientsInStep, DoneIsWritten, LoadsItsOwnResult, Task, TypeInv
<1> QED
  BY <1>3, <1>4, <1>5, <1>6

\* The validation and the writing of its output, or a failure of either.
LEMMA WorkKeeps == ASSUME IndInv, Work \/ WriteOutput PROVE IndInv'
<1> USE TaskIsPair, ServerAssumption DEF IndInv
<1>1. /\ loop \in {"work", "write"} /\ current \in Tasks
      /\ \/ output' = [output EXCEPT ![current[1]] = Torn] /\ loop' = "write"
         \/ output' = [output EXCEPT ![current[1]] = current[2]] /\ loop' = "end"
         \/ output' = output /\ loop' = "fail"
      /\ UNCHANGED <<q, statuses, handler, current, finished, posts, client, loaded, restarts>>
  BY DEF Work, WriteOutput, TypeInv, OnePlace
<1>2. current[2] = posts[current[1]] /\ current \notin finished
  BY <1>1 DEF WaitingIsLast, InServer
<1>3. TypeInv'
  <2>1. output' \in [Clients -> Torn..MaxPosts]
    BY <1>1 DEF TypeInv, Torn
  <2> QED
    BY <1>1, <2>1 DEF TypeInv
<1>4. OnePlace' /\ WaitingIsLast'
  BY <1>1 DEF OnePlace, WaitingIsLast, InServer, InQueue
<1>5. UnpostedIsUnknown' /\ HandlersInStep' /\ ClientsInStep' /\ LoadsItsOwnResult'
  BY <1>1 DEF UnpostedIsUnknown, HandlersInStep, ClientsInStep, LoadsItsOwnResult, Task
<1>6. DoneIsWritten'
  <2>1. \A t \in Tasks : t \in finished /\ t[2] = posts[t[1]] => t[1] # current[1]
    BY <1>1, <1>2
  <2>2. \A t \in Tasks : t[1] # current[1] => output'[t[1]] = output[t[1]]
    BY <1>1 DEF TypeInv
  <2>3. loop' = "end" => output'[current[1]] = current[2]
    BY <1>1 DEF TypeInv
  <2> QED
    BY <1>1, <2>1, <2>2, <2>3 DEF DoneIsWritten
<1> QED
  BY <1>3, <1>4, <1>5, <1>6

\* The task ends, done or with an error.
LEMMA EndTaskKeeps == ASSUME IndInv, EndTask PROVE IndInv'
<1> USE TaskIsPair, ServerAssumption DEF IndInv
<1>1. /\ loop \in {"end", "fail"} /\ current \in Tasks
      /\ statuses' = [statuses EXCEPT ![current] = IF loop = "end" THEN "done" ELSE "err"]
      /\ finished' = finished \cup {current}
      /\ current' = NoTask /\ loop' = "get"
      /\ UNCHANGED <<q, handler, posts, client, output, loaded, restarts>>
  BY DEF EndTask, TypeInv, OnePlace
<1>2. current[2] = posts[current[1]] /\ ~InQueue(current) /\ handler[current] # "enqueue"
  BY <1>1 DEF WaitingIsLast, InServer, OnePlace
<1>3. TypeInv'
  BY <1>1 DEF TypeInv, Statuses
<1>4. OnePlace'
  BY <1>1 DEF OnePlace, InQueue
<1>5. WaitingIsLast'
  BY <1>1, <1>2 DEF WaitingIsLast, InServer, InQueue
<1>6. UnpostedIsUnknown' /\ HandlersInStep'
  BY <1>1, <1>2 DEF UnpostedIsUnknown, HandlersInStep, TypeInv
<1>7. ClientsInStep' /\ LoadsItsOwnResult'
  BY <1>1 DEF ClientsInStep, LoadsItsOwnResult, Task
<1>8. DoneIsWritten'
  BY <1>1 DEF DoneIsWritten, TypeInv
<1> QED
  BY <1>3, <1>4, <1>5, <1>6, <1>7, <1>8

\* A client asks, and loads the result when told that it is done.
LEMMA PollKeeps == ASSUME IndInv, NEW c \in Clients, Poll(c) PROVE IndInv'
<1> USE TaskIsPair, ServerAssumption DEF IndInv
<1>1. /\ client[c] = "polling" /\ Task(c) \in Tasks
      /\ Task(c)[1] = c /\ Task(c)[2] = posts[c]
      /\ UNCHANGED <<q, statuses, handler, current, loop, finished, posts, output, restarts>>
  BY DEF Poll, ClientsInStep, TypeInv, Task
<1>2. CASE statuses[Task(c)] = "absent" /\ client' = [client EXCEPT ![c] = "raised"]
           /\ loaded' = loaded
  <2>1. restarts > 0
    BY <1>1, <1>2 DEF ClientsInStep, HandlersInStep
  <2>2. TypeInv' /\ OnePlace'
    BY <1>1, <1>2 DEF TypeInv, OnePlace, InQueue
  <2>3. WaitingIsLast' /\ UnpostedIsUnknown'
    BY <1>1, <1>2 DEF WaitingIsLast, UnpostedIsUnknown, InServer, InQueue, TypeInv
  <2>4. HandlersInStep'
    BY <1>1, <1>2 DEF HandlersInStep, TypeInv
  <2>5. ClientsInStep' /\ DoneIsWritten' /\ LoadsItsOwnResult'
    BY <1>1, <1>2, <2>1 DEF ClientsInStep, DoneIsWritten, LoadsItsOwnResult, TypeInv, Task
  <2> QED
    BY <2>2, <2>3, <2>4, <2>5
<1>3. CASE statuses[Task(c)] = "done" /\ client' = [client EXCEPT ![c] = "idle"]
           /\ loaded' = [loaded EXCEPT ![Task(c)] = output[c]]
  <2>1. Task(c) \in finished /\ output[c] = posts[c]
    BY <1>1, <1>3 DEF DoneIsWritten
  <2>2. \A t \in Tasks : InServer(t) => t[1] # c
    BY <1>1, <2>1 DEF WaitingIsLast
  <2>3. TypeInv' /\ OnePlace'
    BY <1>1, <1>3 DEF TypeInv, OnePlace, InQueue
  <2>4. WaitingIsLast'
    BY <1>1, <1>3, <2>2 DEF WaitingIsLast, InServer, InQueue, TypeInv
  <2>5. UnpostedIsUnknown' /\ HandlersInStep'
    BY <1>1, <1>3 DEF UnpostedIsUnknown, HandlersInStep, TypeInv
  <2>6. ClientsInStep'
    BY <1>1, <1>3 DEF ClientsInStep, TypeInv, Task
  <2>7. DoneIsWritten' /\ LoadsItsOwnResult'
    BY <1>1, <1>3, <2>1 DEF DoneIsWritten, LoadsItsOwnResult, TypeInv
  <2> QED
    BY <2>3, <2>4, <2>5, <2>6, <2>7
<1> QED
  BY <1>2, <1>3 DEF Poll

\* A restart, which takes queue, statuses and the daemon's task with it.
LEMMA RestartKeeps == ASSUME IndInv, Restart PROVE IndInv'
<1> USE TaskIsPair, ServerAssumption DEF IndInv
<1>1. /\ q' = << >> /\ current' = NoTask /\ loop' = "get" /\ restarts' = restarts + 1
      /\ statuses' = [t \in Tasks |-> "absent"] /\ handler' = [t \in Tasks |-> "none"]
      /\ UNCHANGED <<finished, posts, output, loaded>>
      /\ restarts' > 0 /\ restarts' \in 0..MaxRestarts
  BY DEF Restart, TypeInv
<1>2. /\ client' \in [Clients -> {"idle", "posting", "polling", "raised"}]
      /\ \A c \in Clients : client'[c] = "raised" \/ (client'[c] = client[c]
                                                      /\ client[c] # "posting")
  BY DEF Restart, TypeInv
<1>3. \A t \in Tasks : ~InServer(t)'
  BY <1>1 DEF InServer, InQueue
<1>4. TypeInv'
  BY <1>1, <1>2 DEF TypeInv, Statuses
<1>5. OnePlace' /\ WaitingIsLast'
  BY <1>1, <1>3 DEF OnePlace, WaitingIsLast, InServer
<1>6. UnpostedIsUnknown' /\ HandlersInStep' /\ DoneIsWritten' /\ LoadsItsOwnResult'
  BY <1>1 DEF UnpostedIsUnknown, HandlersInStep, DoneIsWritten, LoadsItsOwnResult
<1>7. ClientsInStep'
  BY <1>1, <1>2 DEF ClientsInStep, Task
<1> QED
  BY <1>4, <1>5, <1>6, <1>7

\* A step that changes nothing.
LEMMA StutterKeeps == ASSUME IndInv, UNCHANGED vars PROVE IndInv'
BY DEF vars, IndInv, TypeInv, OnePlace, WaitingIsLast, UnpostedIsUnknown, HandlersInStep,
       ClientsInStep, DoneIsWritten, LoadsItsOwnResult, InServer, InQueue, Task

\* Every step keeps the invariant.
LEMMA NextKeeps == IndInv /\ [Next]_vars => IndInv'
BY PostKeeps, EnqueueKeeps, SetInqueueKeeps, GetTaskKeeps, BeginTaskKeeps, WorkKeeps,
   EndTaskKeeps, PollKeeps, RestartKeeps, StutterKeeps
DEF Next, Server, Settled

\* The inductive invariant holds throughout.
LEMMA Invariance == Spec => []IndInv
BY InitHolds, NextKeeps, PTL DEF Spec

-----------------------------------------------------------------------------
(***************************************************************************)
(* The theorems.                                                           *)
(***************************************************************************)

\* The types of the server and its clients, for every number of clients, posts
\* and restarts.
THEOREM TypeCorrect == Spec => []TypeInv
<1>1. IndInv => TypeInv
  BY DEF IndInv
<1> QED
  BY <1>1, Invariance, PTL

\* What a client is told is true: 'done' means that the file at the shared path
\* is that of its own task, 'unknown' that the server was restarted.
THEOREM ClientsAreToldTheTruth == Spec => []ToldTheTruth
<1>1. IndInv => ToldTheTruth
  BY DEF IndInv, ToldTheTruth, UnknownOnlyAfterRestart, ClientsInStep
<1> QED
  BY <1>1, Invariance, PTL

-----------------------------------------------------------------------------
(***************************************************************************)
(* The server implements TaskService.                                      *)
(***************************************************************************)
\* The stage of a task, by the place it is at.
Staged(t) ==
  /\ InServer(t) => Stage(t) = "waiting"
  /\ t \in finished => Stage(t) = "handled"
  /\ posts[t[1]] < t[2] => Stage(t) = "new"
  /\ ~InServer(t) /\ t \notin finished /\ ~(posts[t[1]] < t[2]) => Stage(t) = "lost"

\* Every task is at one stage of its way through the server.
LEMMA AllStaged == IndInv => \A t \in Tasks : Staged(t)
<1> SUFFICES ASSUME IndInv, NEW t \in Tasks PROVE Staged(t)
  OBVIOUS
<1>1. InServer(t) => t \notin finished
  BY DEF IndInv, WaitingIsLast
<1>2. posts[t[1]] < t[2] => t \notin finished /\ ~InServer(t)
  BY TaskIsPair DEF IndInv, UnpostedIsUnknown, WaitingIsLast, TypeInv
<1> QED
  BY <1>1, <1>2 DEF Stage, Staged

\* A step that leaves the places of all tasks and the results leaves the service.
LEMMA SamePlaces ==
  ASSUME \A t \in Tasks : InServer(t)' <=> InServer(t), UNCHANGED <<finished, posts, loaded>>
  PROVE  UNCHANGED Service!vars
<1>1. \A t \in Tasks : Stage(t)' = Stage(t)
  BY DEF Stage
<1> QED
  BY <1>1 DEF Service!vars

\* The stages change in one task.
LEMMA OneMoves ==
  ASSUME NEW t \in Tasks, NEW from, NEW to, Stage(t) = from, Stage(t)' = to,
         \A u \in Tasks : u # t => Stage(u)' = Stage(u)
  PROVE  Service!MoveTo(t, from, to)
BY DEF Service!MoveTo

\* A post is an acceptance.
LEMMA PostAccepts ==
  ASSUME IndInv, IndInv', NEW c \in Clients, Post(c)
  PROVE  \E t \in Tasks : Service!Accept(t)
<1>1. PICK n \in 1..MaxPosts : n = posts[c] + 1
  BY ServerAssumption DEF IndInv, TypeInv, Post
<1>2. PICK t \in Tasks : t = <<c, n>> /\ t[1] = c /\ t[2] = n
  BY <1>1, TaskIsPair
<1>3. /\ posts' = [posts EXCEPT ![c] = n] /\ posts'[c] = n
      /\ handler' = [handler EXCEPT ![t] = "enqueue"]
      /\ UNCHANGED <<q, current, finished, loaded>>
  BY <1>1, <1>2 DEF IndInv, TypeInv, Post
<1>4. Stage(t) = "new"
  BY <1>1, <1>2, AllStaged, SMTT(30) DEF Staged, IndInv, TypeInv
<1>5. Stage(t)' = "waiting"
  <2>1. InServer(t)'
    BY <1>3 DEF InServer, IndInv, TypeInv
  <2>2. t \notin finished'
    BY <2>1 DEF IndInv, WaitingIsLast
  <2> QED
    BY <2>1, <2>2 DEF Stage
<1>6. ASSUME NEW u \in Tasks, u # t PROVE Stage(u)' = Stage(u)
  <2>1. InServer(u)' <=> InServer(u)
    BY <1>3, <1>6 DEF InServer, InQueue, IndInv, TypeInv
  <2>2. posts'[u[1]] < u[2] <=> posts[u[1]] < u[2]
    <3>1. CASE u[1] = c
      <4>1. u[2] # n /\ u[2] \in 1..MaxPosts
        BY <3>1, <1>2, <1>6, TaskIsPair
      <4> QED
        BY <4>1, <3>1, <1>1, <1>3 DEF IndInv, TypeInv
    <3>2. CASE u[1] # c
      BY <3>2, <1>3, TaskIsPair DEF IndInv, TypeInv
    <3> QED
      BY <3>1, <3>2
  <2> QED
    BY <2>1, <2>2, <1>3 DEF Stage
<1>7. Service!MoveTo(t, "new", "waiting")
  BY <1>4, <1>5, <1>6, OneMoves
<1> QED
  BY <1>3, <1>7 DEF Service!Accept

\* The end of a task is its handling.
LEMMA EndTaskHandles ==
  ASSUME IndInv, IndInv', EndTask
  PROVE  \E t \in Tasks : Service!Handle(t)
<1>1. PICK t \in Tasks : t = current
  BY DEF EndTask, IndInv, TypeInv, OnePlace
<1>2. /\ current' = NoTask /\ finished' = finished \cup {t}
      /\ UNCHANGED <<q, handler, posts, loaded>>
  BY <1>1 DEF EndTask
<1>3. Stage(t) = "waiting"
  BY <1>1, AllStaged DEF InServer, Staged
<1>4. Stage(t)' = "handled"
  <2>1. t \in finished'
    BY <1>2
  <2>2. ~InServer(t)'
    BY <2>1 DEF IndInv, WaitingIsLast
  <2> QED
    BY <2>1, <2>2 DEF Stage
<1>5. ASSUME NEW u \in Tasks, u # t PROVE Stage(u)' = Stage(u)
  BY <1>1, <1>2, <1>5, TaskIsPair DEF Stage, InServer, InQueue
<1>6. Service!MoveTo(t, "waiting", "handled")
  BY <1>3, <1>4, <1>5, OneMoves
<1> QED
  BY <1>2, <1>6 DEF Service!Handle

\* A poll that finds the task done is a delivery, any other one a stutter.
LEMMA PollGets ==
  ASSUME IndInv, NEW c \in Clients, Poll(c)
  PROVE  (\E t \in Tasks : Service!Get(t)) \/ UNCHANGED Service!vars
<1>1. /\ Task(c) \in Tasks /\ Task(c)[2] = posts[c] /\ loaded[Task(c)] = 0 /\ Task(c)[1] = c
      /\ UNCHANGED <<q, handler, current, finished, posts>>
  BY TaskIsPair DEF Poll, IndInv, TypeInv, ClientsInStep, Task
<1>2. \A t \in Tasks : Stage(t)' = Stage(t)
  BY <1>1 DEF Stage, InServer, InQueue
<1>3. CASE statuses[Task(c)] = "absent" /\ loaded' = loaded
  BY <1>2, <1>3 DEF Service!vars
<1>4. CASE statuses[Task(c)] = "done" /\ loaded' = [loaded EXCEPT ![Task(c)] = output[c]]
  <2>1. Task(c) \in finished /\ output[c] # 0
    BY <1>1, <1>4, TaskIsPair DEF IndInv, DoneIsWritten
  <2>2. Stage(Task(c)) = "handled"
    BY <1>1, <2>1, AllStaged DEF Staged
  <2>3. { t \in Tasks : loaded'[t] # 0 } = { t \in Tasks : loaded[t] # 0 } \cup {Task(c)}
    BY <1>1, <1>4, <2>1 DEF IndInv, TypeInv
  <2> QED
    BY <1>1, <1>2, <2>2, <2>3 DEF Service!Get
<1> QED
  BY <1>3, <1>4 DEF Poll

\* A restart loses what was not handled.
LEMMA RestartLoses ==
  ASSUME IndInv, Restart
  PROVE  Service!LoseAll
<1>1. /\ UNCHANGED <<finished, posts, loaded>>
      /\ \A t \in Tasks : ~InServer(t)'
  BY DEF Restart, InServer, InQueue, NoTask, Tasks
<1>2. ASSUME NEW t \in Tasks
      PROVE  Stage(t)' = IF Stage(t) = "waiting" THEN "lost" ELSE Stage(t)
  BY <1>1, AllStaged DEF Stage, Staged
<1> QED
  BY <1>1, <1>2 DEF Service!LoseAll

\* Every step of the server is one of TaskService, or a stutter.
LEMMA StepsRefine == IndInv /\ IndInv' /\ [Next]_vars => [Service!Next]_(Service!vars)
<1> SUFFICES ASSUME IndInv, IndInv', [Next]_vars
             PROVE  [Service!Next]_(Service!vars)
  OBVIOUS
<1>1. ASSUME NEW c \in Clients, Post(c) \/ Poll(c) PROVE [Service!Next]_(Service!vars)
  BY <1>1, PostAccepts, PollGets DEF Service!Next
<1>2. ASSUME NEW t \in Tasks, Enqueue(t) \/ SetInqueue(t) PROVE UNCHANGED Service!vars
  <2>1. CASE Enqueue(t)
    <3>1. \A u \in Tasks : InQueue(u)' <=> (InQueue(u) \/ u = t)
      <4>1. /\ q \in Seq(Tasks) /\ \A i, j \in 1..Len(q) : q[i] = q[j] => i = j
            /\ \A i \in 1..Len(q) : q[i] # t
        BY <2>1 DEF IndInv, TypeInv, OnePlace, InQueue, Enqueue
      <4>2. \A y : (\E i \in 1..Len(Append(q, t)) : Append(q, t)[i] = y)
                     <=> ((\E i \in 1..Len(q) : q[i] = y) \/ y = t)
        BY ONLY <4>1, AppendAdds, t \in Tasks
      <4> QED
        BY <2>1, <4>2 DEF InQueue, Enqueue
    <3>2. \A u \in Tasks : InServer(u)' <=> InServer(u)
      BY <2>1, <3>1 DEF Enqueue, InServer, IndInv, TypeInv
    <3> QED
      BY <2>1, <3>2, SamePlaces DEF Enqueue
  <2>2. CASE SetInqueue(t)
    <3>1. \A u \in Tasks : InServer(u)' <=> InServer(u)
      BY <2>2 DEF SetInqueue, InServer, InQueue, IndInv, TypeInv
    <3> QED
      BY <2>2, <3>1, SamePlaces DEF SetInqueue
  <2> QED
    BY <1>2, <2>1, <2>2
<1>3. CASE GetTask
  <2>1. q \in Seq(Tasks) /\ q # << >> /\ \A i, j \in 1..Len(q) : q[i] = q[j] => i = j
    BY <1>3 DEF IndInv, TypeInv, OnePlace, GetTask
  <2>2. /\ Head(q) \in Tasks /\ \E i \in 1..Len(q) : q[i] = Head(q)
        /\ \A y : (\E i \in 1..Len(Tail(q)) : Tail(q)[i] = y)
                    <=> ((\E i \in 1..Len(q) : q[i] = y) /\ y # Head(q))
    BY ONLY <2>1, TailRemoves
  <2>3. \A u \in Tasks : InQueue(u)' <=> (InQueue(u) /\ u # current')
    BY <1>3, <2>2 DEF GetTask, InQueue
  <2>4. current = NoTask /\ InQueue(current') /\ UNCHANGED handler
    BY <1>3, <2>2 DEF GetTask, InQueue, IndInv, OnePlace
  <2>5. \A u \in Tasks : InServer(u)' <=> InServer(u)
    BY <2>3, <2>4, TaskIsPair DEF InServer
  <2> QED
    BY <1>3, <2>5, SamePlaces DEF GetTask
<1>4. CASE BeginTask \/ Work \/ WriteOutput
  <2>1. \A u \in Tasks : InServer(u)' <=> InServer(u)
    BY <1>4 DEF BeginTask, Work, WriteOutput, InServer, InQueue
  <2> QED
    BY <1>4, <2>1, SamePlaces DEF BeginTask, Work, WriteOutput
<1>5. CASE EndTask
  BY <1>5, EndTaskHandles DEF Service!Next
<1>6. CASE Restart
  BY <1>6, RestartLoses DEF Service!Next
<1>7. CASE UNCHANGED vars
  <2>1. \A u \in Tasks : InServer(u)' <=> InServer(u)
    BY <1>7 DEF vars, InServer, InQueue
  <2> QED
    BY <1>7, <2>1, SamePlaces DEF vars
<1> QED
  BY <1>1, <1>2, <1>3, <1>4, <1>5, <1>6, <1>7 DEF Next, Server, Settled

\* The server begins as TaskService does.
LEMMA InitRefines == Init => Service!Init
<1> SUFFICES ASSUME Init PROVE Service!Init
  OBVIOUS
<1>1. \A t \in Tasks : Stage(t) = "new" /\ loaded[t] = 0
  BY TaskIsPair DEF Init, Stage, InServer, InQueue
<1> QED
  BY <1>1 DEF Service!Init

\* The server implements TaskService: every task is handled once or goes down
\* with the server, and a result is got once, and only for a handled task.
THEOREM Refinement == Spec => ImplementsTaskService
BY InitRefines, StepsRefine, Invariance, PTL DEF Spec, ImplementsTaskService, Service!Spec

-----------------------------------------------------------------------------
(***************************************************************************)
(* Why a posted task is handled, as far as the server goes: it only moves  *)
(* forward, from the handler to the queue, through it, and to the loop.    *)
(***************************************************************************)
NobodyIsPassedOver ==
  [][ restarts' = restarts =>
        \A t \in Tasks :
          /\ handler[t] = "enqueue" => handler'[t] = "enqueue" \/ InQueue(t)'
          /\ \A i \in 1..Len(q) : q[i] = t =>
               \/ i \in 1..Len(q') /\ q'[i] = t
               \/ i - 1 \in 1..Len(q') /\ q'[i - 1] = t
               \/ i = 1 /\ current' = t
          /\ current = t => current' = t \/ t \in finished' ]_vars

\* Unless the server goes down, no step takes a posted task back, lets another
\* one pass it in the queue, or drops it: it leaves the handler for the queue,
\* the queue from its front for the loop, and the loop when it was handled.
THEOREM PostedMovesOn == Spec => NobodyIsPassedOver
<1> DEFINE Forward(t) ==
             /\ handler[t] = "enqueue" => handler'[t] = "enqueue" \/ InQueue(t)'
             /\ \A i \in 1..Len(q) : q[i] = t =>
                  \/ i \in 1..Len(q') /\ q'[i] = t
                  \/ i - 1 \in 1..Len(q') /\ q'[i - 1] = t
                  \/ i = 1 /\ current' = t
             /\ current = t => current' = t \/ t \in finished'
<1>1. ASSUME IndInv, [Next]_vars, restarts' = restarts, NEW t \in Tasks
      PROVE  Forward(t)
  <2>1. /\ q \in Seq(Tasks) /\ Len(q) \in Nat /\ restarts \in Nat
        /\ handler \in [Tasks -> {"none", "enqueue", "status", "answered"}]
    BY <1>1, ServerAssumption DEF IndInv, TypeInv
  <2>2. CASE \E c \in Clients : Post(c)
    BY <2>1, <2>2 DEF Post
  <2>3. CASE \E u \in Tasks : Enqueue(u)
    <3>1. PICK u \in Tasks : Enqueue(u)
      BY <2>3
    <3>2. /\ q' = Append(q, u) /\ handler' = [handler EXCEPT ![u] = "status"]
          /\ UNCHANGED current
      BY <3>1 DEF Enqueue
    <3>3. Len(q') = Len(q) + 1 /\ q'[Len(q) + 1] = u /\ \A i \in 1..Len(q) : q'[i] = q[i]
      BY <2>1, <3>2
    <3>4. handler[t] = "enqueue" => handler'[t] = "enqueue" \/ InQueue(t)'
      <4>1. CASE t = u
        <5>1. Len(q) + 1 \in 1..Len(q')
          BY <2>1, <3>3
        <5> QED
          BY <4>1, <5>1, <3>3 DEF InQueue
      <4>2. CASE t # u
        BY <4>2, <3>2, <2>1
      <4> QED
        BY <4>1, <4>2
    <3> QED
      BY <2>1, <3>2, <3>3, <3>4
  <2>4. CASE GetTask
    <3>1. /\ q # << >> /\ q' = Tail(q) /\ current' = Head(q) /\ loop = "get"
          /\ UNCHANGED handler
      BY <2>4 DEF GetTask
    <3>2. Len(q') = Len(q) - 1 /\ current' = q[1] /\ \A i \in 1..(Len(q) - 1) : q'[i] = q[i + 1]
      BY <2>1, <3>1
    <3>3. current = NoTask /\ t # NoTask
      BY <3>1, <1>1, TaskIsPair DEF IndInv, OnePlace
    <3>4. ASSUME NEW i \in 1..Len(q), q[i] = t, i # 1
          PROVE  i - 1 \in 1..Len(q') /\ q'[i - 1] = t
      BY <3>4, <2>1, <3>2
    <3> QED
      BY <3>1, <3>2, <3>3, <3>4
  <2>5. CASE EndTask
    BY <2>1, <2>5 DEF EndTask
  <2>6. CASE /\ UNCHANGED <<q, current>>
             /\ handler[t] = "enqueue" => handler'[t] = "enqueue"
    BY <2>1, <2>6
  <2>7. CASE \E c \in Clients, u \in Tasks : Poll(c) \/ SetInqueue(u)
    BY <2>1, <2>6, <2>7 DEF Poll, SetInqueue
  <2>8. CASE BeginTask \/ Work \/ WriteOutput \/ UNCHANGED vars
    BY <2>6, <2>8 DEF BeginTask, Work, WriteOutput, vars
  <2>9. ~Restart
    BY <1>1, <2>1 DEF Restart
  <2> QED
    BY <1>1, <2>2, <2>3, <2>4, <2>5, <2>7, <2>8, <2>9, TaskIsPair DEF Next, Server, Settled
<1>2. IndInv /\ [Next]_vars => [restarts' = restarts => \A t \in Tasks : Forward(t)]_vars
  BY <1>1
<1> QED
  BY <1>2, Invariance, PTL DEF Spec, NobodyIsPassedOver
=============================================================================
