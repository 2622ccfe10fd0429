----------------------------- MODULE HandleProofs -----------------------------
(***************************************************************************)
(* Every connection handle has one thread, and its events are its own: for *)
(* any number of handlers, clients and descriptors.  The inductive         *)
(* invariant is HandleInv.                                                 *)
(***************************************************************************)
EXTENDS ConnectionHandles, TLAPS

USE ZenonT(30)

Net(c) == <<c, "network">>
Work(c) == <<c, "workpool">>
Event == {Net(c) : c \in Clients} \cup {Work(c) : c \in Clients}
Places == {"loop", "adopt", "manual", "register", "network", "workpool"}
Handle == [handler : Handlers \cup {-1}, network : Event \cup {NoEvent}, workpool : Event \cup {NoEvent}]

HandleType ==
    /\ fdOf \in [Clients -> Fds \cup {0}] /\ closed \in SUBSET Clients
    /\ accepted = <<>> \/ accepted \in Clients \X Handlers \X {"notify", "activate"}
    /\ nextHandler \in Handlers
    /\ jobs \in [Handlers -> Seq(Clients)] /\ handle \in [Fds -> Handle]
    /\ events \in [Handlers -> SUBSET Event]
    /\ handlerAt \in [Handlers -> Places] /\ current \in [Handlers -> Clients \cup {Nobody}]

\* A connection holds its descriptor while it is open and until its handler has unregistered
\* its events; no two connections hold the same one.
Closing(h) == handlerAt[h] \in {"network", "workpool"}
Holds(c) == fdOf[c] # 0 /\ (c \notin closed \/ \E h \in Handlers : Closing(h) /\ current[h] = c)
FdInv ==
    /\ \A c \in closed : fdOf[c] # 0
    /\ \A c, d \in Clients : Holds(c) /\ Holds(d) /\ fdOf[c] = fdOf[d] => c = d

\* A connection that waits for its handler waits once, and has no events before its turn.
Fresh(c) == fdOf[c] # 0 /\ c \notin closed /\ \A k \in Handlers : Net(c) \notin events[k]
JobsOnce ==
    \A h, k \in Handlers : \A i \in 1 .. Len(jobs[h]), j \in 1 .. Len(jobs[k]) :
        jobs[h][i] = jobs[k][j] => h = k /\ i = j
JobsFresh ==
    \A h \in Handlers : \A i \in 1 .. Len(jobs[h]) :
        /\ Fresh(jobs[h][i])
        /\ \A k \in Handlers : Work(jobs[h][i]) \in events[k] => k = h /\ i = 1 /\ handlerAt[h] = "register"
AcceptedFresh ==
    accepted # <<>> /\ accepted[3] = "notify" =>
        /\ Fresh(accepted[1]) /\ \A k \in Handlers : Work(accepted[1]) \notin events[k]
        /\ \A h \in Handlers : \A i \in 1 .. Len(jobs[h]) : jobs[h][i] # accepted[1]
JobInv == JobsOnce /\ JobsFresh /\ AcceptedFresh

\* What a handler's thread is working on.
PlaceOf(h) ==
    /\ handlerAt[h] \in {"loop", "adopt"} => current[h] = Nobody
    /\ handlerAt[h] \in {"adopt", "manual", "register"} => jobs[h] # <<>>
    /\ handlerAt[h] \in {"manual", "register"} =>
        current[h] = Head(jobs[h]) /\ handle[fdOf[current[h]]].handler = h
    /\ handlerAt[h] = "register" => Work(current[h]) \in events[h]
    /\ Closing(h) =>
        /\ current[h] \in closed /\ Work(current[h]) \in events[h]
        /\ handlerAt[h] = "network" <=> Net(current[h]) \in events[h]
PlaceInv == \A h \in Handlers : PlaceOf(h)

\* An event belongs to the handler that its connection's handle names, which names the event.
NetInv ==
    \A h \in Handlers, c \in Clients :
        Net(c) \in events[h] => Work(c) \in events[h] /\ handle[fdOf[c]].network = Net(c)
WorkOf(h, c) ==
    /\ fdOf[c] # 0 /\ handle[fdOf[c]].handler = h /\ handle[fdOf[c]].workpool = Work(c)
    /\ Net(c) \in events[h] \/ (current[h] = c /\ handlerAt[h] \in {"register", "workpool"})
    /\ c \in closed => current[h] = c /\ Closing(h)
WorkInv == \A h \in Handlers, c \in Clients : Work(c) \in events[h] => WorkOf(h, c)
EventInv == NetInv /\ WorkInv

HandleInv == HandleType /\ FdInv /\ JobInv /\ PlaceInv /\ EventInv

LEMMA EventNames ==
    \A c, d : /\ Net(c) = Net(d) => c = d
              /\ Work(c) = Work(d) => c = d
              /\ Net(c) # Work(d)
              /\ Net(c)[1] = c /\ Work(c)[1] = c
  BY SMTT(30) DEF Net, Work

LEMMA HandlerNumbers ==
    /\ Nobody \notin Clients /\ \A f \in Fds : f # 0
    /\ \A h \in Handlers : (h + 1) % NumHandlers \in Handlers
    /\ 0 \in Handlers
  BY HAssumption, SMTT(30) DEF Handlers, Nobody

LEMMA JobElements ==
    ASSUME HandleType, NEW h \in Handlers
    PROVE  /\ jobs[h] \in Seq(Clients)
           /\ \A i \in 1 .. Len(jobs[h]) : jobs[h][i] \in Clients
           /\ jobs[h] # <<>> => /\ 1 \in 1 .. Len(jobs[h]) /\ Head(jobs[h]) = jobs[h][1] /\ Head(jobs[h]) \in Clients
<1>1. jobs[h] \in Seq(Clients)
  BY DEF HandleType
<1> QED BY <1>1, SMTT(30)

LEMMA HandleInitInv == HInit => HandleInv
<1> SUFFICES ASSUME HInit PROVE HandleInv
  OBVIOUS
<1>1. <<>> \in Seq(Clients) /\ 1 .. Len(<<>>) = {}
  BY SMTT(30)
<1>2. NoHandle \in Handle
  BY DEF NoHandle, Handle
<1>3. HandleType
  BY <1>1, <1>2, HandlerNumbers DEF HInit, HandleType, Places
<1>4. FdInv
  BY DEF HInit, FdInv, Holds
<1>5. JobInv
  BY <1>1 DEF HInit, JobInv, JobsOnce, JobsFresh, AcceptedFresh
<1>6. PlaceInv
  BY DEF HInit, PlaceInv, PlaceOf, Closing
<1>7. EventInv
  BY DEF HInit, EventInv, NetInv, WorkInv, WorkOf
<1> QED BY <1>3, <1>4, <1>5, <1>6, <1>7 DEF HandleInv

\* A client is accepted: its descriptor is nobody's.
LEMMA HandleAccept ==
    ASSUME ~PromptReuse, HandleInv, NEW c \in Clients, DispatchConnection(c)
    PROVE  HandleInv'
<1> USE DEF HandleInv
<1>1. PICK f \in Fds : /\ f \notin FdsInUse /\ f \notin Unregistering
                       /\ fdOf' = [fdOf EXCEPT ![c] = f]
  BY DEF DispatchConnection
<1>2. /\ fdOf[c] = 0 /\ accepted' = <<c, nextHandler, "notify">> /\ nextHandler' = (nextHandler + 1) % NumHandlers
      /\ closed' = closed /\ jobs' = jobs /\ handle' = handle /\ events' = events
      /\ handlerAt' = handlerAt /\ current' = current
  BY DEF DispatchConnection
<1>3. /\ fdOf' \in [Clients -> Fds \cup {0}] /\ fdOf'[c] = f /\ f # 0
      /\ \A d \in Clients : d # c => fdOf'[d] = fdOf[d]
  BY <1>1, HandlerNumbers DEF HandleType
<1>4. accepted' \in Clients \X Handlers \X {"notify", "activate"} /\ accepted'[1] = c
  BY <1>2, SMTT(30) DEF HandleType
<1>5. HandleType'
  BY <1>2, <1>3, <1>4, HandlerNumbers DEF HandleType
<1>6. c \notin closed
  BY <1>2 DEF FdInv
<1>7. \A d \in Clients : d # c /\ Holds(d)' => Holds(d) /\ fdOf[d] # f
  <2> SUFFICES ASSUME NEW d \in Clients, d # c, Holds(d)' PROVE Holds(d) /\ fdOf[d] # f
    OBVIOUS
  <2>1. Holds(d)
    BY <1>2, <1>3 DEF Holds, Closing
  <2>2. d \notin closed => fdOf[d] \in FdsInUse
    BY <2>1 DEF Holds, FdsInUse
  <2>3. ASSUME NEW h \in Handlers, Closing(h), current[h] = d PROVE fdOf[d] \in Unregistering
    BY <2>3 DEF Closing, Unregistering
  <2> QED BY <1>1, <2>1, <2>2, <2>3 DEF Holds
<1>8. FdInv'
  <2>1. \A d, e \in Clients : d # c /\ e # c /\ Holds(d)' /\ Holds(e)' /\ fdOf'[d] = fdOf'[e] => d = e
    BY <1>3, <1>7 DEF FdInv
  <2>2. \A d \in Clients : d # c /\ Holds(d)' => fdOf'[d] # fdOf'[c]
    BY <1>3, <1>7
  <2>3. \A d \in closed : fdOf'[d] # 0
    BY <1>3, <1>6 DEF FdInv, HandleType
  <2> QED BY <1>2, <2>1, <2>2, <2>3 DEF FdInv
<1>9. \A k \in Handlers : Net(c) \notin events[k] /\ Work(c) \notin events[k]
  BY <1>2 DEF EventInv, NetInv, WorkInv, WorkOf
<1>10. ASSUME NEW h \in Handlers, NEW i \in 1 .. Len(jobs[h]) PROVE jobs[h][i] # c /\ Fresh(jobs[h][i])'
  <2>1. Fresh(jobs[h][i]) /\ jobs[h][i] \in Clients
    BY JobElements DEF JobInv, JobsFresh
  <2> QED BY <1>2, <1>3, <2>1 DEF Fresh
<1>11. JobInv'
  <2>1. Fresh(accepted[1])'
    BY <1>2, <1>3, <1>4, <1>6, <1>9 DEF Fresh
  <2>2. AcceptedFresh'
    BY <1>2, <1>4, <1>9, <1>10, <2>1 DEF AcceptedFresh
  <2>3. JobsFresh'
    BY <1>2, <1>10 DEF JobInv, JobsFresh
  <2> QED BY <1>2, <2>2, <2>3, SMTT(30) DEF JobInv, JobsOnce
<1>12. PlaceInv'
  <2> SUFFICES ASSUME NEW h \in Handlers, handlerAt[h] \in {"manual", "register"}
               PROVE  handle[fdOf'[current[h]]].handler = h
    BY <1>2 DEF PlaceInv, PlaceOf, Closing
  <2>1. current[h] = Head(jobs[h]) /\ jobs[h] # <<>> /\ handle[fdOf[current[h]]].handler = h
    BY DEF PlaceInv, PlaceOf
  <2>2. current[h] # c /\ current[h] \in Clients
    BY <1>10, <2>1, JobElements
  <2> QED BY <1>3, <2>1, <2>2
<1>13. EventInv'
  <2>1. ASSUME NEW h \in Handlers, NEW d \in Clients, Net(d) \in events[h] \/ Work(d) \in events[h]
        PROVE  fdOf'[d] = fdOf[d]
    BY <1>3, <1>9, <2>1
  <2>2. NetInv'
    BY <1>2, <2>1 DEF EventInv, NetInv
  <2>3. WorkInv'
    BY <1>2, <2>1, SMTT(30) DEF EventInv, WorkInv, WorkOf, Closing
  <2> QED BY <2>2, <2>3 DEF EventInv
<1> QED BY <1>5, <1>8, <1>11, <1>12, <1>13

\* The dispatcher's part is done.
LEMMA HandleActivate ==
    ASSUME HandleInv, ActivateNotifyEvent
    PROVE  HandleInv'
<1>1. /\ accepted' = <<>> /\ nextHandler' = nextHandler /\ fdOf' = fdOf
      /\ closed' = closed /\ jobs' = jobs /\ handle' = handle /\ events' = events
      /\ handlerAt' = handlerAt /\ current' = current
  BY DEF ActivateNotifyEvent
<1>2. HandleType' /\ JobInv'
  BY <1>1, SMTT(30) DEF HandleInv, HandleType, JobInv, JobsOnce, JobsFresh, AcceptedFresh, Fresh
<1>3. FdInv' /\ EventInv'
  BY <1>1, SMTT(30) DEF HandleInv, FdInv, Holds, EventInv, NetInv, WorkInv, WorkOf, Closing
<1>4. PlaceInv'
  BY <1>1 DEF HandleInv, PlaceInv, PlaceOf, Closing
<1> QED BY <1>2, <1>3, <1>4 DEF HandleInv

\* The client is in the list of one handler.
LEMMA HandleNotify ==
    ASSUME HandleInv, Notify
    PROVE  HandleInv'
<1> USE DEF HandleInv
<1> DEFINE c == accepted[1]
           h == accepted[2]
<1>1. accepted # <<>> /\ accepted \in Clients \X Handlers \X {"notify", "activate"}
  BY DEF Notify, HandleType
<1>2. /\ accepted[3] = "notify" /\ handlerAt[h] \notin {"adopt", "manual", "register"}
      /\ jobs' = [jobs EXCEPT ![h] = Append(@, c)] /\ accepted' = [accepted EXCEPT ![3] = "activate"]
      /\ nextHandler' = nextHandler /\ fdOf' = fdOf /\ closed' = closed /\ handle' = handle /\ events' = events
      /\ handlerAt' = handlerAt /\ current' = current
  BY DEF Notify
<1>3. c \in Clients /\ h \in Handlers
  BY <1>1, SMTT(30)
<1>4. accepted' \in Clients \X Handlers \X {"notify", "activate"} /\ accepted'[3] = "activate"
  BY <1>1, <1>2, SMTT(30)
<1> HIDE DEF c, h
<1>5. jobs[h] \in Seq(Clients) /\ jobs \in [Handlers -> Seq(Clients)]
  BY <1>3 DEF HandleType
<1>6. /\ Append(jobs[h], c) \in Seq(Clients) /\ Len(Append(jobs[h], c)) = Len(jobs[h]) + 1
      /\ \A i \in 1 .. Len(jobs[h]) + 1 :
            \/ i \in 1 .. Len(jobs[h]) /\ Append(jobs[h], c)[i] = jobs[h][i]
            \/ i = Len(jobs[h]) + 1 /\ Append(jobs[h], c)[i] = c
  BY <1>3, <1>5, SMTT(30)
<1>7. /\ jobs' \in [Handlers -> Seq(Clients)] /\ jobs'[h] = Append(jobs[h], c)
      /\ \A k \in Handlers : k # h => jobs'[k] = jobs[k]
  BY <1>2, <1>3, <1>5, <1>6
<1>8. HandleType'
  BY <1>2, <1>4, <1>7 DEF HandleType
<1>9. FdInv'
  BY <1>2 DEF FdInv, Holds, Closing
<1>10. \A k \in Handlers : \A i \in 1 .. Len(jobs'[k]) :
         \/ i \in 1 .. Len(jobs[k]) /\ jobs'[k][i] = jobs[k][i]
         \/ k = h /\ i = Len(jobs[h]) + 1 /\ jobs'[k][i] = c
  BY <1>6, <1>7
<1>11. /\ Fresh(c) /\ \A k \in Handlers : Work(c) \notin events[k]
       /\ \A k \in Handlers : \A i \in 1 .. Len(jobs[k]) : jobs[k][i] # c
  BY <1>1, <1>2 DEF JobInv, AcceptedFresh, c
<1>12. JobInv'
  <2>1. ASSUME NEW k \in Handlers, NEW l \in Handlers, NEW i \in 1 .. Len(jobs'[k]), NEW j \in 1 .. Len(jobs'[l]),
               jobs'[k][i] = jobs'[l][j]
        PROVE  k = l /\ i = j
    <3>1. CASE i \in 1 .. Len(jobs[k]) /\ jobs'[k][i] = jobs[k][i]
      <4>1. CASE j \in 1 .. Len(jobs[l]) /\ jobs'[l][j] = jobs[l][j]
        <5>1. jobs[k][i] = jobs[l][j] /\ i \in 1 .. Len(jobs[k]) /\ j \in 1 .. Len(jobs[l]) /\ JobsOnce
          BY <2>1, <3>1, <4>1 DEF JobInv
        <5> QED BY <5>1 DEF JobsOnce
      <4>2. CASE jobs'[l][j] = c
        BY <1>11, <2>1, <3>1, <4>2
      <4> QED BY <1>10, <4>1, <4>2
    <3>2. CASE k = h /\ i = Len(jobs[h]) + 1 /\ jobs'[k][i] = c
      BY <1>10, <1>11, <2>1, <3>2
    <3> QED BY <1>10, <3>1, <3>2
  <2>2. ASSUME NEW k \in Handlers, NEW i \in 1 .. Len(jobs'[k])
        PROVE  /\ Fresh(jobs'[k][i])
               /\ \A l \in Handlers : Work(jobs'[k][i]) \in events[l] => l = k /\ i = 1 /\ handlerAt[k] = "register"
    <3>1. CASE i \in 1 .. Len(jobs[k]) /\ jobs'[k][i] = jobs[k][i]
      BY <3>1 DEF JobInv, JobsFresh
    <3>2. CASE jobs'[k][i] = c
      BY <1>11, <3>2
    <3> QED BY <1>10, <3>1, <3>2
  <2>3. ASSUME NEW x PROVE Fresh(x) => fdOf'[x] # 0 /\ x \notin closed' /\ \A k \in Handlers : Net(x) \notin events'[k]
    BY <1>2 DEF Fresh
  <2>4. JobsFresh'
    <3> SUFFICES ASSUME NEW k \in Handlers, NEW i \in 1 .. Len(jobs'[k])
                 PROVE  /\ Fresh(jobs[k][i])'
                        /\ \A l \in Handlers : Work(jobs'[k][i]) \in events'[l] => l = k /\ i = 1 /\ handlerAt'[k] = "register"
      BY DEF JobsFresh
    <3>1. Fresh(jobs[k][i])'
      BY <2>2, <2>3 DEF Fresh
    <3> QED BY <1>2, <2>2, <3>1
  <2> QED BY <1>4, <2>1, <2>4 DEF JobInv, JobsOnce, AcceptedFresh
<1>13. PlaceInv'
  <2>1. \A k \in Handlers : handlerAt[k] \in {"adopt", "manual", "register"} => jobs'[k] = jobs[k]
    BY <1>2, <1>7
  <2> QED BY <1>2, <2>1 DEF PlaceInv, PlaceOf, Closing
<1>14. EventInv'
  <2>1. NetInv'
    BY <1>2 DEF EventInv, NetInv
  <2>2. WorkInv'
    <3> SUFFICES ASSUME NEW k \in Handlers, NEW x \in Clients, Work(x) \in events'[k] PROVE WorkOf(k, x)'
      BY DEF WorkInv
    <3>1. WorkOf(k, x)
      BY <1>2 DEF EventInv, WorkInv
    <3> QED BY <1>2, <3>1 DEF WorkOf, Closing
  <2> QED BY <2>1, <2>2 DEF EventInv
<1> QED BY <1>8, <1>9, <1>12, <1>13, <1>14

\* The handler's thread looks for jobs.
LEMMA HandleLooks ==
    ASSUME HandleInv, NEW h \in Handlers, HandleDispatch(h)
    PROVE  HandleInv'
<1> USE DEF HandleInv
<1>1. /\ handlerAt[h] = "loop" /\ accepted' = accepted
      /\ handlerAt' = [handlerAt EXCEPT ![h] = IF jobs[h] = <<>> THEN "loop" ELSE "adopt"]
      /\ nextHandler' = nextHandler /\ fdOf' = fdOf /\ closed' = closed /\ handle' = handle /\ events' = events
      /\ jobs' = jobs /\ current' = current
  BY DEF HandleDispatch
<1>2. /\ handlerAt' \in [Handlers -> Places] /\ handlerAt'[h] \in {"loop", "adopt"}
      /\ handlerAt'[h] = "adopt" => jobs[h] # <<>>
      /\ \A k \in Handlers : k # h => handlerAt'[k] = handlerAt[k]
  BY <1>1 DEF HandleType, Places
<1>3. ASSUME NEW k \in Handlers
      PROVE  /\ Closing(k)' <=> Closing(k)
             /\ \A p \in {"manual", "register", "network", "workpool"} : handlerAt'[k] = p <=> handlerAt[k] = p
  <2>1. CASE k = h
    BY <1>1, <1>2, <2>1 DEF Closing
  <2>2. CASE k # h
    BY <1>2, <2>2 DEF Closing
  <2> QED BY <2>1, <2>2
<1>4. \A k \in Handlers : (handlerAt'[k] = "register" <=> handlerAt[k] = "register")
                        /\ (handlerAt'[k] \in {"manual", "register"} <=> handlerAt[k] \in {"manual", "register"})
                        /\ (handlerAt'[k] = "network" <=> handlerAt[k] = "network")
                        /\ (handlerAt'[k] \in {"register", "workpool"} <=> handlerAt[k] \in {"register", "workpool"})
  BY <1>3
<1>5. HandleType'
  BY <1>1, <1>2 DEF HandleType
<1>6. FdInv'
  BY <1>1, <1>3 DEF FdInv, Holds
<1>7. JobInv'
  BY <1>1, <1>4, SMTT(30) DEF JobInv, JobsOnce, JobsFresh, AcceptedFresh, Fresh
<1>8. PlaceInv'
  <2> SUFFICES ASSUME NEW k \in Handlers PROVE PlaceOf(k)'
    BY DEF PlaceInv
  <2>1. PlaceOf(k)
    BY DEF PlaceInv
  <2>2. CASE k = h
    BY <1>1, <1>2, <1>3, <1>4, <2>1, <2>2 DEF PlaceOf
  <2>3. CASE k # h
    BY <1>1, <1>2, <1>3, <1>4, <2>1, <2>3 DEF PlaceOf
  <2> QED BY <2>2, <2>3
<1>9. EventInv'
  BY <1>1, <1>3, <1>4, SMTT(30) DEF EventInv, NetInv, WorkInv, WorkOf
<1> QED BY <1>5, <1>6, <1>7, <1>8, <1>9

\* One handler's thread moves on.
Moves(h, at, c) ==
    /\ handlerAt' \in [Handlers -> Places] /\ current' \in [Handlers -> Clients \cup {Nobody}]
    /\ handlerAt'[h] = at /\ current'[h] = c
    /\ \A k \in Handlers : k # h => handlerAt'[k] = handlerAt[k] /\ current'[k] = current[k]

\* A connection that waits, or that has events, holds its descriptor.
LEMMA Holders ==
    ASSUME HandleInv
    PROVE  /\ \A h \in Handlers : \A i \in 1 .. Len(jobs[h]) : jobs[h][i] \in Clients /\ Holds(jobs[h][i])
           /\ \A h \in Handlers, c \in Clients : Work(c) \in events[h] => Holds(c)
           /\ \A c \in Clients : Holds(c) => fdOf[c] \in Fds
<1> USE DEF HandleInv
<1>1. ASSUME NEW h \in Handlers, NEW i \in 1 .. Len(jobs[h]) PROVE jobs[h][i] \in Clients /\ Holds(jobs[h][i])
  <2>1. jobs[h][i] \in Clients /\ Fresh(jobs[h][i])
    BY JobElements DEF JobInv, JobsFresh
  <2> QED BY <2>1 DEF Fresh, Holds
<1>2. ASSUME NEW h \in Handlers, NEW c \in Clients, Work(c) \in events[h] PROVE Holds(c)
  BY <1>2 DEF EventInv, WorkInv, WorkOf, Holds
<1>3. ASSUME NEW c \in Clients, Holds(c) PROVE fdOf[c] \in Fds
  BY <1>3 DEF HandleType, Holds
<1> QED BY <1>1, <1>2, <1>3

LEMMA FdKept ==
    ASSUME FdInv, fdOf' = fdOf, \A d \in Clients : Holds(d)' => Holds(d), \A d \in closed' : fdOf[d] # 0
    PROVE  FdInv'
  BY DEF FdInv

\* The client whose turn it is at a handler.
LEMMA FirstJob ==
    ASSUME HandleInv, NEW h \in Handlers, handlerAt[h] \in {"adopt", "manual", "register"}
    PROVE  /\ jobs[h] # <<>> /\ Head(jobs[h]) \in Clients /\ Holds(Head(jobs[h])) /\ Fresh(Head(jobs[h]))
           /\ fdOf[Head(jobs[h])] \in Fds
           /\ \A k \in Handlers : Work(Head(jobs[h])) \in events[k] => k = h /\ handlerAt[h] = "register"
           /\ \A k \in Handlers : \A i \in 1 .. Len(jobs[k]) : jobs[k][i] = Head(jobs[h]) => k = h /\ i = 1
           /\ accepted # <<>> /\ accepted[3] = "notify" => accepted[1] # Head(jobs[h])
<1> USE DEF HandleInv
<1>1. /\ jobs[h] # <<>> /\ 1 \in 1 .. Len(jobs[h]) /\ Head(jobs[h]) = jobs[h][1] /\ Head(jobs[h]) \in Clients
  BY JobElements DEF PlaceInv, PlaceOf
<1>2. Holds(Head(jobs[h])) /\ fdOf[Head(jobs[h])] \in Fds
  BY <1>1, Holders
<1>3. /\ Fresh(Head(jobs[h]))
      /\ \A k \in Handlers : Work(Head(jobs[h])) \in events[k] => k = h /\ handlerAt[h] = "register"
  <2>1. /\ Fresh(jobs[h][1])
        /\ \A k \in Handlers : Work(jobs[h][1]) \in events[k] => k = h /\ handlerAt[h] = "register"
    BY <1>1 DEF JobInv, JobsFresh
  <2> QED BY <1>1, <2>1
<1>4. ASSUME NEW k \in Handlers, NEW i \in 1 .. Len(jobs[k]), jobs[k][i] = Head(jobs[h]) PROVE k = h /\ i = 1
  BY <1>1, <1>4 DEF JobInv, JobsOnce
<1>5. accepted # <<>> /\ accepted[3] = "notify" => accepted[1] # Head(jobs[h])
  BY <1>1 DEF JobInv, AcceptedFresh
<1> QED BY <1>1, <1>2, <1>3, <1>4, <1>5

\* The handle of a client is made or reset; no other client has it.
LEMMA HandleMade ==
    ASSUME HandleInv, NEW h \in Handlers, NewConnectionHandle(h)
    PROVE  HandleInv'
<1> USE DEF HandleInv
<1> DEFINE c == Head(jobs[h])
           f == fdOf[c]
           hd == [NoHandle EXCEPT !.handler = h]
<1>1. /\ handlerAt[h] = "adopt" /\ current' = [current EXCEPT ![h] = c]
      /\ handle' = [handle EXCEPT ![f] = hd] /\ handlerAt' = [handlerAt EXCEPT ![h] = "manual"]
      /\ accepted' = accepted /\ nextHandler' = nextHandler /\ fdOf' = fdOf /\ closed' = closed
      /\ jobs' = jobs /\ events' = events
  BY DEF NewConnectionHandle
<1>2. /\ jobs[h] # <<>> /\ c \in Clients /\ Holds(c) /\ f \in Fds /\ Fresh(c)
      /\ \A k \in Handlers : Work(c) \notin events[k]
      /\ \A k \in Handlers : \A i \in 1 .. Len(jobs[k]) : jobs[k][i] = c => k = h
  BY <1>1, FirstJob
<1>3. hd \in Handle /\ hd.handler = h
  BY DEF Handle, NoHandle
<1> HIDE DEF c, f, hd
<1>4. Moves(h, "manual", c)
  BY <1>1, <1>2 DEF Moves, HandleType, Places
<1>5. handle' \in [Fds -> Handle] /\ handle'[f] = hd /\ \A g \in Fds : g # f => handle'[g] = handle[g]
  BY <1>1, <1>2, <1>3 DEF HandleType
<1>6. HandleType'
  BY <1>1, <1>4, <1>5 DEF HandleType, Moves
<1>7. /\ \A k \in Handlers : (Closing(k)' <=> Closing(k)) /\ (Closing(k) => current'[k] = current[k])
      /\ \A k \in Handlers : handlerAt'[k] = "register" <=> handlerAt[k] = "register"
  BY <1>1, <1>4 DEF Closing, Moves
<1>8. FdInv'
  <2>1. \A d \in Clients : Holds(d)' => Holds(d)
    BY <1>1, <1>7, SMTT(30) DEF Holds
  <2>2. \A d \in closed' : fdOf[d] # 0
    BY <1>1 DEF FdInv
  <2> QED BY <1>1, <2>1, <2>2, FdKept
<1>9. JobInv'
  BY <1>1, <1>7, SMTT(30) DEF JobInv, JobsOnce, JobsFresh, AcceptedFresh, Fresh
<1>10. ASSUME NEW d \in Clients, d # c, Holds(d) PROVE handle'[fdOf[d]] = handle[fdOf[d]]
  <2>1. fdOf[d] # f /\ fdOf[d] \in Fds
    BY <1>2, <1>10, Holders DEF FdInv, f
  <2> QED BY <1>5, <2>1
<1>11. PlaceInv'
  <2> SUFFICES ASSUME NEW k \in Handlers PROVE PlaceOf(k)'
    BY DEF PlaceInv
  <2>1. CASE k = h
    <3>1. handlerAt'[k] = "manual" /\ current'[k] = c
      BY <1>4, <2>1 DEF Moves
    <3>2. handle'[fdOf[c]].handler = h
      BY <1>3, <1>5 DEF f
    <3>3. ~Closing(k)'
      BY <3>1 DEF Closing
    <3> QED BY <1>1, <1>2, <2>1, <3>1, <3>2, <3>3 DEF c, PlaceOf
  <2>2. CASE k # h
    <3>1. handlerAt'[k] = handlerAt[k] /\ current'[k] = current[k]
      BY <1>4, <2>2 DEF Moves
    <3>2. ASSUME handlerAt[k] \in {"manual", "register"} PROVE handle'[fdOf[current[k]]] = handle[fdOf[current[k]]]
      <4>1. current[k] = Head(jobs[k]) /\ Head(jobs[k]) = jobs[k][1] /\ 1 \in 1 .. Len(jobs[k])
        BY <3>2, JobElements DEF PlaceInv, PlaceOf
      <4>2. current[k] \in Clients /\ current[k] # c /\ Holds(current[k])
        BY <1>2, <2>2, <4>1, Holders
      <4> QED BY <1>10, <4>2
    <3>3. PlaceOf(k)
      BY DEF PlaceInv
    <3> QED BY <1>1, <1>7, <3>1, <3>2, <3>3, SMTT(30) DEF PlaceOf
  <2> QED BY <2>1, <2>2
<1>12. ASSUME NEW k \in Handlers, NEW d \in Clients, Work(d) \in events[k] PROVE handle'[fdOf[d]] = handle[fdOf[d]]
  <2>1. d # c /\ Holds(d)
    BY <1>2, <1>12, Holders
  <2> QED BY <1>10, <2>1
<1>13. NetInv'
  BY <1>1, <1>12 DEF EventInv, NetInv
<1>14. WorkInv'
  <2> SUFFICES ASSUME NEW k \in Handlers, NEW d \in Clients, Work(d) \in events[k] PROVE WorkOf(k, d)'
    BY <1>1 DEF WorkInv
  <2>1. WorkOf(k, d)
    BY DEF EventInv, WorkInv
  <2>2. handle'[fdOf[d]] = handle[fdOf[d]]
    BY <1>12
  <2>3. CASE k = h
    BY <1>1, <2>1, <2>2, <2>3 DEF WorkOf, Closing
  <2>4. CASE k # h
    BY <1>1, <1>4, <1>7, <2>1, <2>2, <2>4 DEF Moves, WorkOf
  <2> QED BY <2>3, <2>4
<1> QED BY <1>6, <1>8, <1>9, <1>11, <1>13, <1>14 DEF EventInv

\* The first event of a client, with the handler that its handle names.
LEMMA HandleWorkpool ==
    ASSUME HandleInv, NEW h \in Handlers, RegisterWorkpoolEvent(h)
    PROVE  HandleInv'
<1> USE DEF HandleInv
<1> DEFINE c == current[h]
           f == fdOf[c]
           hd == [handle[f] EXCEPT !.workpool = Work(c)]
<1>1. /\ handlerAt[h] = "manual" /\ handlerAt' = [handlerAt EXCEPT ![h] = "register"]
      /\ events' = [events EXCEPT ![handle[f].handler] = @ \cup {Work(c)}] /\ handle' = [handle EXCEPT ![f] = hd]
      /\ accepted' = accepted /\ nextHandler' = nextHandler /\ fdOf' = fdOf /\ closed' = closed
      /\ jobs' = jobs /\ current' = current
  BY DEF RegisterWorkpoolEvent, Work
<1>2. c = Head(jobs[h]) /\ handle[f].handler = h
  BY <1>1 DEF PlaceInv, PlaceOf
<1>3. /\ jobs[h] # <<>> /\ c \in Clients /\ Holds(c) /\ f \in Fds /\ Fresh(c)
      /\ \A k \in Handlers : Work(c) \notin events[k]
      /\ \A k \in Handlers : \A i \in 1 .. Len(jobs[k]) : jobs[k][i] = c => k = h /\ i = 1
      /\ accepted # <<>> /\ accepted[3] = "notify" => accepted[1] # c
  <2>1. handlerAt[h] \in {"adopt", "manual", "register"} /\ handlerAt[h] # "register"
    BY <1>1
  <2> HIDE DEF HandleInv, c
  <2>2. /\ jobs[h] # <<>> /\ c \in Clients /\ Holds(c) /\ fdOf[c] \in Fds /\ Fresh(c)
        /\ \A k \in Handlers : Work(c) \in events[k] => handlerAt[h] = "register"
        /\ \A k \in Handlers : \A i \in 1 .. Len(jobs[k]) : jobs[k][i] = c => k = h /\ i = 1
        /\ accepted # <<>> /\ accepted[3] = "notify" => accepted[1] # c
    BY <1>2, <2>1, FirstJob
  <2> QED BY <2>1, <2>2
<1>4. /\ hd \in Handle /\ hd.handler = handle[f].handler /\ hd.network = handle[f].network /\ hd.workpool = Work(c)
  <2>1. handle[f] \in Handle /\ Work(c) \in Event
    BY <1>3 DEF HandleType, Event
  <2> QED BY <2>1 DEF Handle
<1> HIDE DEF c, f, hd
<1>5. Moves(h, "register", c)
  BY <1>1, <1>3 DEF Moves, HandleType, Places, c
<1>6. /\ handle' \in [Fds -> Handle] /\ handle'[f] = hd /\ \A g \in Fds : g # f => handle'[g] = handle[g]
      /\ \A g \in Fds : handle'[g].handler = handle[g].handler /\ handle'[g].network = handle[g].network
  BY <1>1, <1>3, <1>4 DEF HandleType
<1>7. /\ events' \in [Handlers -> SUBSET Event] /\ events'[h] = events[h] \cup {Work(c)}
      /\ \A k \in Handlers : k # h => events'[k] = events[k]
  BY <1>1, <1>2, <1>3 DEF HandleType, Event
<1>8. HandleType'
  BY <1>1, <1>5, <1>6, <1>7 DEF HandleType, Moves
<1>9. \A k \in Handlers : Closing(k)' <=> Closing(k)
  BY <1>1, <1>5 DEF Closing, Moves
<1>10. FdInv'
  <2>1. \A d \in Clients : Holds(d)' => Holds(d)
    BY <1>1, <1>9, SMTT(30) DEF Holds
  <2> QED BY <1>1, <2>1, FdKept DEF FdInv
<1>11. /\ \A k \in Handlers : \A d \in Clients : Net(d) \in events'[k] <=> Net(d) \in events[k]
       /\ \A k \in Handlers : \A d \in Clients : Work(d) \in events'[k] => Work(d) \in events[k] \/ (d = c /\ k = h)
       /\ \A k \in Handlers : events[k] \subseteq events'[k]
  <2>1. \A d \in Clients : Net(d) # Work(c) /\ (Work(d) = Work(c) => d = c)
    BY EventNames
  <2>2. ASSUME NEW k \in Handlers PROVE events'[k] = events[k] \/ (k = h /\ events'[k] = events[k] \cup {Work(c)})
    BY <1>7
  <2> QED BY <2>1, <2>2
<1>12. \A x \in Clients : Fresh(x) => Fresh(x)'
  BY <1>1, <1>11 DEF Fresh
<1>13. JobsFresh'
  <2> SUFFICES ASSUME NEW k \in Handlers, NEW i \in 1 .. Len(jobs[k])
               PROVE  /\ Fresh(jobs[k][i])'
                      /\ \A l \in Handlers : Work(jobs[k][i]) \in events'[l] => l = k /\ i = 1 /\ handlerAt'[k] = "register"
    BY <1>1 DEF JobsFresh
  <2>1. jobs[k][i] \in Clients /\ Fresh(jobs[k][i])
        /\ \A l \in Handlers : Work(jobs[k][i]) \in events[l] => l = k /\ i = 1 /\ handlerAt[k] = "register"
    BY JobElements DEF JobInv, JobsFresh
  <2>2. Fresh(jobs[k][i])'
    BY <1>1, <1>12, <2>1 DEF Fresh
  <2>3. ASSUME NEW l \in Handlers, Work(jobs[k][i]) \in events'[l] PROVE l = k /\ i = 1 /\ handlerAt'[k] = "register"
    <3>1. CASE Work(jobs[k][i]) \in events[l]
      BY <1>1, <1>5, <2>1, <3>1 DEF Moves
    <3>2. CASE jobs[k][i] = c /\ l = h
      BY <1>3, <1>5, <3>2 DEF Moves
    <3> QED BY <1>11, <2>1, <2>3, <3>1, <3>2
  <2> QED BY <2>2, <2>3
<1>14. AcceptedFresh'
  <2>1. ASSUME accepted # <<>>, accepted[3] = "notify" PROVE accepted[1] \in Clients
    BY <2>1, SMTT(30) DEF HandleType
  <2> QED BY <1>1, <1>3, <1>11, <1>12, <2>1, SMTT(30) DEF JobInv, AcceptedFresh, Fresh
<1>15. JobInv'
  BY <1>1, <1>13, <1>14, SMTT(30) DEF JobInv, JobsOnce
<1>16. PlaceInv'
  <2> SUFFICES ASSUME NEW k \in Handlers PROVE PlaceOf(k)'
    BY DEF PlaceInv
  <2>1. CASE k = h
    <3>1. handlerAt'[k] = "register" /\ current'[k] = c /\ Work(c) \in events'[k] /\ ~Closing(k)'
      BY <1>5, <1>7, <2>1 DEF Moves, Closing
    <3>2. handle'[fdOf[c]].handler = h
      BY <1>2, <1>3, <1>6 DEF f
    <3> QED BY <1>1, <1>2, <1>3, <2>1, <3>1, <3>2 DEF PlaceOf
  <2>2. CASE k # h
    <3>1. handlerAt'[k] = handlerAt[k] /\ current'[k] = current[k] /\ events'[k] = events[k]
      BY <1>5, <1>7, <2>2 DEF Moves
    <3>2. ASSUME handlerAt[k] \in {"manual", "register"}
          PROVE  handle'[fdOf[current[k]]].handler = handle[fdOf[current[k]]].handler
      <4>1. current[k] = Head(jobs[k]) /\ fdOf[Head(jobs[k])] \in Fds
        BY <3>2, FirstJob DEF PlaceInv, PlaceOf
      <4> QED BY <1>6, <4>1
    <3>3. PlaceOf(k)
      BY DEF PlaceInv
    <3> QED BY <1>1, <1>9, <3>1, <3>2, <3>3, SMTT(30) DEF PlaceOf
  <2> QED BY <2>1, <2>2
<1>17. NetInv'
  <2> SUFFICES ASSUME NEW k \in Handlers, NEW d \in Clients, Net(d) \in events'[k]
               PROVE  Work(d) \in events'[k] /\ handle'[fdOf[d]].network = Net(d)
    BY <1>1 DEF NetInv
  <2>1. Work(d) \in events[k] /\ handle[fdOf[d]].network = Net(d)
    BY <1>11 DEF EventInv, NetInv
  <2>2. fdOf[d] \in Fds
    BY <2>1, Holders
  <2> QED BY <1>6, <1>11, <2>1, <2>2
<1>18. WorkInv'
  <2> SUFFICES ASSUME NEW k \in Handlers, NEW d \in Clients, Work(d) \in events'[k] PROVE WorkOf(k, d)'
    BY DEF WorkInv
  <2>1. CASE d = c /\ k = h
    <3>1. /\ fdOf[c] # 0 /\ c \notin closed /\ handle'[fdOf[c]].handler = h /\ handle'[fdOf[c]].workpool = Work(c)
      BY <1>2, <1>3, <1>4, <1>6 DEF Fresh, f
    <3> QED BY <1>1, <1>5, <2>1, <3>1 DEF WorkOf, Moves
  <2>2. CASE Work(d) \in events[k]
    <3>1. WorkOf(k, d) /\ d # c /\ Holds(d)
      BY <1>3, <2>2, Holders DEF EventInv, WorkInv
    <3>2. handle'[fdOf[d]] = handle[fdOf[d]]
      <4>1. fdOf[d] # f /\ fdOf[d] \in Fds
        BY <1>3, <3>1, Holders DEF FdInv, f
      <4> QED BY <1>6, <4>1
    <3>3. CASE k = h
      BY <1>1, <1>11, <3>1, <3>2, <3>3 DEF WorkOf, Closing
    <3>4. CASE k # h
      BY <1>1, <1>5, <1>9, <1>11, <3>1, <3>2, <3>4 DEF Moves, WorkOf
    <3> QED BY <3>3, <3>4
  <2> QED BY <1>11, <2>1, <2>2
<1> QED BY <1>8, <1>10, <1>15, <1>16, <1>17, <1>18 DEF EventInv

\* An event of an open connection closes it.
LEMMA HandleClose ==
    ASSUME HandleInv, NEW h \in Handlers, NEW c \in Clients, TryCloseConnection(h, c)
    PROVE  HandleInv'
<1> USE DEF HandleInv
<1>1. /\ handlerAt[h] = "loop" /\ Net(c) \in events[h] /\ c \notin closed /\ closed' = closed \cup {c}
      /\ handlerAt' = [handlerAt EXCEPT ![h] = "network"] /\ current' = [current EXCEPT ![h] = c]
      /\ accepted' = accepted /\ nextHandler' = nextHandler /\ fdOf' = fdOf /\ handle' = handle
      /\ jobs' = jobs /\ events' = events
  BY DEF TryCloseConnection, Net
<1>2. Moves(h, "network", c)
  BY <1>1 DEF Moves, HandleType, Places
<1>3. HandleType'
  BY <1>1, <1>2 DEF HandleType, Moves
<1>4. Work(c) \in events[h] /\ fdOf[c] # 0 /\ handle[fdOf[c]].handler = h
  BY <1>1 DEF EventInv, NetInv, WorkInv, WorkOf
<1>5. FdInv'
  <2>1. ASSUME NEW d \in Clients, Holds(d)' PROVE Holds(d)
    <3>1. CASE d = c
      BY <1>1, <1>4, <3>1 DEF Holds
    <3>2. CASE d # c
      <4>1. ASSUME NEW k \in Handlers, Closing(k)', current'[k] = d PROVE Closing(k) /\ current[k] = d
        BY <1>2, <3>2, <4>1 DEF Moves, Closing
      <4> QED BY <1>1, <2>1, <3>2, <4>1 DEF Holds
    <3> QED BY <3>1, <3>2
  <2> QED BY <1>1, <1>4, <2>1, FdKept DEF FdInv
<1>6. \A x \in Clients : Fresh(x) => Fresh(x)'
  BY <1>1 DEF Fresh
<1>7. JobInv'
  <2>1. JobsFresh'
    <3> SUFFICES ASSUME NEW k \in Handlers, NEW i \in 1 .. Len(jobs[k])
                 PROVE  /\ Fresh(jobs[k][i])'
                        /\ \A l \in Handlers : Work(jobs[k][i]) \in events[l] => l = k /\ i = 1 /\ handlerAt'[k] = "register"
      BY <1>1 DEF JobsFresh
    <3>1. jobs[k][i] \in Clients /\ Fresh(jobs[k][i])
          /\ \A l \in Handlers : Work(jobs[k][i]) \in events[l] => l = k /\ i = 1 /\ handlerAt[k] = "register"
      BY JobElements DEF JobInv, JobsFresh
    <3>2. Fresh(jobs[k][i])'
      BY <1>1, <1>6, <3>1 DEF Fresh
    <3> QED BY <1>1, <1>2, <3>1, <3>2 DEF Moves
  <2>2. AcceptedFresh'
    <3>1. ASSUME accepted # <<>>, accepted[3] = "notify" PROVE accepted[1] \in Clients
      BY <3>1, SMTT(30) DEF HandleType
    <3> QED BY <1>1, <1>6, <3>1, SMTT(30) DEF JobInv, AcceptedFresh, Fresh
  <2> QED BY <1>1, <2>1, <2>2, SMTT(30) DEF JobInv, JobsOnce
<1>8. PlaceInv'
  <2> SUFFICES ASSUME NEW k \in Handlers PROVE PlaceOf(k)'
    BY DEF PlaceInv
  <2>1. CASE k = h
    BY <1>1, <1>2, <1>4, <2>1 DEF Moves, PlaceOf, Closing
  <2>2. CASE k # h
    <3>1. handlerAt'[k] = handlerAt[k] /\ current'[k] = current[k] /\ PlaceOf(k)
      BY <1>2, <2>2 DEF Moves, PlaceInv
    <3> QED BY <1>1, <3>1, SMTT(30) DEF PlaceOf, Closing
  <2> QED BY <2>1, <2>2
<1>9. NetInv'
  BY <1>1, SMTT(30) DEF EventInv, NetInv
<1>10. WorkInv'
  <2> SUFFICES ASSUME NEW k \in Handlers, NEW d \in Clients, Work(d) \in events[k] PROVE WorkOf(k, d)'
    BY <1>1 DEF WorkInv
  <2>1. WorkOf(k, d)
    BY DEF EventInv, WorkInv
  <2>2. CASE k = h
    <3>1. Net(d) \in events[h] /\ d \notin closed
      BY <1>1, <2>1, <2>2 DEF WorkOf, Closing
    <3>2. current'[h] = c /\ Closing(h)'
      BY <1>2 DEF Moves, Closing
    <3> QED BY <1>1, <2>1, <2>2, <3>1, <3>2 DEF WorkOf
  <2>3. CASE k # h
    <3>1. d # c
      BY <1>4, <2>1, <2>3 DEF WorkOf
    <3>2. handlerAt'[k] = handlerAt[k] /\ current'[k] = current[k] /\ (Closing(k)' <=> Closing(k))
      BY <1>2, <2>3 DEF Moves, Closing
    <3> QED BY <1>1, <2>1, <3>1, <3>2, SMTT(30) DEF WorkOf
  <2> QED BY <2>2, <2>3
<1> QED BY <1>3, <1>5, <1>7, <1>8, <1>9, <1>10 DEF EventInv

LEMMA TailShift ==
    ASSUME NEW S, NEW q \in Seq(S), q # <<>>
    PROVE  /\ Tail(q) \in Seq(S) /\ (Len(q) # 1 => Tail(q) # <<>>)
           /\ \A i \in 1 .. Len(Tail(q)) : i + 1 \in 1 .. Len(q) /\ i + 1 # 1 /\ Tail(q)[i] = q[i + 1]
<1> DEFINE r == Tail(q)
<1>1. /\ r \in Seq(S) /\ Len(q) \in Nat /\ Len(q) >= 1 /\ Len(r) = Len(q) - 1
      /\ \A i \in 1 .. Len(r) : r[i] = q[i + 1]
  BY SMTT(30)
<1>2. Len(<<>>) = 0
  BY SMTT(30)
<1> HIDE DEF r
<1>3. \A i \in 1 .. Len(r) : i + 1 \in 1 .. Len(q) /\ i + 1 # 1
  BY <1>1, SMTT(30)
<1>4. Len(q) # 1 => Len(r) # 0
  BY <1>1, SMTT(30)
<1>5. Len(q) # 1 => r # <<>>
  BY <1>2, <1>4
<1> QED BY <1>1, <1>3, <1>5 DEF r

LEMMA JobOnce ==
    ASSUME JobsOnce, NEW k \in Handlers, NEW l \in Handlers, NEW m \in 1 .. Len(jobs[k]), NEW n \in 1 .. Len(jobs[l]),
           jobs[k][m] = jobs[l][n]
    PROVE  k = l /\ m = n
  BY DEF JobsOnce

LEMMA IndexShift ==
    ASSUME NEW S, NEW q \in Seq(S), NEW r \in Seq(S), NEW i \in 1 .. Len(q), NEW j \in 1 .. Len(r), i + 1 = j + 1
    PROVE  i = j
  BY SMTT(30)

\* The second event of a client; the handler is done with this job.
LEMMA HandleNetwork ==
    ASSUME HandleInv, NEW h \in Handlers, RegisterNetworkEvent(h)
    PROVE  HandleInv'
<1> USE DEF HandleInv
<1> DEFINE c == current[h]
           f == fdOf[c]
           hd == [handle[f] EXCEPT !.network = Net(c)]
           at == IF Len(jobs[h]) = 1 THEN "loop" ELSE "adopt"
<1>1. /\ handlerAt[h] = "register" /\ handlerAt' = [handlerAt EXCEPT ![h] = at]
      /\ events' = [events EXCEPT ![handle[f].handler] = @ \cup {Net(c)}] /\ handle' = [handle EXCEPT ![f] = hd]
      /\ accepted' = accepted /\ nextHandler' = nextHandler /\ fdOf' = fdOf /\ closed' = closed
      /\ jobs' = [jobs EXCEPT ![h] = Tail(@)] /\ current' = [current EXCEPT ![h] = Nobody]
  BY DEF RegisterNetworkEvent, Net
<1>2. c = Head(jobs[h]) /\ handle[f].handler = h /\ Work(c) \in events[h]
  BY <1>1 DEF PlaceInv, PlaceOf
<1>3. /\ jobs[h] # <<>> /\ c \in Clients /\ Holds(c) /\ f \in Fds /\ Fresh(c)
      /\ \A k \in Handlers : Work(c) \in events[k] => k = h
      /\ \A k \in Handlers : \A i \in 1 .. Len(jobs[k]) : jobs[k][i] = c => k = h /\ i = 1
      /\ accepted # <<>> /\ accepted[3] = "notify" => accepted[1] # c
  BY <1>1, <1>2, FirstJob
<1>4. /\ hd \in Handle /\ hd.handler = handle[f].handler /\ hd.workpool = handle[f].workpool /\ hd.network = Net(c)
  <2>1. handle[f] \in Handle /\ Net(c) \in Event
    BY <1>3 DEF HandleType, Event
  <2> QED BY <2>1 DEF Handle
<1>5. jobs[h] \in Seq(Clients) /\ jobs \in [Handlers -> Seq(Clients)]
  BY DEF HandleType
<1>6. /\ Tail(jobs[h]) \in Seq(Clients) /\ (at = "adopt" => Tail(jobs[h]) # <<>>) /\ at \in {"loop", "adopt"}
      /\ \A i \in 1 .. Len(Tail(jobs[h])) : i + 1 \in 1 .. Len(jobs[h]) /\ i + 1 # 1 /\ Tail(jobs[h])[i] = jobs[h][i + 1]
  <2>1. /\ Tail(jobs[h]) \in Seq(Clients) /\ (Len(jobs[h]) # 1 => Tail(jobs[h]) # <<>>)
        /\ \A i \in 1 .. Len(Tail(jobs[h])) : i + 1 \in 1 .. Len(jobs[h]) /\ i + 1 # 1 /\ Tail(jobs[h])[i] = jobs[h][i + 1]
    BY <1>3, <1>5, TailShift
  <2>2. at \in {"loop", "adopt"} /\ (at = "adopt" => Len(jobs[h]) # 1)
    OBVIOUS
  <2> QED BY <2>1, <2>2
<1> HIDE DEF c, f, hd, at
<1>7. Moves(h, at, Nobody)
  BY <1>1, <1>6 DEF Moves, HandleType, Places
<1>8. /\ handle' \in [Fds -> Handle] /\ handle'[f] = hd /\ \A g \in Fds : g # f => handle'[g] = handle[g]
      /\ \A g \in Fds : handle'[g].handler = handle[g].handler /\ handle'[g].workpool = handle[g].workpool
  BY <1>1, <1>3, <1>4 DEF HandleType
<1>9. /\ events' \in [Handlers -> SUBSET Event] /\ events'[h] = events[h] \cup {Net(c)}
      /\ \A k \in Handlers : k # h => events'[k] = events[k]
  BY <1>1, <1>2, <1>3 DEF HandleType, Event
<1>10. /\ jobs' \in [Handlers -> Seq(Clients)] /\ jobs'[h] = Tail(jobs[h])
       /\ \A k \in Handlers : k # h => jobs'[k] = jobs[k]
  BY <1>1, <1>5, <1>6
<1>11. HandleType'
  BY <1>1, <1>7, <1>8, <1>9, <1>10 DEF HandleType, Moves
<1>12. \A k \in Handlers : (Closing(k)' <=> Closing(k)) /\ (Closing(k) => current'[k] = current[k])
  BY <1>1, <1>6, <1>7 DEF Closing, Moves
<1>13. FdInv'
  <2>1. \A d \in Clients : Holds(d)' => Holds(d)
    BY <1>1, <1>12, SMTT(30) DEF Holds
  <2> QED BY <1>1, <2>1, FdKept DEF FdInv
<1>14. /\ \A k \in Handlers : \A d \in Clients : Work(d) \in events'[k] <=> Work(d) \in events[k]
       /\ \A k \in Handlers : \A d \in Clients : Net(d) \in events'[k] => Net(d) \in events[k] \/ (d = c /\ k = h)
       /\ \A k \in Handlers : events[k] \subseteq events'[k]
  <2>1. \A d \in Clients : Work(d) # Net(c) /\ (Net(d) = Net(c) => d = c)
    BY EventNames
  <2>2. ASSUME NEW k \in Handlers PROVE events'[k] = events[k] \/ (k = h /\ events'[k] = events[k] \cup {Net(c)})
    BY <1>9
  <2> QED BY <2>1, <2>2
<1>15. \A x \in Clients : x # c /\ Fresh(x) => Fresh(x)'
  BY <1>1, <1>14 DEF Fresh
<1>16. ASSUME NEW k \in Handlers, NEW i \in 1 .. Len(jobs'[k])
       PROVE  \/ k # h /\ i \in 1 .. Len(jobs[k]) /\ jobs'[k][i] = jobs[k][i]
              \/ k = h /\ i + 1 \in 1 .. Len(jobs[k]) /\ i + 1 # 1 /\ jobs'[k][i] = jobs[k][i + 1]
  BY <1>6, <1>10
<1>17. ASSUME NEW k \in Handlers, NEW i \in 1 .. Len(jobs'[k])
       PROVE  /\ jobs'[k][i] \in Clients /\ jobs'[k][i] # c /\ Fresh(jobs'[k][i])
              /\ \A l \in Handlers : Work(jobs'[k][i]) \in events[l] => k # h /\ l = k /\ i = 1 /\ handlerAt[k] = "register"
              /\ accepted # <<>> /\ accepted[3] = "notify" => jobs'[k][i] # accepted[1]
  <2>1. CASE k # h /\ i \in 1 .. Len(jobs[k]) /\ jobs'[k][i] = jobs[k][i]
    BY <1>3, <2>1, JobElements DEF JobInv, JobsFresh, AcceptedFresh
  <2>2. CASE k = h /\ i + 1 \in 1 .. Len(jobs[k]) /\ i + 1 # 1 /\ jobs'[k][i] = jobs[k][i + 1]
    <3> DEFINE n == i + 1
    <3>1. n \in 1 .. Len(jobs[h]) /\ n # 1 /\ jobs'[k][i] = jobs[h][n]
      BY <2>2
    <3> HIDE DEF n
    <3>2. jobs[h][n] \in Clients /\ jobs[h][n] # c
      BY <1>3, <3>1, JobElements
    <3>3. Fresh(jobs[h][n]) /\ \A l \in Handlers : Work(jobs[h][n]) \notin events[l]
      BY <3>1 DEF JobInv, JobsFresh
    <3>4. accepted # <<>> /\ accepted[3] = "notify" => jobs[h][n] # accepted[1]
      BY <3>1 DEF JobInv, AcceptedFresh
    <3> QED BY <3>1, <3>2, <3>3, <3>4
  <2> QED BY <1>16, <2>1, <2>2
<1>18. JobsFresh'
  <2> SUFFICES ASSUME NEW k \in Handlers, NEW i \in 1 .. Len(jobs'[k])
               PROVE  /\ Fresh(jobs[k][i])'
                      /\ \A l \in Handlers : Work(jobs'[k][i]) \in events'[l] => l = k /\ i = 1 /\ handlerAt'[k] = "register"
    BY DEF JobsFresh
  <2>1. Fresh(jobs[k][i])'
    BY <1>15, <1>17 DEF Fresh
  <2>2. ASSUME NEW l \in Handlers, Work(jobs'[k][i]) \in events'[l] PROVE l = k /\ i = 1 /\ handlerAt'[k] = "register"
    <3>1. Work(jobs'[k][i]) \in events[l]
      BY <1>14, <1>17, <2>2
    <3>2. k # h /\ l = k /\ i = 1 /\ handlerAt[k] = "register"
      BY <1>17, <3>1
    <3> QED BY <1>7, <3>2 DEF Moves
  <2> QED BY <2>1, <2>2
<1>19. JobsOnce'
  <2> SUFFICES ASSUME NEW k \in Handlers, NEW l \in Handlers, NEW i \in 1 .. Len(jobs'[k]), NEW j \in 1 .. Len(jobs'[l]),
                      jobs'[k][i] = jobs'[l][j]
               PROVE  k = l /\ i = j
    BY DEF JobsOnce
  <2>1. i + 1 = j + 1 => i = j
    <3>1. jobs'[k] \in Seq(Clients) /\ jobs'[l] \in Seq(Clients)
      BY <1>10
    <3> QED BY <3>1, IndexShift
  <2>2. ASSUME NEW m \in 1 .. Len(jobs[k]), NEW n \in 1 .. Len(jobs[l]), jobs[k][m] = jobs[l][n] PROVE k = l /\ m = n
    <3>1. JobsOnce
      BY DEF JobInv
    <3> QED BY <2>2, <3>1, JobOnce, SMTT(30)
  <2>3. /\ \/ k # h /\ i \in 1 .. Len(jobs[k]) /\ jobs'[k][i] = jobs[k][i]
           \/ k = h /\ i + 1 \in 1 .. Len(jobs[k]) /\ jobs'[k][i] = jobs[k][i + 1]
        /\ \/ l # h /\ j \in 1 .. Len(jobs[l]) /\ jobs'[l][j] = jobs[l][j]
           \/ l = h /\ j + 1 \in 1 .. Len(jobs[l]) /\ jobs'[l][j] = jobs[l][j + 1]
    <3>1. \/ k # h /\ i \in 1 .. Len(jobs[k]) /\ jobs'[k][i] = jobs[k][i]
          \/ k = h /\ i + 1 \in 1 .. Len(jobs[k]) /\ jobs'[k][i] = jobs[k][i + 1]
      BY <1>16
    <3>2. \/ l # h /\ j \in 1 .. Len(jobs[l]) /\ jobs'[l][j] = jobs[l][j]
          \/ l = h /\ j + 1 \in 1 .. Len(jobs[l]) /\ jobs'[l][j] = jobs[l][j + 1]
      BY <1>16
    <3> QED BY <3>1, <3>2
  <2>4. CASE k # h /\ l # h
    <3>1. i \in 1 .. Len(jobs[k]) /\ j \in 1 .. Len(jobs[l]) /\ jobs[k][i] = jobs[l][j]
      BY <2>3, <2>4
    <3> QED BY <2>2, <3>1
  <2>5. CASE k = h /\ l # h
    <3>1. i + 1 \in 1 .. Len(jobs[k]) /\ j \in 1 .. Len(jobs[l]) /\ jobs[k][i + 1] = jobs[l][j]
      BY <2>3, <2>5
    <3>2. k = l
      BY <2>2, <3>1
    <3> QED BY <2>5, <3>2
  <2>6. CASE k # h /\ l = h
    <3>1. i \in 1 .. Len(jobs[k]) /\ j + 1 \in 1 .. Len(jobs[l]) /\ jobs[k][i] = jobs[l][j + 1]
      BY <2>3, <2>6
    <3>2. k = l
      BY <2>2, <3>1
    <3> QED BY <2>6, <3>2
  <2>7. CASE k = h /\ l = h
    <3>1. i + 1 \in 1 .. Len(jobs[k]) /\ j + 1 \in 1 .. Len(jobs[l]) /\ jobs[k][i + 1] = jobs[l][j + 1]
      BY <2>3, <2>7
    <3> QED BY <2>1, <2>2, <2>7, <3>1
  <2> QED BY <2>4, <2>5, <2>6, <2>7
<1>20. AcceptedFresh'
  <2> SUFFICES ASSUME accepted # <<>>, accepted[3] = "notify"
               PROVE  /\ Fresh(accepted[1])' /\ \A k \in Handlers : Work(accepted[1]) \notin events'[k]
                      /\ \A k \in Handlers : \A i \in 1 .. Len(jobs'[k]) : jobs'[k][i] # accepted[1]
    BY <1>1 DEF AcceptedFresh
  <2>1. accepted[1] \in Clients
    BY SMTT(30) DEF HandleType
  <2>2. Fresh(accepted[1]) /\ \A k \in Handlers : Work(accepted[1]) \notin events[k]
    BY DEF JobInv, AcceptedFresh
  <2>3. Fresh(accepted[1])'
    BY <1>1, <1>3, <1>15, <2>1, <2>2 DEF Fresh
  <2> QED BY <1>14, <1>17, <2>1, <2>2, <2>3
<1>21. PlaceInv'
  <2> SUFFICES ASSUME NEW k \in Handlers PROVE PlaceOf(k)'
    BY DEF PlaceInv
  <2>1. CASE k = h
    <3>1. /\ handlerAt'[k] \in {"loop", "adopt"} /\ current'[k] = Nobody /\ ~Closing(k)'
          /\ handlerAt'[k] = "adopt" => jobs'[k] # <<>>
      BY <1>6, <1>7, <1>10, <2>1 DEF Moves, Closing
    <3> QED BY <3>1 DEF PlaceOf
  <2>2. CASE k # h
    <3>1. /\ handlerAt'[k] = handlerAt[k] /\ current'[k] = current[k] /\ events'[k] = events[k] /\ jobs'[k] = jobs[k]
      BY <1>7, <1>9, <1>10, <2>2 DEF Moves
    <3>2. ASSUME handlerAt[k] \in {"manual", "register"}
          PROVE  handle'[fdOf[current[k]]].handler = handle[fdOf[current[k]]].handler
      <4>1. current[k] = Head(jobs[k]) /\ fdOf[Head(jobs[k])] \in Fds
        BY <3>2, FirstJob DEF PlaceInv, PlaceOf
      <4> QED BY <1>8, <4>1
    <3>3. PlaceOf(k) /\ fdOf' = fdOf /\ closed' = closed /\ (Closing(k)' <=> Closing(k))
      BY <1>1, <1>12 DEF PlaceInv
    <3> QED BY <3>1, <3>2, <3>3, SMTT(30) DEF PlaceOf
  <2> QED BY <2>1, <2>2
<1>22. ASSUME NEW d \in Clients, d # c, NEW k \in Handlers, Work(d) \in events[k] PROVE handle'[fdOf[d]] = handle[fdOf[d]]
  <2>1. fdOf[d] # f /\ fdOf[d] \in Fds
    BY <1>3, <1>22, Holders DEF FdInv, f
  <2> QED BY <1>8, <2>1
<1>23. NetInv'
  <2> SUFFICES ASSUME NEW k \in Handlers, NEW d \in Clients, Net(d) \in events'[k]
               PROVE  Work(d) \in events'[k] /\ handle'[fdOf[d]].network = Net(d)
    BY <1>1 DEF NetInv
  <2>1. CASE d = c /\ k = h
    BY <1>2, <1>3, <1>4, <1>8, <1>14, <2>1 DEF f
  <2>2. CASE Net(d) \in events[k]
    <3>1. Work(d) \in events[k] /\ handle[fdOf[d]].network = Net(d) /\ d # c
      BY <1>3, <2>2 DEF EventInv, NetInv, Fresh
    <3> QED BY <1>14, <1>22, <3>1
  <2> QED BY <1>14, <2>1, <2>2
<1>24. WorkInv'
  <2> SUFFICES ASSUME NEW k \in Handlers, NEW d \in Clients, Work(d) \in events[k] PROVE WorkOf(k, d)'
    BY <1>14 DEF WorkInv
  <2>1. WorkOf(k, d) /\ fdOf[d] \in Fds
    BY Holders DEF EventInv, WorkInv
  <2>2. CASE d = c
    <3>1. k = h /\ c \notin closed /\ Net(c) \in events'[h]
      BY <1>3, <1>9, <2>2 DEF Fresh
    <3> QED BY <1>1, <1>8, <2>1, <2>2, <3>1 DEF WorkOf
  <2>3. CASE d # c /\ k = h
    <3>1. Net(d) \in events[h] /\ d \notin closed
      BY <1>1, <2>1, <2>3 DEF WorkOf, Closing, c
    <3> QED BY <1>1, <1>8, <1>14, <2>1, <2>3, <3>1 DEF WorkOf
  <2>4. CASE k # h
    <3>1. handlerAt'[k] = handlerAt[k] /\ current'[k] = current[k] /\ (Closing(k)' <=> Closing(k))
      BY <1>7, <1>12, <2>4 DEF Moves
    <3> QED BY <1>1, <1>8, <1>14, <2>1, <3>1 DEF WorkOf
  <2> QED BY <2>2, <2>3, <2>4
<1> QED BY <1>11, <1>13, <1>18, <1>19, <1>20, <1>21, <1>23, <1>24 DEF JobInv, EventInv

\* A connection that is being closed loses its events.
LEMMA HandleUnregister ==
    ASSUME HandleInv, NEW h \in Handlers, UnregisterNetworkEvent(h)
    PROVE  HandleInv'
<1> USE DEF HandleInv
<1> DEFINE c == current[h]
<1>1. /\ handlerAt[h] = "network" /\ handlerAt' = [handlerAt EXCEPT ![h] = "workpool"]
      /\ events' = [events EXCEPT ![handle[fdOf[c]].handler] = @ \ {handle[fdOf[c]].network}]
      /\ accepted' = accepted /\ nextHandler' = nextHandler /\ fdOf' = fdOf /\ closed' = closed
      /\ jobs' = jobs /\ current' = current /\ handle' = handle
  BY DEF UnregisterNetworkEvent, UnregisterEvent
<1>2. c \in closed /\ c \in Clients /\ Work(c) \in events[h] /\ Net(c) \in events[h]
  BY <1>1 DEF PlaceInv, PlaceOf, Closing, HandleType
<1>3. handle[fdOf[c]].handler = h /\ handle[fdOf[c]].network = Net(c)
  BY <1>2 DEF EventInv, NetInv, WorkInv, WorkOf
<1> HIDE DEF c
<1>4. Moves(h, "workpool", c)
  BY <1>1 DEF Moves, HandleType, Places, c
<1>5. /\ events' \in [Handlers -> SUBSET Event] /\ events'[h] = events[h] \ {Net(c)}
      /\ \A k \in Handlers : k # h => events'[k] = events[k]
  BY <1>1, <1>3 DEF HandleType
<1>6. HandleType'
  BY <1>1, <1>4, <1>5 DEF HandleType, Moves
<1>7. \A k \in Handlers : (Closing(k)' <=> Closing(k)) /\ (handlerAt'[k] = "register" <=> handlerAt[k] = "register")
  BY <1>1, <1>4 DEF Closing, Moves
<1>8. FdInv'
  <2>1. \A d \in Clients : Holds(d)' => Holds(d)
    BY <1>1, <1>7, SMTT(30) DEF Holds
  <2> QED BY <1>1, <2>1, FdKept DEF FdInv
<1>9. ASSUME NEW k \in Handlers, NEW d
      PROVE  /\ Work(d) \in events'[k] <=> Work(d) \in events[k]
             /\ Net(d) \in events'[k] => Net(d) \in events[k]
             /\ Net(d) \in events[k] => Net(d) \in events'[k] \/ (k = h /\ d = c)
  <2>1. Work(d) # Net(c) /\ (Net(d) = Net(c) => d = c)
    BY EventNames
  <2>2. events'[k] = events[k] \/ (k = h /\ events'[k] = events[k] \ {Net(c)})
    BY <1>5
  <2> QED BY <2>1, <2>2
<1>10. JobInv'
  BY <1>1, <1>7, <1>9, SMTT(30) DEF JobInv, JobsOnce, JobsFresh, AcceptedFresh, Fresh
<1>11. PlaceInv'
  <2> SUFFICES ASSUME NEW k \in Handlers PROVE PlaceOf(k)'
    BY DEF PlaceInv
  <2>1. CASE k = h
    <3>1. handlerAt'[k] = "workpool" /\ current'[k] = c /\ Work(c) \in events'[k] /\ Net(c) \notin events'[k]
      BY <1>2, <1>4, <1>5, <1>9, <2>1 DEF Moves
    <3> QED BY <1>1, <1>2, <3>1 DEF PlaceOf
  <2>2. CASE k # h
    <3>1. handlerAt'[k] = handlerAt[k] /\ current'[k] = current[k] /\ events'[k] = events[k] /\ PlaceOf(k)
      BY <1>4, <1>5, <2>2 DEF Moves, PlaceInv
    <3> QED BY <1>1, <1>7, <3>1, SMTT(30) DEF PlaceOf
  <2> QED BY <2>1, <2>2
<1>12. NetInv'
  BY <1>1, <1>9, SMTT(30) DEF EventInv, NetInv
<1>13. WorkInv'
  <2> SUFFICES ASSUME NEW k \in Handlers, NEW d \in Clients, Work(d) \in events[k] PROVE WorkOf(k, d)'
    BY <1>9 DEF WorkInv
  <2>1. WorkOf(k, d)
    BY DEF EventInv, WorkInv
  <2>2. CASE k = h /\ d = c
    <3>1. handlerAt'[k] = "workpool" /\ current'[k] = d /\ Closing(k)'
      BY <1>4, <2>2 DEF Moves, Closing
    <3> QED BY <1>1, <2>1, <3>1 DEF WorkOf
  <2>3. CASE k = h /\ d # c
    <3>1. Net(d) \in events'[k] /\ d \notin closed
      BY <1>9, <2>1, <2>3 DEF WorkOf, c
    <3> QED BY <1>1, <2>1, <3>1 DEF WorkOf
  <2>4. CASE k # h
    <3>1. handlerAt'[k] = handlerAt[k] /\ current'[k] = current[k] /\ events'[k] = events[k]
      BY <1>4, <1>5, <2>4 DEF Moves
    <3> QED BY <1>1, <1>7, <2>1, <3>1 DEF WorkOf
  <2> QED BY <2>2, <2>3, <2>4
<1> QED BY <1>6, <1>8, <1>10, <1>11, <1>12, <1>13 DEF EventInv

LEMMA HandleGone ==
    ASSUME HandleInv, NEW h \in Handlers, UnregisterWorkpoolEvent(h)
    PROVE  HandleInv'
<1> USE DEF HandleInv
<1> DEFINE c == current[h]
<1>1. /\ handlerAt[h] = "workpool" /\ handlerAt' = [handlerAt EXCEPT ![h] = "loop"]
      /\ events' = [events EXCEPT ![handle[fdOf[c]].handler] = @ \ {handle[fdOf[c]].workpool}]
      /\ accepted' = accepted /\ nextHandler' = nextHandler /\ fdOf' = fdOf /\ closed' = closed
      /\ jobs' = jobs /\ current' = [current EXCEPT ![h] = Nobody] /\ handle' = handle
  BY DEF UnregisterWorkpoolEvent, UnregisterEvent
<1>2. c \in closed /\ c \in Clients /\ Work(c) \in events[h] /\ Net(c) \notin events[h]
  BY <1>1 DEF PlaceInv, PlaceOf, Closing, HandleType
<1>3. handle[fdOf[c]].handler = h /\ handle[fdOf[c]].workpool = Work(c)
  BY <1>2 DEF EventInv, WorkInv, WorkOf
<1> HIDE DEF c
<1>4. Moves(h, "loop", Nobody)
  BY <1>1 DEF Moves, HandleType, Places
<1>5. /\ events' \in [Handlers -> SUBSET Event] /\ events'[h] = events[h] \ {Work(c)}
      /\ \A k \in Handlers : k # h => events'[k] = events[k]
  BY <1>1, <1>3 DEF HandleType
<1>6. HandleType'
  BY <1>1, <1>4, <1>5 DEF HandleType, Moves
<1>7. \A k \in Handlers : /\ Closing(k)' => Closing(k) /\ current'[k] = current[k]
                          /\ handlerAt'[k] = "register" <=> handlerAt[k] = "register"
  BY <1>1, <1>4 DEF Closing, Moves
<1>8. FdInv'
  <2>1. \A d \in Clients : Holds(d)' => Holds(d)
    BY <1>1, <1>7, SMTT(30) DEF Holds
  <2> QED BY <1>1, <2>1, FdKept DEF FdInv
<1>9. ASSUME NEW k \in Handlers, NEW d
      PROVE  /\ Net(d) \in events'[k] <=> Net(d) \in events[k]
             /\ Work(d) \in events'[k] => Work(d) \in events[k] /\ ~(k = h /\ d = c)
             /\ Work(d) \in events[k] => Work(d) \in events'[k] \/ (k = h /\ d = c)
  <2>1. Net(d) # Work(c) /\ (Work(d) = Work(c) => d = c)
    BY EventNames
  <2>2. (k # h /\ events'[k] = events[k]) \/ (k = h /\ events'[k] = events[k] \ {Work(c)})
    BY <1>5
  <2> QED BY <2>1, <2>2
<1>10. JobInv'
  BY <1>1, <1>7, <1>9, SMTT(30) DEF JobInv, JobsOnce, JobsFresh, AcceptedFresh, Fresh
<1>11. PlaceInv'
  <2> SUFFICES ASSUME NEW k \in Handlers PROVE PlaceOf(k)'
    BY DEF PlaceInv
  <2>1. CASE k = h
    BY <1>4, <2>1 DEF Moves, PlaceOf, Closing
  <2>2. CASE k # h
    <3>1. handlerAt'[k] = handlerAt[k] /\ current'[k] = current[k] /\ events'[k] = events[k] /\ PlaceOf(k)
      BY <1>4, <1>5, <2>2 DEF Moves, PlaceInv
    <3>2. Closing(k)' <=> Closing(k)
      BY <3>1 DEF Closing
    <3>3. fdOf' = fdOf /\ closed' = closed /\ jobs' = jobs /\ handle' = handle
      BY <1>1
    <3> QED BY <3>1, <3>2, <3>3, SMTT(30) DEF PlaceOf
  <2> QED BY <2>1, <2>2
<1>12. NetInv'
  <2> SUFFICES ASSUME NEW k \in Handlers, NEW d \in Clients, Net(d) \in events[k]
               PROVE  Work(d) \in events'[k] /\ handle[fdOf[d]].network = Net(d)
    BY <1>1, <1>9 DEF NetInv
  <2> QED BY <1>2, <1>9 DEF EventInv, NetInv
<1>13. WorkInv'
  <2> SUFFICES ASSUME NEW k \in Handlers, NEW d \in Clients, Work(d) \in events'[k] PROVE WorkOf(k, d)'
    BY DEF WorkInv
  <2>1. WorkOf(k, d) /\ ~(k = h /\ d = c)
    BY <1>9 DEF EventInv, WorkInv
  <2>2. CASE k = h
    <3>1. Net(d) \in events'[k] /\ d \notin closed
      BY <1>9, <2>1, <2>2 DEF WorkOf, c
    <3> QED BY <1>1, <2>1, <3>1 DEF WorkOf
  <2>3. CASE k # h
    <3>1. handlerAt'[k] = handlerAt[k] /\ current'[k] = current[k] /\ events'[k] = events[k]
      BY <1>4, <1>5, <2>3 DEF Moves
    <3>2. Closing(k)' <=> Closing(k)
      BY <3>1 DEF Closing
    <3> QED BY <1>1, <2>1, <3>1, <3>2 DEF WorkOf
  <2> QED BY <2>2, <2>3
<1> QED BY <1>6, <1>8, <1>10, <1>11, <1>12, <1>13 DEF EventInv

LEMMA HandleStep ==
    ASSUME ~PromptReuse, HandleInv, [HNext]_handleVars
    PROVE  HandleInv'
<1>1. CASE UNCHANGED handleVars
  <2>1. /\ fdOf' = fdOf /\ closed' = closed /\ accepted' = accepted /\ nextHandler' = nextHandler /\ jobs' = jobs
        /\ handle' = handle /\ events' = events /\ handlerAt' = handlerAt /\ current' = current
    BY <1>1 DEF handleVars
  <2>2. HandleType' /\ JobInv'
    BY <2>1, SMTT(30) DEF HandleInv, HandleType, JobInv, JobsOnce, JobsFresh, AcceptedFresh, Fresh
  <2>3. FdInv' /\ EventInv'
    BY <2>1, SMTT(30) DEF HandleInv, FdInv, Holds, EventInv, NetInv, WorkInv, WorkOf, Closing
  <2>4. PlaceInv'
    BY <2>1, SMTT(30) DEF HandleInv, PlaceInv, PlaceOf, Closing
  <2> QED BY <2>2, <2>3, <2>4 DEF HandleInv
<1> QED
  BY <1>1, HandleAccept, HandleNotify, HandleActivate, HandleLooks, HandleMade, HandleWorkpool, HandleNetwork,
     HandleClose, HandleUnregister, HandleGone DEF HNext, HandlerThread

\* No two handler threads work with the same handle, and no event of a connection outlives
\* it or is lost to the close of another one that had the same descriptor, if the kernel
\* gives a descriptor out again only when its handler has unregistered the events.  (Between
\* Close and UnregisterEvent nothing prevents that: PromptReuse.)
THEOREM HandlesAreOwned ==
    ASSUME ~PromptReuse
    PROVE  HSpec => []HandlesOwned
<1>1. HInit => HandleInv
  BY HandleInitInv
<1>2. HandleInv /\ [HNext]_handleVars => HandleInv'
  BY HandleStep
<1>3. HandleInv => HandlesOwned
  <2> SUFFICES ASSUME HandleInv PROVE HandleHasOneThread /\ EventsMatchConnections
    BY DEF HandlesOwned
  <2> USE DEF HandleInv
  <2>1. ASSUME NEW h \in Handlers, current[h] # Nobody
        PROVE  \/ current[h] \notin closed /\ handlerAt[h] \in {"manual", "register"}
               \/ current[h] \in closed /\ Closing(h)
    <3>1. CASE handlerAt[h] \in {"manual", "register"}
      <4>1. Fresh(Head(jobs[h]))
        BY <3>1, FirstJob
      <4> QED BY <3>1, <4>1 DEF PlaceInv, PlaceOf, Fresh
    <3>2. CASE Closing(h)
      BY <3>2 DEF PlaceInv, PlaceOf
    <3>3. handlerAt[h] \in {"loop", "adopt", "manual", "register"} \/ Closing(h)
      BY DEF HandleType, Places, Closing
    <3> QED BY <2>1, <3>1, <3>2, <3>3 DEF PlaceInv, PlaceOf
  <2>2. ASSUME NEW h \in Handlers, current[h] # Nobody PROVE current[h] \in Clients /\ Holds(current[h])
    <3>1. CASE handlerAt[h] \in {"manual", "register"}
      <4>1. current[h] = Head(jobs[h])
        BY <3>1 DEF PlaceInv, PlaceOf
      <4>2. Head(jobs[h]) \in Clients /\ Holds(Head(jobs[h]))
        BY <3>1, FirstJob
      <4> QED BY <4>1, <4>2
    <3>2. CASE Closing(h)
      BY <3>2 DEF PlaceInv, PlaceOf, Holds, FdInv, HandleType
    <3> QED BY <2>1, <2>2, <3>1, <3>2
  <2>3. ASSUME NEW h \in Handlers, NEW k \in Handlers, h # k, current[h] # Nobody, current[h] = current[k] PROVE FALSE
    <3>1. CASE handlerAt[h] \in {"manual", "register"} /\ handlerAt[k] \in {"manual", "register"}
      <4>1. current[h] = Head(jobs[h]) /\ current[k] = jobs[k][1] /\ 1 \in 1 .. Len(jobs[k])
        BY <3>1, JobElements DEF PlaceInv, PlaceOf
      <4>2. \A i \in 1 .. Len(jobs[k]) : jobs[k][i] = Head(jobs[h]) => k = h
        BY <3>1, FirstJob
      <4> QED BY <2>3, <4>1, <4>2
    <3>2. CASE Closing(h) /\ Closing(k)
      <4>1. Work(current[h]) \in events[h] /\ Work(current[h]) \in events[k] /\ current[h] \in Clients
        BY <2>3, <3>2, <2>2 DEF PlaceInv, PlaceOf
      <4>2. WorkOf(h, current[h]) /\ WorkOf(k, current[h])
        BY <4>1 DEF EventInv, WorkInv
      <4> QED BY <2>3, <4>2 DEF WorkOf
    <3> QED BY <2>1, <2>3, <3>1, <3>2
  <2>4. HandleHasOneThread
    BY <2>2, <2>3 DEF HandleHasOneThread, FdInv
  <2>5. EventsMatchConnections
    <3> SUFFICES ASSUME NEW h \in Handlers, handlerAt[h] = "loop", NEW e \in events[h]
                 PROVE  /\ e[1] \notin closed
                        /\ handle[fdOf[e[1]]].handler = h
                        /\ e \in {handle[fdOf[e[1]]].network, handle[fdOf[e[1]]].workpool}
                        /\ Net(e[1]) \in events[h] /\ Work(e[1]) \in events[h]
      BY DEF EventsMatchConnections, Net, Work
    <3>1. PICK c \in Clients : e = Net(c) \/ e = Work(c)
      BY DEF HandleType, Event
    <3>2. e[1] = c
      BY <3>1, EventNames
    <3>3. Work(c) \in events[h]
      BY <3>1 DEF EventInv, NetInv
    <3>4. WorkOf(h, c)
      BY <3>3 DEF EventInv, WorkInv
    <3>5. Net(c) \in events[h] /\ c \notin closed
      BY <3>4 DEF WorkOf, Closing
    <3>6. handle[fdOf[c]].network = Net(c)
      BY <3>5 DEF EventInv, NetInv
    <3> QED BY <3>1, <3>2, <3>3, <3>4, <3>5, <3>6 DEF WorkOf
  <2> QED BY <2>4, <2>5
<1> QED BY <1>1, <1>2, <1>3, PTL DEF HSpec
=============================================================================
