----------------------- MODULE IngressReceiverProofs -----------------------
(***************************************************************************)
(* Theorems about receivers for any number of threads, descriptors,        *)
(* datagrams and errors: types, the ownership of descriptors, what a run   *)
(* returns, and the numbers of the events it delivers.                     *)
(***************************************************************************)
EXTENDS IngressStream, SequenceTheorems, TLAPS

----------------------------------------------------------------------------
(***************************************************************************)
(* The inductive invariant.  Owners says of every descriptor what          *)
(* DescriptorsAreOwned says of the set of them.  Progress is what a run    *)
(* knows at each point: its result is open until it returns, nothing has   *)
(* failed before abort, where the saved errno is the one of the failure,   *)
(* the socket does not wait once F_SETFL is done, and shutdown is reached  *)
(* on demand only.                                                         *)
(***************************************************************************)
Owner(r, fd) == Holds(r) /\ local[r].sockfd = fd

Owners ==
  /\ \A r \in Receivers : Holds(r) => local[r].sockfd \in Fds
  /\ \A fd \in Fds : sockets[fd].open <=> \E r \in Receivers : Owner(r, fd)
  /\ \A q, r \in Receivers :
       Holds(q) /\ Holds(r) /\ local[q].sockfd = local[r].sockfd => q = r

Configured(r) ==
  /\ local[r].point \in LoopPoints \union {"bind"} => SocketOf(r).nonblocking
  /\ local[r].point \in LoopPoints => SocketOf(r).port = r

Progress(r) ==
  /\ local[r].point # "idle" => local[r].result = NULL
  /\ local[r].point \notin {"idle", "abort"} => cause[r] = NULL
  /\ local[r].point = "abort" =>
       local[r].saved_errno = cause[r] /\ cause[r] # NULL
  /\ local[r].point = "shutdown" => ~keep[r]

IInv == /\ TypeOK
        /\ Owners
        /\ \A r \in Receivers : Configured(r) /\ Progress(r)
        /\ ResultTellsTheTruth

\* Only r's thread, and only its locals and errno, may have changed.
OnlyLocals(r, l) == local' = [local EXCEPT ![r] = l]

LEMMA PointsDiffer ==
  /\ OpenPoints = {"setsockopt", "getfl", "setfl", "bind", "poll", "recv",
                   "event", "abort", "shutdown"}
  /\ LoopPoints = {"poll", "recv", "event"}
  BY DEF OpenPoints, LoopPoints, SetupPoints

LEMMA NoRunType ==
  /\ NoRun \in LocalType
  /\ NoRun.point = "idle" /\ NoRun.result = NULL
  /\ \A value \in {"0", "-1"} :
       LET l == [NoRun EXCEPT !.result = value] IN
       l \in LocalType /\ l.point = "idle" /\ l.result = value
  /\ LET l == [NoRun EXCEPT !.point = "socket"] IN
     l \in LocalType /\ l.point = "socket" /\ l.result = NULL
  BY ReceiverAssumption DEF NoRun, LocalType, Errno

LEMMA NewSocketType ==
  /\ NewSocket \in SocketType /\ NewSocket.open
  /\ Len(NewSocket.queue) <= QueueLimit
  <1>1. Closed \in SocketType
    BY EmptySeq DEF Closed, SocketType
  <1>2. /\ NewSocket \in SocketType /\ NewSocket.open
        /\ NewSocket.queue = << >>
    BY <1>1 DEF NewSocket, SocketType, Closed
  <1>3. Len(NewSocket.queue) = 0
    BY <1>2, EmptySeq
  <1>. QED  BY <1>2, <1>3, ReceiverAssumption

----------------------------------------------------------------------------
(* Ownership. *)

\* A step of a thread that keeps its descriptor and leaves its socket open
\* changes no owner.
LEMMA KeepsDescriptor ==
  ASSUME IInv, NEW r \in Receivers, NEW l \in LocalType,
         NEW s \in SocketType,
         Holds(r), OnlyLocals(r, l), l.point \in OpenPoints,
         l.sockfd = local[r].sockfd,
         sockets' = [sockets EXCEPT ![local[r].sockfd] = s],
         s.open, Len(s.queue) <= QueueLimit,
         l.point \in LoopPoints \union {"bind"} => s.nonblocking,
         l.point \in LoopPoints => s.port = r
  PROVE  /\ local' \in [Receivers -> LocalType]
         /\ sockets' \in [Fds -> SocketType]
         /\ \A fd \in Fds : /\ Len(sockets'[fd].queue) <= QueueLimit
                            /\ ~sockets'[fd].open => sockets'[fd] = Closed
         /\ Owners'
         /\ \A q \in Receivers : Configured(q)'
  <1>1. /\ local \in [Receivers -> LocalType] /\ sockets \in [Fds -> SocketType]
        /\ local[r].sockfd \in Fds
    BY DEF IInv, TypeOK, Owners
  <1>2. /\ local'[r] = l
        /\ \A q \in Receivers \ {r} : local'[q] = local[q]
        /\ sockets'[l.sockfd] = s
        /\ \A fd \in Fds \ {l.sockfd} : sockets'[fd] = sockets[fd]
    BY <1>1 DEF OnlyLocals
  <1>3. local' \in [Receivers -> LocalType] /\ sockets' \in [Fds -> SocketType]
    BY <1>1 DEF OnlyLocals
  <1>4. \A q \in Receivers : /\ Holds(q)' <=> Holds(q)
                             /\ local'[q].sockfd = local[q].sockfd
    BY <1>2 DEF Holds
  <1>5. \A fd \in Fds : sockets'[fd].open <=> sockets[fd].open
    BY <1>1, <1>2 DEF IInv, Owners, Owner
  <1>6. Owners'
    BY <1>4, <1>5 DEF IInv, Owners, Owner
  <1>7. ASSUME NEW q \in Receivers
        PROVE  Configured(q)'
    <2>1. CASE q = r
      BY <1>2, <2>1 DEF Configured, SocketOf
    <2>2. CASE q # r /\ local[q].point \in OpenPoints
      <3>1. local[q].sockfd \in Fds \ {l.sockfd}
        BY <2>2 DEF IInv, Owners, Holds
      <3>. QED  BY <1>2, <2>2, <3>1 DEF IInv, Configured, SocketOf
    <2>3. CASE q # r /\ local[q].point \notin OpenPoints
      BY <1>2, <2>3, PointsDiffer DEF Configured
    <2>. QED  BY <2>1, <2>2, <2>3
  <1>. QED  BY <1>1, <1>2, <1>3, <1>6, <1>7 DEF IInv, TypeOK

\* A thread that holds none may change its locals as long as it takes none.
LEMMA HoldsNone ==
  ASSUME IInv, NEW r \in Receivers, NEW l \in LocalType,
         ~Holds(r), OnlyLocals(r, l), l.point \notin OpenPoints,
         UNCHANGED sockets
  PROVE  /\ local' \in [Receivers -> LocalType]
         /\ Owners'
         /\ \A q \in Receivers : Configured(q)'
  <1>1. local \in [Receivers -> LocalType]
    BY DEF IInv, TypeOK
  <1>2. /\ local'[r] = l
        /\ \A q \in Receivers \ {r} : local'[q] = local[q]
        /\ local' \in [Receivers -> LocalType]
    BY <1>1 DEF OnlyLocals
  <1>3. \A q \in Receivers : Holds(q)' <=> Holds(q)
    BY <1>2 DEF Holds
  <1>4. \A q \in Receivers : Holds(q) => local'[q] = local[q]
    BY <1>2
  <1>5. Owners'
    BY <1>3, <1>4 DEF IInv, Owners, Owner
  <1>6. ASSUME NEW q \in Receivers
        PROVE  Configured(q)'
    <2>1. CASE q = r
      BY <1>2, <2>1, PointsDiffer DEF Configured
    <2>2. CASE q # r
      BY <1>2, <2>2 DEF IInv, Configured, SocketOf
    <2>. QED  BY <2>1, <2>2
  <1>. QED  BY <1>2, <1>5, <1>6

\* socket gives a number that is free.
LEMMA TakesDescriptor ==
  ASSUME IInv, NEW r \in Receivers, NEW fd \in Fds, NEW l \in LocalType,
         ~Holds(r), ~sockets[fd].open, OnlyLocals(r, l),
         l.point = "setsockopt", l.sockfd = fd,
         sockets' = [sockets EXCEPT ![fd] = NewSocket]
  PROVE  /\ local' \in [Receivers -> LocalType]
         /\ sockets' \in [Fds -> SocketType]
         /\ \A f \in Fds : /\ Len(sockets'[f].queue) <= QueueLimit
                           /\ ~sockets'[f].open => sockets'[f] = Closed
         /\ Owners'
         /\ \A q \in Receivers : Configured(q)'
  <1>1. local \in [Receivers -> LocalType] /\ sockets \in [Fds -> SocketType]
    BY DEF IInv, TypeOK
  <1>2. /\ NewSocket \in SocketType /\ NewSocket.open
        /\ Len(NewSocket.queue) <= QueueLimit
    BY NewSocketType
  <1>3. /\ local'[r] = l /\ sockets'[fd] = NewSocket
        /\ \A q \in Receivers \ {r} : local'[q] = local[q]
        /\ \A f \in Fds \ {fd} : sockets'[f] = sockets[f]
    BY <1>1 DEF OnlyLocals
  <1>4. local' \in [Receivers -> LocalType] /\ sockets' \in [Fds -> SocketType]
    BY <1>1, <1>2 DEF OnlyLocals
  <1>5. \A q \in Receivers : Holds(q) => q # r /\ local[q].sockfd # fd
    BY DEF IInv, Owners, Owner
  <1>6. /\ Holds(r)' /\ local'[r].sockfd = fd
        /\ \A q \in Receivers \ {r} : /\ Holds(q)' <=> Holds(q)
                                      /\ local'[q].sockfd = local[q].sockfd
    BY <1>3, PointsDiffer DEF Holds
  <1>7. Owners'
    <2>1. \A q \in Receivers : Holds(q)' => local'[q].sockfd \in Fds
      BY <1>6 DEF IInv, Owners
    <2>2. \A f \in Fds :
            sockets'[f].open <=> \E q \in Receivers : Owner(q, f)'
      BY <1>2, <1>3, <1>5, <1>6 DEF IInv, Owners, Owner
    <2>3. \A p, q \in Receivers :
            Holds(p)' /\ Holds(q)' /\ local'[p].sockfd = local'[q].sockfd
              => p = q
      BY <1>5, <1>6 DEF IInv, Owners
    <2>. QED  BY <2>1, <2>2, <2>3 DEF Owners
  <1>8. ASSUME NEW q \in Receivers
        PROVE  Configured(q)'
    <2>1. CASE q = r
      BY <1>3, <2>1, PointsDiffer DEF Configured
    <2>2. CASE q # r /\ Holds(q)
      <3>1. local[q].sockfd \in Fds \ {fd}
        BY <1>5, <2>2 DEF IInv, Owners
      <3>. QED  BY <1>3, <2>2, <3>1 DEF IInv, Configured, SocketOf
    <2>3. CASE q # r /\ ~Holds(q)
      BY <1>3, <2>3, PointsDiffer DEF Configured, Holds
    <2>. QED  BY <2>1, <2>2, <2>3
  <1>. QED  BY <1>1, <1>2, <1>3, <1>4, <1>7, <1>8 DEF IInv, TypeOK

\* close gives the number back.
LEMMA ClosesDescriptor ==
  ASSUME IInv, NEW r \in Receivers, NEW l \in LocalType,
         Holds(r), OnlyLocals(r, l), l.point = "idle", Close(r)
  PROVE  /\ local' \in [Receivers -> LocalType]
         /\ sockets' \in [Fds -> SocketType]
         /\ \A f \in Fds : /\ Len(sockets'[f].queue) <= QueueLimit
                           /\ ~sockets'[f].open => sockets'[f] = Closed
         /\ Owners'
         /\ \A q \in Receivers : Configured(q)'
  <1>. DEFINE fd == local[r].sockfd
  <1>1. /\ local \in [Receivers -> LocalType] /\ sockets \in [Fds -> SocketType]
        /\ fd \in Fds
    BY DEF IInv, TypeOK, Owners
  <1>2. /\ Closed \in SocketType /\ ~Closed.open
        /\ Len(Closed.queue) <= QueueLimit
    BY ReceiverAssumption, EmptySeq DEF Closed, SocketType
  <1>3. /\ local'[r] = l /\ sockets'[fd] = Closed
        /\ \A q \in Receivers \ {r} : local'[q] = local[q]
        /\ \A f \in Fds \ {fd} : sockets'[f] = sockets[f]
    BY <1>1 DEF OnlyLocals, Close
  <1>4. local' \in [Receivers -> LocalType] /\ sockets' \in [Fds -> SocketType]
    BY <1>1, <1>2 DEF OnlyLocals, Close
  <1>5. \A q \in Receivers \ {r} : Holds(q) => local[q].sockfd # fd
    BY DEF IInv, Owners
  <1>6. /\ ~Holds(r)'
        /\ \A q \in Receivers \ {r} : /\ Holds(q)' <=> Holds(q)
                                      /\ local'[q].sockfd = local[q].sockfd
    BY <1>3, PointsDiffer DEF Holds
  <1>. HIDE DEF fd
  <1>7. Owners'
    <2>1. \A q \in Receivers : Holds(q)' => local'[q].sockfd \in Fds
      BY <1>6 DEF IInv, Owners
    <2>2. ASSUME NEW f \in Fds
          PROVE  sockets'[f].open <=> \E q \in Receivers : Owner(q, f)'
      <3>1. CASE f = fd
        BY <1>2, <1>3, <1>5, <1>6, <3>1 DEF Owner
      <3>2. CASE f # fd
        BY <1>3, <1>6, <3>2 DEF IInv, Owners, Owner, fd
      <3>. QED  BY <3>1, <3>2
    <2>3. \A p, q \in Receivers :
            Holds(p)' /\ Holds(q)' /\ local'[p].sockfd = local'[q].sockfd
              => p = q
      BY <1>6 DEF IInv, Owners
    <2>. QED  BY <2>1, <2>2, <2>3 DEF Owners
  <1>8. ASSUME NEW q \in Receivers
        PROVE  Configured(q)'
    <2>1. CASE q = r
      BY <1>3, <2>1, PointsDiffer DEF Configured
    <2>2. CASE q # r /\ Holds(q)
      <3>1. local[q].sockfd \in Fds \ {fd}
        BY <1>5, <2>2 DEF IInv, Owners
      <3>. QED  BY <1>3, <2>2, <3>1 DEF IInv, Configured, SocketOf
    <2>3. CASE q # r /\ ~Holds(q)
      BY <1>3, <2>3, PointsDiffer DEF Configured, Holds
    <2>. QED  BY <2>1, <2>2, <2>3
  <1>. QED  BY <1>1, <1>2, <1>3, <1>4, <1>7, <1>8 DEF IInv, TypeOK

\* A step that fills a queue or empties it changes no owner either.
LEMMA KeepsOwners ==
  ASSUME IInv, NEW fd \in Fds, NEW s \in SocketType, UNCHANGED local,
         sockets' = [sockets EXCEPT ![fd] = s],
         s.open = sockets[fd].open, s.port = sockets[fd].port,
         s.nonblocking = sockets[fd].nonblocking
  PROVE  Owners' /\ \A q \in Receivers : Configured(q)'
  <1>1. sockets \in [Fds -> SocketType]
    BY DEF IInv, TypeOK
  <1>2. \A f \in Fds : /\ sockets'[f].open = sockets[f].open
                       /\ sockets'[f].port = sockets[f].port
                       /\ sockets'[f].nonblocking = sockets[f].nonblocking
    BY <1>1
  <1>3. Owners'
    BY <1>2 DEF IInv, Owners, Owner, Holds
  <1>4. ASSUME NEW q \in Receivers
        PROVE  Configured(q)'
    <2>1. CASE Holds(q)
      <3>1. local[q].sockfd \in Fds
        BY <2>1 DEF IInv, Owners
      <3>. QED  BY <1>2, <3>1 DEF IInv, Configured, SocketOf
    <2>2. CASE ~Holds(q)
      BY <2>2, PointsDiffer DEF Configured, Holds
    <2>. QED  BY <2>1, <2>2
  <1>. QED  BY <1>3, <1>4

----------------------------------------------------------------------------
(***************************************************************************)
(* Progress and the result, for a step of thread r: the other threads keep *)
(* theirs.  keep of r may change too.                                      *)
(***************************************************************************)
ThreadTypes ==
  /\ errno \in [Receivers -> Errno]
  /\ keep \in [Receivers -> BOOLEAN]
  /\ cause \in [Receivers -> Errno]

Truthful(r) ==
  /\ local[r].result = "-1" => cause[r] # NULL /\ errno[r] = cause[r]
  /\ local[r].result = "0" => cause[r] = NULL /\ ~keep[r]

LEMMA OtherThreads ==
  ASSUME IInv, NEW r \in Receivers, NEW l \in LocalType,
         NEW e \in Errno, NEW c \in Errno, NEW k \in BOOLEAN,
         OnlyLocals(r, l),
         errno' = [errno EXCEPT ![r] = e],
         cause' = [cause EXCEPT ![r] = c],
         keep' = [keep EXCEPT ![r] = k],
         Progress(r)', Truthful(r)'
  PROVE  /\ ThreadTypes'
         /\ \A q \in Receivers : Progress(q)'
         /\ ResultTellsTheTruth'
  <1>1. /\ local \in [Receivers -> LocalType] /\ ThreadTypes
    BY DEF IInv, TypeOK, ThreadTypes
  <1>2. \A q \in Receivers \ {r} : /\ local'[q] = local[q]
                                   /\ errno'[q] = errno[q]
                                   /\ cause'[q] = cause[q]
                                   /\ keep'[q] = keep[q]
    BY <1>1 DEF OnlyLocals, ThreadTypes
  <1>3. \A q \in Receivers \ {r} : Progress(q)' /\ Truthful(q)'
    BY <1>2 DEF IInv, Progress, Truthful, ResultTellsTheTruth
  <1>4. ThreadTypes'
    BY <1>1 DEF ThreadTypes
  <1>. QED  BY <1>3, <1>4 DEF ResultTellsTheTruth, Truthful

\* The values of r that a step leaves alone.
LEMMA Unchanged ==
  ASSUME IInv, NEW r \in Receivers
  PROVE  /\ errno = [errno EXCEPT ![r] = errno[r]] /\ errno[r] \in Errno
         /\ cause = [cause EXCEPT ![r] = cause[r]] /\ cause[r] \in Errno
         /\ keep = [keep EXCEPT ![r] = keep[r]] /\ keep[r] \in BOOLEAN
         /\ local[r] \in LocalType
         /\ Holds(r) => /\ local[r].sockfd \in Fds
                        /\ SocketOf(r) \in SocketType /\ SocketOf(r).open
                        /\ Len(SocketOf(r).queue) <= QueueLimit
                        /\ sockets = [sockets EXCEPT
                                        ![local[r].sockfd] = SocketOf(r)]
  BY DEF IInv, TypeOK, Owners, Owner, SocketOf

\* The invariant from its parts.
LEMMA Parts ==
  ASSUME local' \in [Receivers -> LocalType],
         sockets' \in [Fds -> SocketType],
         \A f \in Fds : /\ Len(sockets'[f].queue) <= QueueLimit
                        /\ ~sockets'[f].open => sockets'[f] = Closed,
         Owners', \A q \in Receivers : Configured(q)',
         ThreadTypes', \A q \in Receivers : Progress(q)',
         ResultTellsTheTruth'
  PROVE  IInv'
  BY DEF IInv, TypeOK, ThreadTypes

\* A step of the run that keeps the socket and fails not.
LEMMA RunsOn ==
  ASSUME IInv, NEW r \in Receivers, NEW l \in LocalType, NEW s \in SocketType,
         NEW e \in Errno,
         local[r].point \in OpenPoints \ {"abort"},
         l.point \in OpenPoints \ {"abort"},
         OnlyLocals(r, l),
         l.sockfd = local[r].sockfd, l.result = local[r].result,
         sockets' = [sockets EXCEPT ![local[r].sockfd] = s],
         s.open, Len(s.queue) <= QueueLimit,
         l.point \in LoopPoints \union {"bind"} => s.nonblocking,
         l.point \in LoopPoints => s.port = r,
         l.point = "shutdown" => ~keep[r],
         errno' = [errno EXCEPT ![r] = e],
         UNCHANGED <<cause, keep>>
  PROVE  IInv'
  <1>1. local'[r] = l
    BY DEF OnlyLocals, IInv, TypeOK
  <1>2. /\ local[r].result = NULL /\ cause[r] = NULL
    BY PointsDiffer DEF IInv, Progress
  <1>3. Progress(r)' /\ Truthful(r)'
    BY <1>1, <1>2, PointsDiffer, ReceiverAssumption DEF Progress, Truthful
  <1>4. Holds(r)
    BY DEF Holds
  <1>5. /\ cause' = [cause EXCEPT ![r] = cause[r]] /\ cause[r] \in Errno
        /\ keep' = [keep EXCEPT ![r] = keep[r]] /\ keep[r] \in BOOLEAN
    BY Unchanged
  <1>6. /\ ThreadTypes' /\ ResultTellsTheTruth'
        /\ \A q \in Receivers : Progress(q)'
    BY <1>3, <1>5, OtherThreads
  <1>. QED  BY <1>4, <1>6, KeepsDescriptor, Parts

----------------------------------------------------------------------------
(* Every action preserves the invariant. *)

LEMMA CallIInv ==
  ASSUME IInv, NEW r \in Receivers, NEW has_callbacks \in BOOLEAN,
         Call(r, has_callbacks)
  PROVE  IInv'
  <1>1. /\ ~Holds(r) /\ UNCHANGED sockets
        /\ errno[r] \in Errno /\ "EINVAL" \in Errno /\ NULL \in Errno
    BY Unchanged, PointsDiffer DEF Call, At, Holds, Errno
  <1>2. ASSUME NEW l \in LocalType, NEW e \in Errno, NEW c \in Errno,
               NEW k \in BOOLEAN, OnlyLocals(r, l), l.point \notin OpenPoints,
               errno' = [errno EXCEPT ![r] = e],
               cause' = [cause EXCEPT ![r] = c],
               keep' = [keep EXCEPT ![r] = k],
               Progress(r)', Truthful(r)'
        PROVE  IInv'
    <2>1. /\ ThreadTypes' /\ ResultTellsTheTruth'
          /\ \A q \in Receivers : Progress(q)'
      BY <1>2, OtherThreads
    <2>2. /\ local' \in [Receivers -> LocalType]
          /\ Owners'
          /\ \A q \in Receivers : Configured(q)'
      BY <1>1, <1>2, HoldsNone
    <2>. QED  BY <1>1, <2>1, <2>2, Parts DEF IInv, TypeOK
  <1>3. CASE ~has_callbacks
    <2>. DEFINE l == [NoRun EXCEPT !.result = "-1"]
    <2>1. /\ OnlyLocals(r, l)
          /\ errno' = [errno EXCEPT ![r] = "EINVAL"]
          /\ cause' = [cause EXCEPT ![r] = "EINVAL"]
          /\ keep' = [keep EXCEPT ![r] = keep[r]] /\ keep[r] \in BOOLEAN
      BY <1>3, Unchanged DEF Call, SetErrno, Return, OnlyLocals
    <2>2. l \in LocalType /\ l.point = "idle" /\ l.result = "-1"
      BY NoRunType
    <2>3. local'[r] = l /\ errno'[r] = "EINVAL" /\ cause'[r] = "EINVAL"
      BY <2>1 DEF OnlyLocals, IInv, TypeOK
    <2>. HIDE DEF l
    <2>4. Progress(r)' /\ Truthful(r)'
      BY <2>2, <2>3, ReceiverAssumption DEF Progress, Truthful
    <2>5. l.point \notin OpenPoints
      BY <2>2, PointsDiffer
    <2>. QED  BY <1>1, <1>2, <2>1, <2>2, <2>4, <2>5
  <1>4. CASE has_callbacks
    <2>. DEFINE l == [NoRun EXCEPT !.point = "socket"]
    <2>1. /\ OnlyLocals(r, l)
          /\ errno' = [errno EXCEPT ![r] = errno[r]]
          /\ cause' = [cause EXCEPT ![r] = NULL]
          /\ keep' = [keep EXCEPT ![r] = TRUE]
      BY <1>4, Unchanged DEF Call, OnlyLocals
    <2>2. l \in LocalType /\ l.point = "socket" /\ l.result = NULL
      BY NoRunType
    <2>3. local'[r] = l /\ cause'[r] = NULL
      BY <2>1 DEF OnlyLocals, IInv, TypeOK
    <2>. HIDE DEF l
    <2>4. Progress(r)' /\ Truthful(r)'
      BY <2>2, <2>3, ReceiverAssumption DEF Progress, Truthful
    <2>5. l.point \notin OpenPoints
      BY <2>2, PointsDiffer
    <2>. QED  BY <1>1, <1>2, <2>1, <2>2, <2>4, <2>5
  <1>. QED  BY <1>3, <1>4

LEMMA SocketIInv ==
  ASSUME IInv, NEW r \in Receivers, Socket(r)
  PROVE  IInv'
  <1>1. /\ local[r].point = "socket" /\ ~Holds(r)
        /\ local[r].result = NULL /\ cause[r] = NULL /\ local[r] \in LocalType
    BY Unchanged, PointsDiffer DEF Socket, At, Holds, IInv, Progress
  <1>2. /\ keep' = [keep EXCEPT ![r] = keep[r]] /\ keep[r] \in BOOLEAN
    BY Unchanged DEF Socket
  <1>3. ASSUME NEW error \in Errnos, SetErrno(r, error), Return(r, "-1"),
               UNCHANGED sockets
        PROVE  IInv'
    <2>. DEFINE l == [NoRun EXCEPT !.result = "-1"]
    <2>1. /\ OnlyLocals(r, l) /\ error \in Errno /\ error # NULL
          /\ errno' = [errno EXCEPT ![r] = error]
          /\ cause' = [cause EXCEPT ![r] = error]
      BY <1>3, ReceiverAssumption DEF SetErrno, Return, OnlyLocals, Errno
    <2>2. /\ l \in LocalType /\ l.point = "idle" /\ l.result = "-1"
          /\ l.point \notin OpenPoints
      BY NoRunType, PointsDiffer
    <2>3. local'[r] = l /\ errno'[r] = error /\ cause'[r] = error
      BY <2>1 DEF OnlyLocals, IInv, TypeOK
    <2>. HIDE DEF l
    <2>4. Progress(r)' /\ Truthful(r)'
      BY <2>1, <2>2, <2>3, ReceiverAssumption DEF Progress, Truthful
    <2>5. /\ ThreadTypes' /\ ResultTellsTheTruth'
          /\ \A q \in Receivers : Progress(q)'
      BY <1>2, <2>1, <2>2, <2>4, OtherThreads
    <2>6. /\ local' \in [Receivers -> LocalType] /\ Owners'
          /\ \A q \in Receivers : Configured(q)'
      BY <1>1, <1>3, <2>1, <2>2, HoldsNone
    <2>. QED  BY <1>3, <2>5, <2>6, Parts DEF IInv, TypeOK
  <1>4. ASSUME NEW fd \in Fds, ~sockets[fd].open,
               sockets' = [sockets EXCEPT ![fd] = NewSocket],
               local' = [local EXCEPT ![r].point = "setsockopt",
                                      ![r].sockfd = fd],
               UNCHANGED <<errno, cause>>
        PROVE  IInv'
    <2>. DEFINE l == [local[r] EXCEPT !.point = "setsockopt", !.sockfd = fd]
    <2>1. OnlyLocals(r, l)
      BY <1>4 DEF OnlyLocals, IInv, TypeOK
    <2>2. /\ l \in LocalType /\ l.point = "setsockopt" /\ l.sockfd = fd
          /\ l.result = NULL
      BY <1>1, PointsDiffer DEF LocalType
    <2>3. local'[r] = l
      BY <2>1 DEF OnlyLocals, IInv, TypeOK
    <2>. HIDE DEF l
    <2>4. Progress(r)' /\ Truthful(r)'
      BY <1>1, <1>4, <2>2, <2>3, ReceiverAssumption DEF Progress, Truthful
    <2>5. /\ errno' = [errno EXCEPT ![r] = errno[r]] /\ errno[r] \in Errno
          /\ cause' = [cause EXCEPT ![r] = cause[r]] /\ cause[r] \in Errno
      BY <1>4, Unchanged
    <2>6. /\ ThreadTypes' /\ ResultTellsTheTruth'
          /\ \A q \in Receivers : Progress(q)'
      BY <1>2, <2>1, <2>2, <2>4, <2>5, OtherThreads
    <2>. QED  BY <1>1, <1>4, <2>1, <2>2, <2>6, TakesDescriptor, Parts
  <1>. QED  BY <1>3, <1>4 DEF Socket

\* A failing call with the socket open leads to abort.
LEMMA FailOpenIInv ==
  ASSUME IInv, NEW r \in Receivers, FailOpen(r),
         local[r].point \in OpenPoints \ {"abort"}
  PROVE  IInv'
  <1>1. /\ Holds(r) /\ local[r].result = NULL /\ local[r] \in LocalType
        /\ SocketOf(r) \in SocketType /\ SocketOf(r).open
        /\ Len(SocketOf(r).queue) <= QueueLimit
        /\ sockets = [sockets EXCEPT ![local[r].sockfd] = SocketOf(r)]
    BY Unchanged, PointsDiffer DEF Holds, IInv, Progress
  <1>2. PICK error \in Errnos :
          /\ SetErrno(r, error)
          /\ local' = [local EXCEPT ![r].point = "abort",
                                    ![r].saved_errno = error]
    BY DEF FailOpen
  <1>. DEFINE l == [local[r] EXCEPT !.point = "abort", !.saved_errno = error]
  <1>3. /\ OnlyLocals(r, l) /\ error \in Errno /\ error # NULL
        /\ errno' = [errno EXCEPT ![r] = error]
        /\ cause' = [cause EXCEPT ![r] = error]
        /\ keep' = [keep EXCEPT ![r] = keep[r]] /\ keep[r] \in BOOLEAN
        /\ UNCHANGED sockets
    BY <1>2, ReceiverAssumption, Unchanged
       DEF OnlyLocals, SetErrno, FailOpen, Errno, IInv, TypeOK
  <1>4. /\ l \in LocalType /\ l.point = "abort" /\ l.saved_errno = error
        /\ l.sockfd = local[r].sockfd /\ l.result = NULL
        /\ l.point \in OpenPoints /\ l.point \notin LoopPoints \union {"bind"}
    BY <1>1, <1>3, PointsDiffer DEF LocalType
  <1>5. local'[r] = l /\ errno'[r] = error /\ cause'[r] = error
    BY <1>3 DEF OnlyLocals, IInv, TypeOK
  <1>. HIDE DEF l
  <1>6. Progress(r)' /\ Truthful(r)'
    BY <1>3, <1>4, <1>5, ReceiverAssumption DEF Progress, Truthful
  <1>7. /\ ThreadTypes' /\ ResultTellsTheTruth'
        /\ \A q \in Receivers : Progress(q)'
    BY <1>3, <1>4, <1>6, OtherThreads
  <1>. QED  BY <1>1, <1>3, <1>4, <1>7, KeepsDescriptor, Parts

\* A set-up call fails, or leaves the socket as s.
LEMMA ConfigureIInv ==
  ASSUME IInv, NEW r \in Receivers, NEW point \in OpenPoints \ {"abort"},
         NEW next \in OpenPoints \ {"abort", "shutdown"}, NEW s \in SocketType,
         Configure(r, point, s, next),
         s.open, Len(s.queue) <= QueueLimit,
         next \in LoopPoints \union {"bind"} => s.nonblocking,
         next \in LoopPoints => s.port = r
  PROVE  IInv'
  <1>1. local[r].point = point /\ local[r] \in LocalType /\ errno[r] \in Errno
    BY Unchanged DEF Configure, At
  <1>2. CASE FailOpen(r)
    BY <1>1, <1>2, FailOpenIInv
  <1>3. CASE /\ sockets' = [sockets EXCEPT ![local[r].sockfd] = s]
             /\ GoTo(r, next)
             /\ UNCHANGED <<errno, keep, cause>>
    <2>. DEFINE l == [local[r] EXCEPT !.point = next]
    <2>1. OnlyLocals(r, l) /\ errno' = [errno EXCEPT ![r] = errno[r]]
      BY <1>3, Unchanged DEF GoTo, OnlyLocals, IInv, TypeOK
    <2>2. /\ l \in LocalType /\ l.point = next
          /\ l.sockfd = local[r].sockfd /\ l.result = local[r].result
      BY <1>1 DEF LocalType
    <2>. HIDE DEF l
    <2>. QED  BY <1>1, <1>3, <2>1, <2>2, RunsOn
  <1>. QED  BY <1>2, <1>3 DEF Configure

LEMMA SetupIInv ==
  ASSUME IInv, NEW r \in Receivers,
         Setsockopt(r) \/ Getfl(r) \/ Setfl(r) \/ Bind(r)
  PROVE  IInv'
  <1>1. /\ local[r].point \in {"setsockopt", "getfl", "setfl", "bind"}
        /\ Holds(r) /\ SocketOf(r) \in SocketType /\ SocketOf(r).open
        /\ Len(SocketOf(r).queue) <= QueueLimit
        /\ local[r].point = "bind" => SocketOf(r).nonblocking
    BY PointsDiffer, Unchanged
       DEF Setsockopt, Getfl, Setfl, Bind, Configure, At, Holds, IInv, Configured
  <1>2. CASE Setsockopt(r)
    BY <1>1, <1>2, ConfigureIInv, PointsDiffer DEF Setsockopt
  <1>3. CASE Getfl(r)
    BY <1>1, <1>3, ConfigureIInv, PointsDiffer DEF Getfl
  <1>4. CASE Setfl(r)
    <2>. DEFINE s == [SocketOf(r) EXCEPT !.nonblocking = TRUE]
    <2>1. /\ s \in SocketType /\ s.open /\ s.nonblocking
          /\ s.queue = SocketOf(r).queue
      BY <1>1 DEF SocketType
    <2>2. Configure(r, "setfl", s, "bind")
      BY <1>4 DEF Setfl
    <2>. HIDE DEF s
    <2>. QED  BY <1>1, <2>1, <2>2, ConfigureIInv, PointsDiffer
  <1>5. CASE Bind(r)
    <2>. DEFINE s == [SocketOf(r) EXCEPT !.port = r]
    <2>0. local[r].point = "bind"
      BY <1>5 DEF Bind, Configure, At
    <2>1. /\ s \in SocketType /\ s.open /\ s.nonblocking /\ s.port = r
          /\ s.queue = SocketOf(r).queue
      BY <1>1, <2>0 DEF SocketType
    <2>2. Configure(r, "bind", s, "poll")
      BY <1>5 DEF Bind
    <2>. HIDE DEF s
    <2>. QED  BY <1>1, <2>1, <2>2, ConfigureIInv, PointsDiffer
  <1>. QED  BY <1>2, <1>3, <1>4, <1>5

\* What r knows of its socket in the loop.
LEMMA InTheLoop ==
  ASSUME IInv, NEW r \in Receivers, local[r].point \in LoopPoints
  PROVE  /\ local[r] \in LocalType /\ errno[r] \in Errno
         /\ local[r].point \in OpenPoints \ {"abort"}
         /\ local[r].sockfd \in Fds
         /\ SocketOf(r) \in SocketType /\ SocketOf(r).open
         /\ SocketOf(r).nonblocking /\ SocketOf(r).port = r
         /\ Len(SocketOf(r).queue) <= QueueLimit
         /\ sockets = [sockets EXCEPT ![local[r].sockfd] = SocketOf(r)]
         /\ errno = [errno EXCEPT ![r] = errno[r]]
  BY Unchanged, PointsDiffer DEF Holds, IInv, Configured

\* A step of the loop that leaves the socket alone.
LEMMA LoopsOn ==
  ASSUME IInv, NEW r \in Receivers, NEW l \in LocalType, NEW e \in Errno,
         local[r].point \in LoopPoints,
         l.point \in LoopPoints \union {"shutdown"},
         l.point = "shutdown" => ~keep[r],
         OnlyLocals(r, l),
         l.sockfd = local[r].sockfd, l.result = local[r].result,
         errno' = [errno EXCEPT ![r] = e],
         UNCHANGED <<sockets, cause, keep>>
  PROVE  IInv'
  BY InTheLoop, RunsOn, PointsDiffer

LEMMA PollIInv ==
  ASSUME IInv, NEW r \in Receivers, Poll(r)
  PROVE  IInv'
  <1>. DEFINE next == IF keep[r] THEN "recv" ELSE "shutdown"
              l == [local[r] EXCEPT !.point = next]
  <1>1. local[r].point \in LoopPoints
    BY PointsDiffer DEF Poll, At
  <1>2. OnlyLocals(r, l) /\ errno' = [errno EXCEPT ![r] = errno[r]]
    BY <1>1, InTheLoop DEF Poll, GoTo, OnlyLocals, IInv, TypeOK
  <1>3. /\ l \in LocalType /\ l.point = next
        /\ l.sockfd = local[r].sockfd /\ l.result = local[r].result
    BY <1>1, InTheLoop, PointsDiffer DEF LocalType
  <1>4. /\ next \in LoopPoints \union {"shutdown"}
        /\ next = "shutdown" => ~keep[r]
    BY PointsDiffer
  <1>. HIDE DEF l, next
  <1>. QED  BY <1>1, <1>2, <1>3, <1>4, InTheLoop, LoopsOn DEF Poll

LEMMA ReceiveNothingIInv ==
  ASSUME IInv, NEW r \in Receivers, ReceiveNothing(r)
  PROVE  IInv'
  <1>. DEFINE l == [local[r] EXCEPT !.point = "poll"]
  <1>1. local[r].point \in LoopPoints
    BY PointsDiffer DEF ReceiveNothing, At
  <1>2. OnlyLocals(r, l) /\ errno' = [errno EXCEPT ![r] = "EAGAIN"]
    BY DEF ReceiveNothing, GoTo, OnlyLocals, IInv, TypeOK
  <1>3. /\ l \in LocalType /\ l.point = "poll" /\ "EAGAIN" \in Errno
        /\ l.sockfd = local[r].sockfd /\ l.result = local[r].result
    BY <1>1, InTheLoop, PointsDiffer DEF LocalType, Errno
  <1>. HIDE DEF l
  <1>. QED  BY <1>1, <1>2, <1>3, LoopsOn, PointsDiffer DEF ReceiveNothing

LEMMA OnEventIInv ==
  ASSUME IInv, NEW r \in Receivers, OnEvent(r)
  PROVE  IInv'
  <1>. DEFINE l == [local[r] EXCEPT !.point = "poll", !.event = NULL]
  <1>1. local[r].point \in LoopPoints
    BY PointsDiffer DEF OnEvent, At
  <1>2. OnlyLocals(r, l) /\ errno' = [errno EXCEPT ![r] = errno[r]]
    BY <1>1, InTheLoop DEF OnEvent, OnlyLocals, IInv, TypeOK
  <1>3. /\ l \in LocalType /\ l.point = "poll"
        /\ l.sockfd = local[r].sockfd /\ l.result = local[r].result
    <2>1. local[r] \in LocalType /\ "poll" \in OpenPoints
      BY <1>1, InTheLoop, PointsDiffer
    <2>. QED  BY <2>1 DEF LocalType
  <1>. HIDE DEF l
  <1>. QED  BY <1>1, <1>2, <1>3, InTheLoop, LoopsOn, PointsDiffer DEF OnEvent

LEMMA ReceiveIInv ==
  ASSUME IInv, NEW r \in Receivers, Receive(r)
  PROVE  IInv'
  <1>. DEFINE queue == Queue(r)
              d == Head(queue)
              s == [SocketOf(r) EXCEPT !.queue = Tail(@)]
              id == NextSequence(local[r].sequence)
  <1>1. local[r].point \in LoopPoints
    BY PointsDiffer DEF Receive, At
  <1>2. queue \in Seq(Datagrams) /\ queue # << >>
    BY <1>1, InTheLoop DEF Receive, Queue, SocketType
  <1>3. d \in Datagrams /\ Tail(queue) \in Seq(Datagrams)
        /\ Len(Tail(queue)) <= QueueLimit
    <2>1. Len(queue) <= QueueLimit /\ QueueLimit \in Nat
      BY <1>1, InTheLoop, ReceiverAssumption DEF Queue
    <2>. HIDE DEF queue
    <2>2. Len(Tail(queue)) = Len(queue) - 1 /\ Len(queue) \in Nat
      BY <1>2, HeadTailProperties, LenProperties
    <2>. QED  BY <1>2, <2>1, <2>2, HeadTailProperties
  <1>4. /\ sockets' = [sockets EXCEPT ![local[r].sockfd] = s]
        /\ s \in SocketType /\ s.open /\ s.nonblocking /\ s.port = r
        /\ s.queue = Tail(queue)
    <2>1. s = [SocketOf(r) EXCEPT !.queue = Tail(queue)]
      BY DEF Queue
    <2>2. /\ s \in SocketType /\ s.open /\ s.nonblocking /\ s.port = r
          /\ s.queue = Tail(queue)
      BY <1>1, <1>3, <2>1, InTheLoop DEF SocketType
    <2>. QED
      BY <1>1, <2>2, InTheLoop DEF Receive, Dequeue, SocketOf, IInv, TypeOK
  <1>5. id \in 0 .. MaxSequence
    BY <1>1, InTheLoop, ReceiverAssumption DEF LocalType, NextSequence
  <1>6. EventOf(d, id) \in IngressEvents
    BY <1>3, <1>5 DEF IngressEvents
  <1>7. errno' = [errno EXCEPT ![r] = errno[r]] /\ UNCHANGED <<cause, keep>>
    BY <1>1, InTheLoop DEF Receive
  <1>8. Accept(r, d)
    BY DEF Receive
  <1>. HIDE DEF queue, d, s, id
  <1>9. PICK l \in LocalType :
          /\ OnlyLocals(r, l) /\ l.point \in LoopPoints
          /\ l.sockfd = local[r].sockfd /\ l.result = local[r].result
    <2>1. local[r] \in LocalType
      BY <1>1, InTheLoop
    <2>2. CASE GoTo(r, "poll")
      <3>. DEFINE l == [local[r] EXCEPT !.point = "poll"]
      <3>1. OnlyLocals(r, l)
        BY <2>2 DEF GoTo, OnlyLocals, IInv, TypeOK
      <3>2. l \in LocalType /\ l.point \in LoopPoints
            /\ l.sockfd = local[r].sockfd /\ l.result = local[r].result
        BY <2>1, PointsDiffer DEF LocalType
      <3>. QED  BY <3>1, <3>2
    <2>3. CASE local' = [local EXCEPT ![r].sequence = id, ![r].point = "poll"]
      <3>. DEFINE l == [local[r] EXCEPT !.sequence = id, !.point = "poll"]
      <3>1. OnlyLocals(r, l)
        BY <2>3 DEF OnlyLocals, IInv, TypeOK
      <3>2. l \in LocalType /\ l.point \in LoopPoints
            /\ l.sockfd = local[r].sockfd /\ l.result = local[r].result
        BY <1>5, <2>1, PointsDiffer DEF LocalType
      <3>. QED  BY <3>1, <3>2
    <2>4. CASE local' = [local EXCEPT ![r].sequence = id,
                                      ![r].point = "event",
                                      ![r].event = EventOf(d, id)]
      <3>. DEFINE l == [local[r] EXCEPT !.sequence = id, !.point = "event",
                                        !.event = EventOf(d, id)]
      <3>1. OnlyLocals(r, l)
        BY <2>4 DEF OnlyLocals, IInv, TypeOK
      <3>2. l \in LocalType /\ l.point \in LoopPoints
            /\ l.sockfd = local[r].sockfd /\ l.result = local[r].result
        BY <1>5, <1>6, <2>1, PointsDiffer DEF LocalType
      <3>. QED  BY <3>1, <3>2
    <2>. QED  BY <1>8, <2>2, <2>3, <2>4 DEF Accept, id
  <1>. QED
    BY <1>1, <1>3, <1>4, <1>7, <1>9, InTheLoop, RunsOn, PointsDiffer

\* The thread gives up its descriptor and returns.
LEMMA ReturnsIInv ==
  ASSUME IInv, NEW r \in Receivers, NEW value \in {"0", "-1"},
         NEW e \in Errno, NEW c \in Errno,
         Holds(r), Close(r), Return(r, value),
         errno' = [errno EXCEPT ![r] = e],
         cause' = [cause EXCEPT ![r] = c],
         UNCHANGED keep,
         value = "-1" => c # NULL /\ e = c,
         value = "0" => c = NULL /\ ~keep[r]
  PROVE  IInv'
  <1>. DEFINE l == [NoRun EXCEPT !.result = value]
  <1>1. OnlyLocals(r, l) /\ l \in LocalType /\ l.point = "idle"
        /\ l.result = value
    BY NoRunType DEF Return, OnlyLocals
  <1>. HIDE DEF l
  <1>2. local'[r] = l /\ errno'[r] = e /\ cause'[r] = c /\ keep'[r] = keep[r]
    BY <1>1 DEF OnlyLocals, IInv, TypeOK
  <1>3. Progress(r)' /\ Truthful(r)'
    BY <1>1, <1>2 DEF Progress, Truthful
  <1>4. keep' = [keep EXCEPT ![r] = keep[r]] /\ keep[r] \in BOOLEAN
    BY Unchanged
  <1>5. /\ ThreadTypes' /\ ResultTellsTheTruth'
        /\ \A q \in Receivers : Progress(q)'
    BY <1>1, <1>3, <1>4, OtherThreads
  <1>. QED  BY <1>1, <1>5, ClosesDescriptor, Parts

LEMMA AbortIInv ==
  ASSUME IInv, NEW r \in Receivers, Abort(r)
  PROVE  IInv'
  <1>1. /\ Holds(r) /\ local[r].saved_errno = cause[r] /\ cause[r] # NULL
        /\ cause[r] \in Errno /\ cause = [cause EXCEPT ![r] = cause[r]]
    BY PointsDiffer, Unchanged DEF Abort, At, Holds, IInv, Progress
  <1>2. errno' = [errno EXCEPT ![r] = cause[r]]
    BY <1>1 DEF Abort, Restored
  <1>. QED  BY <1>1, <1>2, ReturnsIInv DEF Abort

LEMMA ShutdownIInv ==
  ASSUME IInv, NEW r \in Receivers, Shutdown(r)
  PROVE  IInv'
  <1>1. /\ Holds(r) /\ cause[r] = NULL /\ ~keep[r]
        /\ cause[r] \in Errno /\ cause = [cause EXCEPT ![r] = cause[r]]
        /\ errno[r] \in Errno /\ errno = [errno EXCEPT ![r] = errno[r]]
    BY PointsDiffer, Unchanged DEF Shutdown, At, Holds, IInv, Progress
  <1>2. CASE Return(r, "0") /\ UNCHANGED <<errno, cause>>
    BY <1>1, <1>2, ReturnsIInv DEF Shutdown
  <1>3. ASSUME NEW error \in Errnos, Return(r, "-1"), SetErrno(r, error)
        PROVE  IInv'
    <2>1. error \in Errno /\ error # NULL
      BY ReceiverAssumption DEF Errno
    <2>. QED  BY <1>1, <1>3, <2>1, ReturnsIInv DEF Shutdown, SetErrno
  <1>. QED  BY <1>2, <1>3 DEF Shutdown

LEMMA StopIInv ==
  ASSUME IInv, NEW r \in Receivers, Stop(r)
  PROVE  IInv'
  <1>1. /\ local[r].point # "idle" /\ keep' = [keep EXCEPT ![r] = FALSE]
        /\ UNCHANGED <<sockets, local, errno, cause>>
    BY DEF Stop, At
  <1>2. keep' \in [Receivers -> BOOLEAN] /\ \A q \in Receivers : keep'[q] => keep[q]
    BY <1>1 DEF IInv, TypeOK
  <1>3. TypeOK'
    BY <1>1, <1>2 DEF IInv, TypeOK
  <1>4. Owners' /\ \A q \in Receivers : Configured(q)' /\ Progress(q)'
    BY <1>1, <1>2 DEF IInv, Owners, Owner, Holds, Configured, SocketOf, Progress
  <1>5. ResultTellsTheTruth'
    BY <1>1, <1>2 DEF IInv, ResultTellsTheTruth
  <1>. QED  BY <1>3, <1>4, <1>5 DEF IInv

LEMMA SendIInv ==
  ASSUME IInv, NEW r \in Receivers, NEW d \in Datagrams, Send(r, d)
  PROVE  IInv'
  <1>1. PICK fd \in Fds :
          /\ sockets[fd].port = r /\ Len(sockets[fd].queue) < QueueLimit
          /\ sockets' = [sockets EXCEPT ![fd].queue = Append(@, d)]
          /\ UNCHANGED <<local, errno, keep, cause>>
    BY DEF Send
  <1>. DEFINE queue == sockets[fd].queue
              s == [sockets[fd] EXCEPT !.queue = Append(queue, d)]
  <1>2. sockets \in [Fds -> SocketType] /\ queue \in Seq(Datagrams)
    BY DEF IInv, TypeOK, SocketType
  <1>3. /\ Append(queue, d) \in Seq(Datagrams)
        /\ Len(Append(queue, d)) <= QueueLimit
    <2>1. Len(queue) < QueueLimit /\ QueueLimit \in Nat
      BY <1>1, ReceiverAssumption
    <2>. HIDE DEF queue
    <2>2. Len(Append(queue, d)) = Len(queue) + 1 /\ Len(queue) \in Nat
      BY <1>2, AppendProperties, LenProperties
    <2>. QED  BY <1>2, <2>1, <2>2, AppendProperties
  <1>4. sockets' = [sockets EXCEPT ![fd] = s]
    BY <1>1, <1>2
  <1>. HIDE DEF queue
  <1>5. /\ s \in SocketType /\ s.open = sockets[fd].open
        /\ s.port = sockets[fd].port /\ s.nonblocking = sockets[fd].nonblocking
        /\ s.queue = Append(queue, d)
    BY <1>2, <1>3 DEF SocketType
  <1>6. sockets[fd].open
    <2>1. sockets[fd].port # NULL
      BY <1>1, ReceiverAssumption
    <2>2. Closed.port = NULL
      BY DEF Closed
    <2>. QED  BY <2>1, <2>2 DEF IInv, TypeOK
  <1>. HIDE DEF s
  <1>7. TypeOK'
    <2>1. sockets' \in [Fds -> SocketType]
      BY <1>2, <1>4, <1>5
    <2>2. \A f \in Fds : /\ Len(sockets'[f].queue) <= QueueLimit
                         /\ ~sockets'[f].open => sockets'[f] = Closed
      BY <1>2, <1>3, <1>4, <1>5, <1>6 DEF IInv, TypeOK
    <2>. QED  BY <1>1, <2>1, <2>2 DEF IInv, TypeOK
  <1>8. Owners' /\ \A q \in Receivers : Configured(q)'
    BY <1>1, <1>4, <1>5, KeepsOwners
  <1>9. ResultTellsTheTruth' /\ \A q \in Receivers : Progress(q)'
    BY <1>1 DEF IInv, ResultTellsTheTruth, Progress
  <1>. QED  BY <1>7, <1>8, <1>9 DEF IInv

LEMMA StepIInv == IInv /\ [Next]_vars => IInv'
  <1>. SUFFICES ASSUME IInv, [Next]_vars
                PROVE  IInv'
    OBVIOUS
  <1>1. CASE UNCHANGED vars
    BY <1>1 DEF vars, IInv, TypeOK, Owners, Owner, Holds, Configured, SocketOf,
                Progress, ResultTellsTheTruth
  <1>2. ASSUME NEW r \in Receivers, Run(r)
        PROVE  IInv'
    BY <1>2, SocketIInv, SetupIInv, PollIInv, ReceiveIInv, ReceiveNothingIInv,
       OnEventIInv, AbortIInv, ShutdownIInv DEF Run
  <1>3. ASSUME NEW r \in Receivers, ReceiveFails(r)
        PROVE  IInv'
    BY <1>3, FailOpenIInv, PointsDiffer DEF ReceiveFails, At
  <1>. QED
    BY <1>1, <1>2, <1>3, CallIInv, StopIInv, SendIInv DEF Next

LEMMA InitIInv == Init => IInv
  <1>. SUFFICES ASSUME Init  PROVE IInv
    OBVIOUS
  <1>1. /\ Closed \in SocketType /\ ~Closed.open /\ Len(Closed.queue) <= QueueLimit
    <2>1. Closed \in SocketType /\ Closed.queue = << >> /\ ~Closed.open
      BY EmptySeq DEF Closed, SocketType
    <2>2. Len(Closed.queue) = 0
      BY <2>1, EmptySeq
    <2>. QED  BY <2>1, <2>2, ReceiverAssumption
  <1>2. TypeOK
    BY <1>1, NoRunType DEF Init, TypeOK, Errno
  <1>3. \A r \in Receivers : local[r] = NoRun /\ ~Holds(r)
    BY NoRunType, PointsDiffer DEF Init, Holds
  <1>4. Owners
    BY <1>1, <1>3 DEF Init, Owners, Owner
  <1>5. \A r \in Receivers : Configured(r) /\ Progress(r)
    BY <1>3, NoRunType, PointsDiffer DEF Configured, Progress
  <1>6. ResultTellsTheTruth
    BY <1>3, NoRunType, ReceiverAssumption DEF ResultTellsTheTruth
  <1>. QED  BY <1>2, <1>4, <1>5, <1>6 DEF IInv

LEMMA Invariance == Spec => []IInv
  BY InitIInv, StepIInv, PTL DEF Spec

----------------------------------------------------------------------------
\* Receivers keep their types for any number of threads and datagrams.
THEOREM ReceiverTypeCorrect == Spec => []TypeOK
  <1>1. IInv => TypeOK
    BY DEF IInv
  <1>. QED  BY <1>1, Invariance, PTL

\* However many threads run receivers and whichever calls fail, the open
\* descriptors are those of the running receivers, one each: none leaks, none
\* is closed twice, and the loop reads the thread's own non-blocking socket
\* (solana_ingress.c:31-35, :80-112, :131-138).
THEOREM DescriptorsOwned == Spec => []DescriptorsAreOwned
  <1>1. IInv => DescriptorsAreOwned
    <2>. SUFFICES ASSUME IInv  PROVE DescriptorsAreOwned
      OBVIOUS
    <2>1. {fd \in Fds : sockets[fd].open} =
            {local[r].sockfd : r \in {q \in Receivers : Holds(q)}}
      BY DEF IInv, Owners, Owner
    <2>2. \A r \in Receivers : local[r].point \in LoopPoints =>
            SocketOf(r).port = r /\ SocketOf(r).nonblocking
      BY DEF IInv, Configured
    <2>. QED  BY <2>1, <2>2 DEF DescriptorsAreOwned, IInv, Owners
  <1>. QED  BY <1>1, Invariance, PTL

\* For any set of errors, a run that returns -1 leaves the errno of the call
\* that failed it, and a run returns 0 only when it was asked to stop and
\* nothing failed (solana_ingress.c:31-35, :131-138).
THEOREM ResultsTellTheTruth == Spec => []ResultTellsTheTruth
  <1>1. IInv => ResultTellsTheTruth
    BY DEF IInv
  <1>. QED  BY <1>1, Invariance, PTL

----------------------------------------------------------------------------
(***************************************************************************)
(* Progress: the part of StopIsObeyed that is a matter of safety.  A       *)
(* receiver that was asked to stop cannot go round its loop again, however *)
(* many datagrams wait.                                                    *)
(***************************************************************************)
Stopping(r) == local[r].point # "idle" /\ ~keep[r]

\* How many steps receiver r can still take once it was asked to stop.
StepsLeft(r) ==
  CASE local[r].point = "socket"     -> 9
    [] local[r].point = "setsockopt" -> 8
    [] local[r].point = "getfl"      -> 7
    [] local[r].point = "setfl"      -> 6
    [] local[r].point = "bind"       -> 5
    [] local[r].point = "recv"       -> 4
    [] local[r].point = "event"      -> 3
    [] local[r].point = "poll"       -> 2
    [] local[r].point = "shutdown"   -> 1
    [] local[r].point = "abort"      -> 1
    [] OTHER                         -> 0

\* Each step of the receiver itself leaves fewer, and nobody else moves it or
\* takes the request back.
StopsAreFinal ==
  [][\A r \in Receivers :
       Stopping(r) => \/ StepsLeft(r)' < StepsLeft(r)
                      \/ local'[r] = local[r] /\ Stopping(r)']_vars

Points == {"idle", "socket", "setsockopt", "getfl", "setfl", "bind", "recv",
           "event", "poll", "shutdown", "abort"}

LEMMA PointType ==
  ASSUME TypeOK, NEW r \in Receivers
  PROVE  local[r].point \in Points /\ local \in [Receivers -> LocalType]
  BY PointsDiffer DEF TypeOK, LocalType, Points

LEMMA StepsLeftType ==
  ASSUME TypeOK, NEW r \in Receivers
  PROVE  /\ StepsLeft(r) \in 0 .. 9
         /\ StepsLeft(r) = 0 <=> local[r].point = "idle"
  <1>1. local[r].point \in Points
    BY PointType
  <1>. QED  BY <1>1 DEF Points, StepsLeft

\* What is left after a step of r that goes to a point, or returns.
LEMMA GoesTo ==
  ASSUME TypeOK, NEW r \in Receivers
  PROVE  /\ \A point : GoTo(r, point) => local'[r].point = point
         /\ \A value : Return(r, value) => local'[r].point = "idle"
         /\ FailOpen(r) => local'[r].point = "abort"
  <1>1. local \in [Receivers -> LocalType]
    BY DEF TypeOK
  <1>2. local[r] \in LocalType
    BY <1>1
  <1>3. ASSUME NEW point, GoTo(r, point)
        PROVE  local'[r].point = point
    BY <1>1, <1>2, <1>3 DEF GoTo, LocalType
  <1>4. ASSUME NEW value, Return(r, value)
        PROVE  local'[r].point = "idle"
    <2>1. local'[r] = [NoRun EXCEPT !.result = value]
      BY <1>1, <1>4 DEF Return
    <2>. QED  BY <2>1 DEF NoRun
  <1>5. ASSUME FailOpen(r)
        PROVE  local'[r].point = "abort"
    <2>1. PICK error \in Errnos :
            local' = [local EXCEPT ![r].point = "abort",
                                   ![r].saved_errno = error]
      BY <1>5 DEF FailOpen
    <2>. QED  BY <1>1, <1>2, <2>1 DEF LocalType
  <1>. QED  BY <1>3, <1>4, <1>5

\* The points a receiver that was asked to stop goes to.
LEMMA StoppingMoves ==
  ASSUME TypeOK, NEW r \in Receivers, Stopping(r), Run(r) \/ ReceiveFails(r)
  PROVE  StepsLeft(r)' < StepsLeft(r)
  <1>. DEFINE here == local[r].point
              there == local'[r].point
  <1>1. ASSUME NEW point, NEW socket, NEW next, Configure(r, point, socket, next)
        PROVE  here = point /\ there \in {"abort", next}
    BY <1>1, GoesTo DEF Configure, At
  <1>2. CASE Socket(r)
    <2>1. local \in [Receivers -> LocalType] /\ local[r] \in LocalType
      BY DEF TypeOK
    <2>2. ASSUME NEW fd,
                 local' = [local EXCEPT ![r].point = "setsockopt",
                                        ![r].sockfd = fd]
          PROVE  there = "setsockopt"
      BY <2>1, <2>2 DEF LocalType
    <2>3. here = "socket" /\ there \in {"idle", "setsockopt"}
      BY <1>2, <2>2, GoesTo DEF Socket, At
    <2>. QED  BY <2>3 DEF StepsLeft
  <1>3. CASE Setsockopt(r)
    <2>1. here = "setsockopt" /\ there \in {"abort", "getfl"}
      BY <1>1, <1>3 DEF Setsockopt
    <2>. QED  BY <2>1 DEF StepsLeft
  <1>4. CASE Getfl(r)
    <2>1. here = "getfl" /\ there \in {"abort", "setfl"}
      BY <1>1, <1>4 DEF Getfl
    <2>. QED  BY <2>1 DEF StepsLeft
  <1>5. CASE Setfl(r)
    <2>1. here = "setfl" /\ there \in {"abort", "bind"}
      BY <1>1, <1>5 DEF Setfl
    <2>. QED  BY <2>1 DEF StepsLeft
  <1>6. CASE Bind(r)
    <2>1. here = "bind" /\ there \in {"abort", "poll"}
      BY <1>1, <1>6 DEF Bind
    <2>. QED  BY <2>1 DEF StepsLeft
  <1>7. CASE Poll(r)
    <2>1. here = "poll" /\ there = "shutdown"
      BY <1>7, GoesTo DEF Poll, At, Stopping
    <2>. QED  BY <2>1 DEF StepsLeft
  <1>8. CASE Receive(r)
    <2>. DEFINE d == Head(Queue(r))
                id == NextSequence(local[r].sequence)
    <2>0. local \in [Receivers -> LocalType] /\ local[r] \in LocalType
      BY DEF TypeOK
    <2>1. here = "recv" /\ Accept(r, d)
      BY <1>8 DEF Receive, At
    <2>2. \/ GoTo(r, "poll")
          \/ local' = [local EXCEPT ![r].sequence = id, ![r].point = "event",
                                    ![r].event = EventOf(d, id)]
          \/ local' = [local EXCEPT ![r].sequence = id, ![r].point = "poll"]
      BY <2>1 DEF Accept
    <2>. HIDE DEF d, id
    <2>3. there \in {"poll", "event"}
      BY <2>0, <2>2, GoesTo DEF LocalType
    <2>. QED  BY <2>1, <2>3 DEF StepsLeft
  <1>9. CASE ReceiveNothing(r)
    <2>1. here = "recv" /\ there = "poll"
      BY <1>9, GoesTo DEF ReceiveNothing, At
    <2>. QED  BY <2>1 DEF StepsLeft
  <1>10. CASE OnEvent(r)
    <2>1. local \in [Receivers -> LocalType] /\ local[r] \in LocalType
      BY DEF TypeOK
    <2>2. /\ here = "event"
          /\ local' = [local EXCEPT ![r].point = "poll", ![r].event = NULL]
      BY <1>10 DEF OnEvent, At
    <2>3. there = "poll"
      BY <2>1, <2>2 DEF LocalType
    <2>. QED  BY <2>2, <2>3 DEF StepsLeft
  <1>11. CASE Abort(r)
    <2>1. here = "abort" /\ there = "idle"
      BY <1>11, GoesTo DEF Abort, At
    <2>. QED  BY <2>1 DEF StepsLeft
  <1>12. CASE Shutdown(r)
    <2>1. here = "shutdown" /\ there = "idle"
      BY <1>12, GoesTo DEF Shutdown, At
    <2>. QED  BY <2>1 DEF StepsLeft
  <1>13. CASE ReceiveFails(r)
    <2>1. here = "recv" /\ there = "abort"
      BY <1>13, GoesTo DEF ReceiveFails, At
    <2>. QED  BY <2>1 DEF StepsLeft
  <1>. QED
    BY <1>2, <1>3, <1>4, <1>5, <1>6, <1>7, <1>8, <1>9, <1>10, <1>11, <1>12,
       <1>13 DEF Run

\* What another receiver does, and what its callers and senders do, leaves
\* the locals of r and the request to stop alone.
LEMMA OthersLeaveAlone ==
  ASSUME TypeOK, NEW r \in Receivers, NEW q \in Receivers, q # r,
         \/ \E has_callbacks \in BOOLEAN : Call(q, has_callbacks)
         \/ Run(q) \/ ReceiveFails(q) \/ Stop(q)
  PROVE  local'[r] = local[r] /\ keep'[r] = keep[r]
  <1>1. local \in [Receivers -> LocalType] /\ keep \in [Receivers -> BOOLEAN]
    BY DEF TypeOK
  <1>2. /\ \A point : GoTo(q, point) => local'[r] = local[r]
        /\ \A value : Return(q, value) => local'[r] = local[r]
        /\ FailOpen(q) => local'[r] = local[r]
    BY <1>1 DEF GoTo, Return, FailOpen
  <1>3. ASSUME NEW has_callbacks \in BOOLEAN, Call(q, has_callbacks)
        PROVE  local'[r] = local[r] /\ keep'[r] = keep[r]
    BY <1>1, <1>2, <1>3 DEF Call
  <1>4. CASE Stop(q)
    BY <1>1, <1>4 DEF Stop
  <1>5. CASE Run(q) \/ ReceiveFails(q)
    <2>1. keep' = keep
      BY <1>5 DEF Run, Socket, Setsockopt, Getfl, Setfl, Bind, Configure,
                  FailOpen, Poll, Receive, ReceiveNothing, OnEvent, Abort,
                  Shutdown, ReceiveFails
    <2>2. CASE Socket(q)
      BY <1>1, <1>2, <2>2 DEF Socket
    <2>0. ASSUME NEW point, NEW socket, NEW next,
                 Configure(q, point, socket, next)
          PROVE  local'[r] = local[r]
      <3>1. CASE FailOpen(q)
        BY <1>2, <3>1
      <3>2. CASE GoTo(q, next)
        BY <1>2, <3>2
      <3>. QED  BY <2>0, <3>1, <3>2 DEF Configure
    <2>3. CASE Setsockopt(q) \/ Getfl(q) \/ Setfl(q) \/ Bind(q)
      <3>1. CASE Setsockopt(q)
        BY <2>0, <2>1, <3>1 DEF Setsockopt
      <3>2. CASE Getfl(q)
        BY <2>0, <2>1, <3>2 DEF Getfl
      <3>3. CASE Setfl(q)
        BY <2>0, <2>1, <3>3 DEF Setfl
      <3>4. CASE Bind(q)
        BY <2>0, <2>1, <3>4 DEF Bind
      <3>. QED  BY <2>3, <3>1, <3>2, <3>3, <3>4
    <2>4. CASE Poll(q) \/ ReceiveNothing(q) \/ ReceiveFails(q)
      <3>1. CASE Poll(q)
        <4>1. PICK point : GoTo(q, point)
          BY <3>1 DEF Poll
        <4>. QED  BY <1>2, <2>1, <4>1
      <3>2. CASE ReceiveNothing(q)
        <4>1. GoTo(q, "poll")
          BY <3>2 DEF ReceiveNothing
        <4>. QED  BY <1>2, <2>1, <4>1
      <3>3. CASE ReceiveFails(q)
        BY <1>2, <2>1, <3>3 DEF ReceiveFails
      <3>. QED  BY <2>4, <3>1, <3>2, <3>3
    <2>5. CASE Abort(q) \/ Shutdown(q)
      BY <1>2, <2>5 DEF Abort, Shutdown
    <2>6. CASE OnEvent(q)
      BY <1>1, <2>6 DEF OnEvent
    <2>7. CASE Receive(q)
      BY <1>1, <1>2, <2>7 DEF Receive, Accept
    <2>. QED  BY <1>5, <2>1, <2>2, <2>3, <2>4, <2>5, <2>6, <2>7 DEF Run
  <1>. QED  BY <1>3, <1>4, <1>5

LEMMA StoppingStep ==
  ASSUME TypeOK, Next, NEW r \in Receivers, Stopping(r)
  PROVE  \/ StepsLeft(r)' < StepsLeft(r)
         \/ local'[r] = local[r] /\ Stopping(r)'
  <1>1. ASSUME local'[r] = local[r], keep'[r] = keep[r]
        PROVE  Stopping(r)'
    BY <1>1 DEF Stopping
  <1>2. PICK q \in Receivers :
          \/ \E has_callbacks \in BOOLEAN : Call(q, has_callbacks)
          \/ Run(q)
          \/ ReceiveFails(q)
          \/ Stop(q)
          \/ \E d \in Datagrams : Send(q, d)
    BY DEF Next
  <1>3. ASSUME NEW d \in Datagrams, Send(q, d)
        PROVE  local'[r] = local[r] /\ keep'[r] = keep[r]
    BY <1>3 DEF Send
  <1>4. CASE q = r
    <2>1. ~Stop(r) /\ \A has_callbacks : ~Call(r, has_callbacks)
      BY DEF Stopping, Stop, Call, At
    <2>2. CASE Run(r) \/ ReceiveFails(r)
      BY <2>2, StoppingMoves
    <2>. QED  BY <1>1, <1>2, <1>3, <1>4, <2>1, <2>2
  <1>5. CASE q # r
    BY <1>1, <1>2, <1>3, <1>5, OthersLeaveAlone
  <1>. QED  BY <1>4, <1>5

\* A receiver that was asked to stop returns after at most nine steps of its
\* own, with at most one datagram taken on the way, however many wait and
\* whatever other receivers do; its only wait, the call of recvfrom, is on a
\* socket that does not block (solana_ingress.c:80-138).
THEOREM StopBoundsTheRun ==
  /\ Spec => StopsAreFinal
  /\ Spec => [](\A r \in Receivers :
                  /\ StepsLeft(r) \in 0 .. 9
                  /\ StepsLeft(r) = 0 <=> local[r].point = "idle"
                  /\ local[r].point = "recv" => SocketOf(r).nonblocking)
  <1>1. IInv => \A r \in Receivers :
                  /\ StepsLeft(r) \in 0 .. 9
                  /\ StepsLeft(r) = 0 <=> local[r].point = "idle"
                  /\ local[r].point = "recv" => SocketOf(r).nonblocking
    BY StepsLeftType, PointsDiffer DEF IInv, Configured
  <1>2. IInv /\ [Next]_vars =>
          [\A r \in Receivers :
             Stopping(r) => \/ StepsLeft(r)' < StepsLeft(r)
                            \/ local'[r] = local[r] /\ Stopping(r)']_vars
    BY StoppingStep DEF IInv
  <1>. QED  BY <1>1, <1>2, Invariance, PTL DEF Spec, StopsAreFinal

----------------------------------------------------------------------------
(***************************************************************************)
(* The stream of events.  The number last given is the length of what was  *)
(* taken: Counting says so, with what keeps the counter from wrapping,     *)
(* namely that all that was taken and all that still waits has been sent.  *)
(***************************************************************************)
Waiting(r) == IF Holds(r) THEN Len(Queue(r)) ELSE 0

Counting(r) ==
  /\ local[r].event # NULL <=> local[r].point = "event"
  /\ local[r].point = "socket" => local[r].sequence = 0 /\ taken[r] = << >>
  /\ Holds(r) => local[r].sequence = Len(taken[r])
  /\ Len(taken[r]) + Waiting(r) <= sent

StreamTypes ==
  /\ sent \in 0 .. MaxSent
  /\ taken \in [Receivers -> Seq(Datagrams)]
  /\ delivered \in [Receivers -> Seq(IngressEvents)]

StreamInv ==
  /\ IInv
  /\ StreamTypes
  /\ \A r \in Receivers : Counting(r)
  /\ EventsAreNumbered

\* The numbering of a run that starts, and after one more datagram.
LEMMA NumbersOfNothing == Numbers(<< >>, << >>)
  BY DEF Numbers

LEMMA AppendedElements ==
  ASSUME NEW S, NEW s \in Seq(S), NEW e \in S
  PROVE  /\ Append(s, e) \in Seq(S) /\ Len(s) \in Nat
         /\ DOMAIN s = 1 .. Len(s)
         /\ DOMAIN Append(s, e) = 1 .. Len(s) + 1
         /\ \A i \in 1 .. Len(s) : Append(s, e)[i] = s[i]
         /\ Append(s, e)[Len(s) + 1] = e
  OBVIOUS

LEMMA NumbersSkip ==
  ASSUME NEW ds \in Seq(Datagrams), NEW events \in Seq(IngressEvents),
         NEW d \in Datagrams, ~Decodes(d), Numbers(events, ds)
  PROVE  Numbers(events, Append(ds, d))
  <1>1. /\ Len(ds) \in Nat /\ DOMAIN ds = 1 .. Len(ds)
        /\ DOMAIN Append(ds, d) = 1 .. Len(ds) + 1
        /\ \A i \in 1 .. Len(ds) : Append(ds, d)[i] = ds[i]
        /\ Append(ds, d)[Len(ds) + 1] = d
    BY AppendedElements
  <1>2. ASSUME NEW k \in DOMAIN events
        PROVE  \E i \in DOMAIN Append(ds, d) :
                 Decodes(Append(ds, d)[i]) /\ events[k] = EventOf(Append(ds, d)[i], i)
    <2>1. PICK i \in 1 .. Len(ds) : Decodes(ds[i]) /\ events[k] = EventOf(ds[i], i)
      BY <1>1 DEF Numbers
    <2>2. Append(ds, d)[i] = ds[i] /\ i \in DOMAIN Append(ds, d)
      BY <1>1
    <2>. QED  BY <2>1, <2>2
  <1>3. ASSUME NEW i \in DOMAIN Append(ds, d), Decodes(Append(ds, d)[i])
        PROVE  \E k \in DOMAIN events : events[k] = EventOf(Append(ds, d)[i], i)
    <2>1. i \in 1 .. Len(ds)
      BY <1>1, <1>3
    <2>2. Append(ds, d)[i] = ds[i]
      BY <1>1, <2>1
    <2>. QED  BY <1>1, <1>3, <2>1, <2>2 DEF Numbers
  <1>. QED  BY <1>2, <1>3 DEF Numbers

LEMMA NumbersAppend ==
  ASSUME NEW ds \in Seq(Datagrams), NEW events \in Seq(IngressEvents),
         NEW d \in Datagrams, Decodes(d), Numbers(events, ds),
         NEW event \in IngressEvents, event = EventOf(d, Len(ds) + 1)
  PROVE  Numbers(Append(events, event), Append(ds, d))
  <1>. DEFINE n == Len(events)
              e2 == Append(events, event)
              d2 == Append(ds, d)
  <1>1. /\ Len(ds) \in Nat /\ DOMAIN ds = 1 .. Len(ds)
        /\ DOMAIN d2 = 1 .. Len(ds) + 1
        /\ \A i \in 1 .. Len(ds) : d2[i] = ds[i]
        /\ d2[Len(ds) + 1] = d
    BY AppendedElements
  <1>2. /\ n \in Nat /\ DOMAIN events = 1 .. n
        /\ DOMAIN e2 = 1 .. n + 1
        /\ \A k \in 1 .. n : e2[k] = events[k]
        /\ e2[n + 1] = event
    BY AppendedElements
  <1>3. \A k \in 1 .. n : \E i \in 1 .. Len(ds) :
          Decodes(ds[i]) /\ events[k] = EventOf(ds[i], i)
    BY <1>1, <1>2 DEF Numbers
  <1>4. \A i \in 1 .. Len(ds) : Decodes(ds[i]) =>
          \E k \in 1 .. n : events[k] = EventOf(ds[i], i)
    BY <1>1, <1>2 DEF Numbers
  <1>5. \A j, k \in 1 .. n : j < k =>
          events[j].ingress_sequence_id < events[k].ingress_sequence_id
    BY <1>2 DEF Numbers
  <1>. HIDE DEF n, e2, d2
  <1>6. ASSUME NEW k \in DOMAIN e2
        PROVE  \E i \in DOMAIN d2 : Decodes(d2[i]) /\ e2[k] = EventOf(d2[i], i)
    <2>1. CASE k = n + 1
      BY <1>1, <1>2, <2>1
    <2>2. CASE k # n + 1
      <3>1. k \in 1 .. n
        BY <1>2, <2>2
      <3>2. PICK i \in 1 .. Len(ds) : Decodes(ds[i]) /\ events[k] = EventOf(ds[i], i)
        BY <1>3, <3>1
      <3>3. d2[i] = ds[i] /\ e2[k] = events[k] /\ i \in DOMAIN d2
        BY <1>1, <1>2, <3>1
      <3>. QED  BY <3>2, <3>3
    <2>. QED  BY <2>1, <2>2
  <1>7. ASSUME NEW i \in DOMAIN d2, Decodes(d2[i])
        PROVE  \E k \in DOMAIN e2 : e2[k] = EventOf(d2[i], i)
    <2>1. CASE i = Len(ds) + 1
      <3>1. e2[n + 1] = EventOf(d2[i], i) /\ n + 1 \in DOMAIN e2
        BY <1>1, <1>2, <2>1
      <3>. QED  BY <3>1
    <2>2. CASE i # Len(ds) + 1
      <3>1. i \in 1 .. Len(ds)
        BY <1>1, <2>2
      <3>2. d2[i] = ds[i]
        BY <1>1, <3>1
      <3>3. PICK k \in 1 .. n : events[k] = EventOf(ds[i], i)
        BY <1>4, <1>7, <3>1, <3>2
      <3>4. e2[k] = events[k] /\ k \in DOMAIN e2
        BY <1>2
      <3>. QED  BY <3>2, <3>3, <3>4
    <2>. QED  BY <2>1, <2>2
  <1>8. ASSUME NEW j \in DOMAIN e2, NEW k \in DOMAIN e2, j < k
        PROVE  e2[j].ingress_sequence_id < e2[k].ingress_sequence_id
    <2>1. j \in 1 .. n
      BY <1>2, <1>8
    <2>2. CASE k = n + 1
      <3>1. PICK i \in 1 .. Len(ds) : events[j] = EventOf(ds[i], i)
        BY <1>3, <2>1
      <3>2. e2[j].ingress_sequence_id = i
        BY <1>2, <2>1, <3>1 DEF EventOf
      <3>3. e2[k].ingress_sequence_id = Len(ds) + 1
        BY <1>2, <2>2 DEF EventOf
      <3>. QED  BY <1>1, <3>2, <3>3
    <2>3. CASE k # n + 1
      <3>1. k \in 1 .. n
        BY <1>2, <2>3
      <3>. QED  BY <1>2, <1>5, <1>8, <2>1, <3>1
    <2>. QED  BY <2>2, <2>3
  <1>. QED  BY <1>6, <1>7, <1>8 DEF Numbers, e2, d2

\* What is sent is sent to receivers: a step of the stream is a step of them.
LEMMA StreamStepsAreSteps == [StreamNext]_<<vars, stream_vars>> => [Next]_vars
  BY DEF StreamNext, CallStream, RunStream, ReceiveStream, OnEventStream, Unseen,
         SendStream, Next, Run, vars

\* A step of receiver r, or of who sends to it, leaves the others' counts.
LEMMA OtherStreams ==
  ASSUME StreamInv, IInv', NEW r \in Receivers,
         \A q \in Receivers \ {r} : /\ local'[q] = local[q]
                                    /\ taken'[q] = taken[q]
                                    /\ delivered'[q] = delivered[q],
         StreamTypes', sent <= sent',
         \A fd \in Fds :
           Len(sockets'[fd].queue) <= Len(sockets[fd].queue) + (sent' - sent),
         Counting(r)', Numbers(delivered[r] \o InCallback(r), taken[r])'
  PROVE  StreamInv'
  <1>1. /\ sent \in Nat /\ sent' \in Nat
        /\ \A fd \in Fds : Len(sockets[fd].queue) \in Nat
                           /\ Len(sockets'[fd].queue) \in Nat
    <2>1. \A fd \in Fds : /\ sockets[fd].queue \in Seq(Datagrams)
                          /\ sockets'[fd].queue \in Seq(Datagrams)
      BY DEF StreamInv, IInv, TypeOK, SocketType
    <2>. QED  BY <2>1, LenProperties DEF StreamInv, StreamTypes
  <1>2. ASSUME NEW q \in Receivers \ {r}
        PROVE  Counting(q)' /\ Numbers(delivered[q] \o InCallback(q), taken[q])'
    <2>1. local'[q] = local[q] /\ taken'[q] = taken[q] /\ delivered'[q] = delivered[q]
      OBVIOUS
    <2>2. Counting(q) /\ Numbers(delivered[q] \o InCallback(q), taken[q])
      BY DEF StreamInv, EventsAreNumbered
    <2>3. Numbers(delivered[q] \o InCallback(q), taken[q])'
      <3>1. InCallback(q)' = InCallback(q)
        BY <2>1 DEF InCallback
      <3>. QED  BY <2>1, <2>2, <3>1 DEF Numbers
    <2>4. Holds(q)' <=> Holds(q)
      BY <2>1 DEF Holds
    <2>5. Len(taken[q]) \in Nat
      BY LenProperties DEF StreamInv, StreamTypes
    <2>6. Waiting(q)' <= Waiting(q) + (sent' - sent) /\ Waiting(q) \in Nat
                         /\ Waiting(q)' \in Nat
      <3>1. CASE Holds(q)
        <4>1. local[q].sockfd \in Fds
          BY <3>1 DEF StreamInv, IInv, Owners
        <4>2. Waiting(q) = Len(sockets[local[q].sockfd].queue)
          BY <3>1 DEF Waiting, Queue, SocketOf
        <4>3. Waiting(q)' = Len(sockets'[local[q].sockfd].queue)
          BY <2>1, <2>4, <3>1 DEF Waiting, Queue, SocketOf
        <4>. QED  BY <1>1, <4>1, <4>2, <4>3
      <3>2. CASE ~Holds(q)
        BY <1>1, <2>4, <3>2 DEF Waiting
      <3>. QED  BY <3>1, <3>2
    <2>7. Len(taken'[q]) + Waiting(q)' <= sent'
      BY <1>1, <2>1, <2>2, <2>5, <2>6 DEF Counting
    <2>8. Counting(q)'
      BY <2>1, <2>2, <2>4, <2>7 DEF Counting
    <2>. QED  BY <2>3, <2>8
  <1>. QED  BY <1>2 DEF StreamInv, EventsAreNumbered

\* A step of a run between two datagrams, or before the first and after the
\* last, that takes and delivers nothing.
LEMMA QuietStep ==
  ASSUME StreamInv, IInv', NEW r \in Receivers, NEW l, OnlyLocals(r, l),
         UNCHANGED stream_vars,
         \A fd \in Fds : Len(sockets'[fd].queue) <= Len(sockets[fd].queue),
         local[r].point # "event", l.point # "event", l.event = NULL,
         l.point # "socket",
         l.point \in OpenPoints =>
           /\ l.sequence = local[r].sequence
           /\ \/ Holds(r) /\ l.sockfd = local[r].sockfd
              \/ /\ local[r].point = "socket"
                 /\ l.sockfd \in Fds /\ sockets'[l.sockfd].queue = << >>
  PROVE  StreamInv'
  <1>1. /\ local'[r] = l /\ \A q \in Receivers \ {r} : local'[q] = local[q]
        /\ sent' = sent /\ taken' = taken /\ delivered' = delivered
    BY DEF OnlyLocals, StreamInv, IInv, TypeOK, stream_vars
  <1>2. /\ sent \in Nat /\ Len(taken[r]) \in Nat /\ Counting(r)
        /\ local[r].event = NULL
        /\ Numbers(delivered[r] \o InCallback(r), taken[r])
    BY LenProperties DEF StreamInv, StreamTypes, Counting, EventsAreNumbered
  <1>3. \A fd \in Fds : Len(sockets[fd].queue) \in Nat
                        /\ Len(sockets'[fd].queue) \in Nat
    <2>1. \A fd \in Fds : /\ sockets[fd].queue \in Seq(Datagrams)
                          /\ sockets'[fd].queue \in Seq(Datagrams)
      BY DEF StreamInv, IInv, TypeOK, SocketType
    <2>. QED  BY <2>1, LenProperties
  <1>4. Numbers(delivered[r] \o InCallback(r), taken[r])'
    BY <1>1, <1>2 DEF Numbers, InCallback
  <1>5. StreamTypes' /\ sent <= sent'
    BY <1>1, <1>2 DEF StreamInv, StreamTypes
  <1>6. Len(taken[r]) + Waiting(r)' <= sent
    <2>1. CASE l.point \notin OpenPoints
      <3>1. Waiting(r)' = 0
        BY <1>1, <2>1 DEF Waiting, Holds
      <3>2. Waiting(r) \in Nat
        BY <1>3 DEF Waiting, StreamInv, IInv, Owners, Queue, SocketOf
      <3>3. Len(taken[r]) + Waiting(r) <= sent
        BY <1>2 DEF Counting
      <3>. QED  BY <1>2, <3>1, <3>2, <3>3
    <2>2. CASE Holds(r) /\ l.sockfd = local[r].sockfd /\ l.point \in OpenPoints
      <3>1. local[r].sockfd \in Fds
        BY <2>2 DEF StreamInv, IInv, Owners
      <3>2. Waiting(r) = Len(sockets[local[r].sockfd].queue)
        BY <2>2 DEF Waiting, Queue, SocketOf
      <3>3. Waiting(r)' = Len(sockets'[local[r].sockfd].queue)
        BY <1>1, <2>2 DEF Waiting, Holds, Queue, SocketOf
      <3>4. Len(taken[r]) + Waiting(r) <= sent
        BY <1>2 DEF Counting
      <3>5. Waiting(r)' <= Waiting(r) /\ Waiting(r) \in Nat /\ Waiting(r)' \in Nat
        BY <1>3, <3>1, <3>2, <3>3
      <3>. QED  BY <1>2, <3>4, <3>5
    <2>3. CASE /\ local[r].point = "socket" /\ l.point \in OpenPoints
               /\ sockets'[l.sockfd].queue = << >>
      <3>1. Waiting(r)' = 0
        <4>1. Holds(r)'
          BY <1>1, <2>3 DEF Holds
        <4>2. Queue(r)' = << >>
          BY <1>1, <2>3 DEF Queue, SocketOf
        <4>3. Waiting(r)' = Len(Queue(r)')
          BY <4>1 DEF Waiting
        <4>4. Len(Queue(r)') = 0
          BY <4>2
        <4>. QED  BY <4>3, <4>4
      <3>2. Len(taken[r]) = 0
        <4>1. taken[r] = << >>
          BY <1>2, <2>3 DEF Counting
        <4>. QED  BY <4>1
      <3>. QED  BY <1>2, <3>1, <3>2
    <2>. QED  BY <2>1, <2>2, <2>3
  <1>7. l.point \in OpenPoints => l.sequence = Len(taken[r])
    <2>1. CASE Holds(r) /\ l.point \in OpenPoints
      BY <1>2, <2>1 DEF Counting
    <2>2. CASE local[r].point = "socket" /\ l.point \in OpenPoints
      <3>1. taken[r] = << >> /\ l.sequence = 0
        BY <1>2, <2>2 DEF Counting
      <3>. QED  BY <3>1
    <2>. QED  BY <2>1, <2>2
  <1>8. Counting(r)'
    BY <1>1, <1>6, <1>7 DEF Counting, Holds
  <1>9. \A fd \in Fds :
          Len(sockets'[fd].queue) <= Len(sockets[fd].queue) + (sent' - sent)
    BY <1>1, <1>2, <1>3
  <1>. QED  BY <1>1, <1>4, <1>5, <1>8, <1>9, OtherStreams

\* Queues grow by what is sent to them only.
LEMMA QueueOfSocketSet ==
  ASSUME IInv, NEW fd \in Fds, NEW s,
         sockets' = [sockets EXCEPT ![fd] = s],
         Len(s.queue) <= Len(sockets[fd].queue)
  PROVE  \A f \in Fds : Len(sockets'[f].queue) <= Len(sockets[f].queue)
  <1>1. \A f \in Fds : sockets[f].queue \in Seq(Datagrams)
    BY DEF IInv, TypeOK, SocketType
  <1>2. \A f \in Fds : Len(sockets[f].queue) \in Nat
    BY <1>1, LenProperties
  <1>3. \A f \in Fds : sockets'[f] = IF f = fd THEN s ELSE sockets[f]
    BY DEF IInv, TypeOK
  <1>. QED  BY <1>2, <1>3

LEMMA QueuesStay ==
  ASSUME IInv, UNCHANGED sockets
  PROVE  \A f \in Fds : Len(sockets'[f].queue) <= Len(sockets[f].queue)
  <1>1. \A f \in Fds : sockets[f].queue \in Seq(Datagrams)
    BY DEF IInv, TypeOK, SocketType
  <1>2. \A f \in Fds : Len(sockets[f].queue) \in Nat
    BY <1>1, LenProperties
  <1>. QED  BY <1>2

LEMMA EmptyQueues ==
  /\ Closed.queue = << >> /\ NewSocket.queue = << >>
  /\ Len(Closed.queue) = 0 /\ Len(NewSocket.queue) = 0
  <1>1. Closed.queue = << >> /\ NewSocket.queue = << >>
    BY DEF Closed, NewSocket
  <1>. QED  BY <1>1

\* The locals of a run that returned, or is about to call close.
LEMMA ReturnedLocals ==
  \A value \in {"0", "-1"} :
    LET l == [NoRun EXCEPT !.result = value] IN
    l.point = "idle" /\ l.event = NULL /\ l.point \notin OpenPoints
  BY PointsDiffer DEF NoRun

LEMMA FailOpenStream ==
  ASSUME StreamInv, IInv', NEW r \in Receivers, FailOpen(r),
         UNCHANGED stream_vars, Holds(r), local[r].point # "event"
  PROVE  StreamInv'
  <1>1. PICK error \in Errnos :
          local' = [local EXCEPT ![r].point = "abort", ![r].saved_errno = error]
    BY DEF FailOpen
  <1>. DEFINE l == [local[r] EXCEPT !.point = "abort", !.saved_errno = error]
  <1>2. local[r] \in LocalType /\ local[r].event = NULL /\ IInv
    BY DEF StreamInv, IInv, TypeOK, Counting
  <1>3. OnlyLocals(r, l)
    BY <1>1, <1>2 DEF OnlyLocals, IInv, TypeOK
  <1>4. /\ l.point = "abort" /\ l.event = NULL
        /\ l.sequence = local[r].sequence /\ l.sockfd = local[r].sockfd
    BY <1>2 DEF LocalType
  <1>5. \A fd \in Fds : Len(sockets'[fd].queue) <= Len(sockets[fd].queue)
    BY <1>2, QueuesStay DEF FailOpen
  <1>. HIDE DEF l
  <1>. QED  BY <1>3, <1>4, <1>5, QuietStep

\* A step that only moves on with the socket open.
LEMMA GoToStream ==
  ASSUME StreamInv, IInv', NEW r \in Receivers, NEW point, GoTo(r, point),
         UNCHANGED stream_vars, Holds(r), local[r].point # "event",
         point # "event", point # "socket",
         \A fd \in Fds : Len(sockets'[fd].queue) <= Len(sockets[fd].queue)
  PROVE  StreamInv'
  <1>. DEFINE l == [local[r] EXCEPT !.point = point]
  <1>1. local[r] \in LocalType /\ local[r].event = NULL /\ IInv
    BY DEF StreamInv, IInv, TypeOK, Counting
  <1>2. OnlyLocals(r, l)
    BY <1>1 DEF GoTo, OnlyLocals, IInv, TypeOK
  <1>3. /\ l.point = point /\ l.event = NULL
        /\ l.sequence = local[r].sequence /\ l.sockfd = local[r].sockfd
    BY <1>1 DEF LocalType
  <1>. HIDE DEF l
  <1>. QED  BY <1>2, <1>3, QuietStep

LEMMA ConfigureStream ==
  ASSUME StreamInv, IInv', NEW r \in Receivers, UNCHANGED stream_vars,
         NEW point \in SetupPoints, NEW next \in OpenPoints \ {"event"}, NEW s,
         Configure(r, point, s, next), s.queue = SocketOf(r).queue
  PROVE  StreamInv'
  <1>1. /\ local[r].point = point /\ Holds(r) /\ local[r].point # "event"
        /\ next # "event" /\ next # "socket" /\ IInv
    BY PointsDiffer DEF Configure, At, Holds, SetupPoints, OpenPoints, StreamInv
  <1>2. CASE FailOpen(r)
    BY <1>1, <1>2, FailOpenStream
  <1>3. CASE sockets' = [sockets EXCEPT ![local[r].sockfd] = s] /\ GoTo(r, next)
    <2>1. local[r].sockfd \in Fds
      BY <1>1 DEF IInv, Owners
    <2>2. Len(s.queue) <= Len(sockets[local[r].sockfd].queue)
      <3>1. sockets[local[r].sockfd].queue \in Seq(Datagrams)
        BY <1>1, <2>1 DEF IInv, TypeOK, SocketType
      <3>2. Len(sockets[local[r].sockfd].queue) \in Nat
        BY <3>1, LenProperties
      <3>. QED  BY <3>2 DEF SocketOf
    <2>3. \A fd \in Fds : Len(sockets'[fd].queue) <= Len(sockets[fd].queue)
      BY <1>1, <1>3, <2>1, <2>2, QueueOfSocketSet
    <2>. QED  BY <1>1, <1>3, <2>3, GoToStream
  <1>. QED  BY <1>2, <1>3 DEF Configure

\* Returning, with the descriptor given back.
LEMMA CloseStream ==
  ASSUME StreamInv, IInv', NEW r \in Receivers, UNCHANGED stream_vars,
         Holds(r), local[r].point # "event",
         Close(r), NEW value \in {"0", "-1"}, Return(r, value)
  PROVE  StreamInv'
  <1>. DEFINE l == [NoRun EXCEPT !.result = value]
  <1>1. OnlyLocals(r, l)
    BY DEF Return, OnlyLocals
  <1>2. l.point = "idle" /\ l.event = NULL /\ l.point \notin OpenPoints
    BY ReturnedLocals
  <1>3. local[r].sockfd \in Fds /\ IInv
    BY DEF StreamInv, IInv, Owners
  <1>4. \A fd \in Fds : Len(sockets'[fd].queue) <= Len(sockets[fd].queue)
    <2>1. sockets[local[r].sockfd].queue \in Seq(Datagrams)
      BY <1>3 DEF IInv, TypeOK, SocketType
    <2>2. Len(Closed.queue) <= Len(sockets[local[r].sockfd].queue)
      BY <2>1, LenProperties, EmptyQueues
    <2>. QED  BY <1>3, <2>2, QueueOfSocketSet DEF Close
  <1>. HIDE DEF l
  <1>. QED  BY <1>1, <1>2, <1>4, QuietStep

LEMMA SocketStream ==
  ASSUME StreamInv, IInv', NEW r \in Receivers, UNCHANGED stream_vars, Socket(r)
  PROVE  StreamInv'
  <1>1. /\ local[r].point = "socket" /\ local[r] \in LocalType
        /\ local[r].event = NULL /\ IInv
    BY DEF Socket, At, StreamInv, IInv, TypeOK, Counting
  <1>2. CASE Return(r, "-1") /\ UNCHANGED sockets
    <2>. DEFINE l == [NoRun EXCEPT !.result = "-1"]
    <2>1. OnlyLocals(r, l)
      BY <1>2 DEF Return, OnlyLocals
    <2>2. l.point = "idle" /\ l.event = NULL /\ l.point \notin OpenPoints
      BY ReturnedLocals
    <2>3. \A fd \in Fds : Len(sockets'[fd].queue) <= Len(sockets[fd].queue)
      BY <1>1, <1>2, QueuesStay
    <2>. HIDE DEF l
    <2>. QED  BY <1>1, <2>1, <2>2, <2>3, QuietStep
  <1>3. ASSUME NEW fd \in Fds,
               sockets' = [sockets EXCEPT ![fd] = NewSocket],
               local' = [local EXCEPT ![r].point = "setsockopt", ![r].sockfd = fd]
        PROVE  StreamInv'
    <2>. DEFINE l == [local[r] EXCEPT !.point = "setsockopt", !.sockfd = fd]
    <2>1. OnlyLocals(r, l)
      BY <1>1, <1>3 DEF OnlyLocals, IInv, TypeOK
    <2>2. /\ l.point = "setsockopt" /\ l.event = NULL /\ l.sockfd = fd
          /\ l.sequence = local[r].sequence
      BY <1>1 DEF LocalType
    <2>3. sockets'[fd].queue = << >>
      BY <1>1, <1>3, EmptyQueues DEF IInv, TypeOK
    <2>4. \A f \in Fds : Len(sockets'[f].queue) <= Len(sockets[f].queue)
      <3>1. sockets[fd].queue \in Seq(Datagrams)
        BY <1>1 DEF IInv, TypeOK, SocketType
      <3>2. Len(NewSocket.queue) <= Len(sockets[fd].queue)
        BY <3>1, LenProperties, EmptyQueues
      <3>. QED  BY <1>1, <1>3, <3>2, QueueOfSocketSet
    <2>. HIDE DEF l
    <2>. QED  BY <1>1, <2>1, <2>2, <2>3, <2>4, QuietStep
  <1>. QED  BY <1>2, <1>3 DEF Socket

LEMMA UnseenStream ==
  ASSUME StreamInv, IInv', NEW r \in Receivers, UNCHANGED stream_vars,
         Unseen(r) \/ ReceiveFails(r)
  PROVE  StreamInv'
  <1>1. CASE Socket(r)
    BY <1>1, SocketStream
  <1>2. CASE Setsockopt(r)
    BY <1>2, ConfigureStream, PointsDiffer DEF Setsockopt, SetupPoints
  <1>3. CASE Getfl(r)
    BY <1>3, ConfigureStream, PointsDiffer DEF Getfl, SetupPoints
  <1>4. CASE Setfl(r)
    <2>1. /\ Holds(r) /\ local[r].sockfd \in Fds
      BY <1>4, PointsDiffer DEF Setfl, Configure, At, Holds, StreamInv, IInv, Owners
    <2>2. SocketOf(r) \in SocketType
      BY <2>1 DEF SocketOf, StreamInv, IInv, TypeOK
    <2>3. [SocketOf(r) EXCEPT !.nonblocking = TRUE].queue = SocketOf(r).queue
      BY <2>2 DEF SocketType
    <2>. QED  BY <1>4, <2>3, ConfigureStream, PointsDiffer DEF Setfl, SetupPoints
  <1>5. CASE Bind(r)
    <2>1. /\ Holds(r) /\ local[r].sockfd \in Fds
      BY <1>5, PointsDiffer DEF Bind, Configure, At, Holds, StreamInv, IInv, Owners
    <2>2. SocketOf(r) \in SocketType
      BY <2>1 DEF SocketOf, StreamInv, IInv, TypeOK
    <2>3. [SocketOf(r) EXCEPT !.port = r].queue = SocketOf(r).queue
      BY <2>2 DEF SocketType
    <2>. QED  BY <1>5, <2>3, ConfigureStream, PointsDiffer DEF Bind, SetupPoints
  <1>6. CASE Poll(r)
    <2>1. /\ Holds(r) /\ local[r].point = "poll" /\ UNCHANGED sockets /\ IInv
      BY <1>6, PointsDiffer DEF Poll, At, Holds, StreamInv
    <2>2. \A fd \in Fds : Len(sockets'[fd].queue) <= Len(sockets[fd].queue)
      BY <2>1, QueuesStay
    <2>3. PICK point \in {"recv", "shutdown"} : GoTo(r, point)
      BY <1>6 DEF Poll
    <2>. QED  BY <2>1, <2>2, <2>3, GoToStream
  <1>7. CASE ReceiveNothing(r)
    <2>1. /\ Holds(r) /\ local[r].point = "recv" /\ UNCHANGED sockets /\ IInv
      BY <1>7, PointsDiffer DEF ReceiveNothing, At, Holds, StreamInv
    <2>2. \A fd \in Fds : Len(sockets'[fd].queue) <= Len(sockets[fd].queue)
      BY <2>1, QueuesStay
    <2>. QED  BY <1>7, <2>1, <2>2, GoToStream DEF ReceiveNothing
  <1>8. CASE Abort(r)
    BY <1>8, CloseStream, PointsDiffer DEF Abort, At, Holds
  <1>9. CASE Shutdown(r)
    BY <1>9, CloseStream, PointsDiffer DEF Shutdown, At, Holds
  <1>10. CASE ReceiveFails(r)
    BY <1>10, FailOpenStream, PointsDiffer DEF ReceiveFails, At, Holds
  <1>. QED
    BY <1>1, <1>2, <1>3, <1>4, <1>5, <1>6, <1>7, <1>8, <1>9, <1>10 DEF Unseen

\* A new run has taken nothing yet.
LEMMA CallStreamInv ==
  ASSUME StreamInv, IInv', NEW r \in Receivers, CallStream(r)
  PROVE  StreamInv'
  <1>1. IInv /\ StreamTypes
    BY DEF StreamInv
  <1>2. /\ taken' = [taken EXCEPT ![r] = << >>]
        /\ delivered' = [delivered EXCEPT ![r] = << >>]
        /\ sent' = sent /\ UNCHANGED sockets
    BY DEF CallStream, Call
  <1>3. PICK l : /\ OnlyLocals(r, l) /\ l.event = NULL
                 /\ l.point \in {"idle", "socket"} /\ l.sequence = 0
    <2>1. CASE Return(r, "-1")
      <3>. DEFINE l == [NoRun EXCEPT !.result = "-1"]
      <3>1. OnlyLocals(r, l)
        BY <2>1 DEF Return, OnlyLocals
      <3>2. l.event = NULL /\ l.point = "idle" /\ l.sequence = 0
        BY DEF NoRun
      <3>. QED  BY <3>1, <3>2
    <2>2. CASE local' = [local EXCEPT ![r] = [NoRun EXCEPT !.point = "socket"]]
      <3>. DEFINE l == [NoRun EXCEPT !.point = "socket"]
      <3>1. OnlyLocals(r, l)
        BY <2>2 DEF OnlyLocals
      <3>2. l.event = NULL /\ l.point = "socket" /\ l.sequence = 0
        BY DEF NoRun
      <3>. QED  BY <3>1, <3>2
    <2>. QED  BY <2>1, <2>2 DEF CallStream, Call
  <1>4. /\ local'[r] = l /\ \A q \in Receivers \ {r} : local'[q] = local[q]
    BY <1>1, <1>3 DEF OnlyLocals, IInv, TypeOK
  <1>5. /\ taken'[r] = << >> /\ delivered'[r] = << >>
        /\ \A q \in Receivers \ {r} : /\ taken'[q] = taken[q]
                                      /\ delivered'[q] = delivered[q]
    BY <1>1, <1>2 DEF StreamTypes
  <1>6. StreamTypes' /\ sent \in Nat
    <2>1. << >> \in Seq(Datagrams) /\ << >> \in Seq(IngressEvents)
      BY EmptySeq
    <2>. QED  BY <1>1, <1>2, <2>1 DEF StreamTypes
  <1>7. Counting(r)'
    <2>1. ~Holds(r)' /\ Len(taken'[r]) = 0
      BY <1>3, <1>4, <1>5, PointsDiffer DEF Holds
    <2>2. Len(taken'[r]) + Waiting(r)' <= sent'
      BY <1>2, <1>6, <2>1 DEF Waiting
    <2>. QED  BY <1>3, <1>4, <1>5, <2>1, <2>2 DEF Counting
  <1>8. Numbers(delivered[r] \o InCallback(r), taken[r])'
    <2>1. InCallback(r)' = << >>
      BY <1>3, <1>4 DEF InCallback
    <2>2. << >> \o << >> = << >>
      OBVIOUS
    <2>3. delivered'[r] \o InCallback(r)' = << >> /\ taken'[r] = << >>
      BY <1>5, <2>1, <2>2
    <2>. QED  BY <2>3, NumbersOfNothing DEF Numbers
  <1>9. \A fd \in Fds :
          Len(sockets'[fd].queue) <= Len(sockets[fd].queue) + (sent' - sent)
    <2>1. \A fd \in Fds : sockets[fd].queue \in Seq(Datagrams)
      BY <1>1 DEF IInv, TypeOK, SocketType
    <2>2. \A fd \in Fds : Len(sockets[fd].queue) \in Nat
      BY <2>1, LenProperties
    <2>. QED  BY <1>2, <1>6, <2>2
  <1>10. sent <= sent'
    BY <1>2, <1>6
  <1>. QED  BY <1>4, <1>5, <1>6, <1>7, <1>8, <1>9, <1>10, OtherStreams

\* One datagram more may wait, and one more was sent.
LEMMA SendStreamInv ==
  ASSUME StreamInv, IInv', NEW r \in Receivers, NEW d \in Datagrams,
         SendStream(r, d)
  PROVE  StreamInv'
  <1>1. IInv /\ StreamTypes /\ Counting(r)
        /\ Numbers(delivered[r] \o InCallback(r), taken[r])
    BY DEF StreamInv, EventsAreNumbered
  <1>2. /\ sent' = sent + 1 /\ UNCHANGED <<taken, delivered, local>>
        /\ d.body = sent + 1
    BY DEF SendStream, Send
  <1>3. StreamTypes' /\ sent \in Nat /\ sent' - sent = 1 /\ sent <= sent'
    <2>1. sent \in 0 .. MaxSent /\ d.body \in 1 .. MaxSent /\ MaxSent \in Nat
      BY <1>1, MaxSentAssumption DEF StreamTypes
    <2>. QED  BY <1>1, <1>2, <2>1 DEF StreamTypes
  <1>4. \A fd \in Fds : /\ Len(sockets[fd].queue) \in Nat
                        /\ Len(sockets'[fd].queue) \in Nat
                        /\ Len(sockets'[fd].queue) <= Len(sockets[fd].queue) + 1
    <2>1. \A fd \in Fds : sockets[fd].queue \in Seq(Datagrams)
      BY <1>1 DEF IInv, TypeOK, SocketType
    <2>2. PICK f \in Fds : sockets' = [sockets EXCEPT ![f].queue = Append(@, d)]
      BY DEF SendStream, Send
    <2>3. \A fd \in Fds : /\ Len(sockets[fd].queue) \in Nat
                          /\ Len(Append(sockets[fd].queue, d)) =
                               Len(sockets[fd].queue) + 1
      BY <2>1, AppendProperties, LenProperties
    <2>4. \A fd \in Fds : sockets'[fd].queue =
              IF fd = f THEN Append(sockets[fd].queue, d) ELSE sockets[fd].queue
      BY <1>1, <2>2 DEF IInv, TypeOK, SocketType
    <2>5. ASSUME NEW fd \in Fds
          PROVE  /\ Len(sockets[fd].queue) \in Nat
                 /\ Len(sockets'[fd].queue) \in Nat
                 /\ Len(sockets'[fd].queue) <= Len(sockets[fd].queue) + 1
      <3>1. /\ Len(sockets[fd].queue) \in Nat
            /\ Len(Append(sockets[fd].queue, d)) = Len(sockets[fd].queue) + 1
        BY <2>3
      <3>2. CASE sockets'[fd].queue = Append(sockets[fd].queue, d)
        BY <3>1, <3>2
      <3>3. CASE sockets'[fd].queue = sockets[fd].queue
        BY <3>1, <3>3
      <3>. QED  BY <2>4, <3>2, <3>3
    <2>. QED  BY <2>5
  <1>5. Numbers(delivered[r] \o InCallback(r), taken[r])'
    <2>1. InCallback(r)' = InCallback(r)
      BY <1>2 DEF InCallback
    <2>. QED  BY <1>1, <1>2, <2>1 DEF Numbers
  <1>6. Counting(r)'
    <2>1. Holds(r)' <=> Holds(r)
      BY <1>2 DEF Holds
    <2>2. Len(taken[r]) \in Nat /\ Len(taken[r]) + Waiting(r) <= sent
      BY <1>1, LenProperties DEF StreamTypes, Counting
    <2>3. Waiting(r)' <= Waiting(r) + 1 /\ Waiting(r) \in Nat /\ Waiting(r)' \in Nat
      <3>1. CASE Holds(r)
        <4>1. local[r].sockfd \in Fds
          BY <1>1, <3>1 DEF IInv, Owners
        <4>2. Waiting(r) = Len(sockets[local[r].sockfd].queue)
          BY <3>1 DEF Waiting, Queue, SocketOf
        <4>3. Waiting(r)' = Len(sockets'[local[r].sockfd].queue)
          BY <1>2, <2>1, <3>1 DEF Waiting, Queue, SocketOf
        <4>. QED  BY <1>4, <4>1, <4>2, <4>3
      <3>2. CASE ~Holds(r)
        BY <2>1, <3>2 DEF Waiting
      <3>. QED  BY <3>1, <3>2
    <2>4. Len(taken'[r]) + Waiting(r)' <= sent'
      BY <1>2, <1>3, <2>2, <2>3
    <2>. QED  BY <1>1, <1>2, <2>1, <2>4 DEF Counting
  <1>7. \A fd \in Fds :
          Len(sockets'[fd].queue) <= Len(sockets[fd].queue) + (sent' - sent)
    BY <1>3, <1>4
  <1>. QED  BY <1>2, <1>3, <1>5, <1>6, <1>7, OtherStreams

\* The callback returns: what it was given counts as delivered.
LEMMA OnEventStreamInv ==
  ASSUME StreamInv, IInv', NEW r \in Receivers, OnEventStream(r)
  PROVE  StreamInv'
  <1>1. IInv /\ StreamTypes /\ Counting(r)
        /\ Numbers(delivered[r] \o InCallback(r), taken[r])
    BY DEF StreamInv, EventsAreNumbered
  <1>2. /\ local[r].point = "event" /\ Holds(r) /\ local[r] \in LocalType
        /\ local[r].event \in IngressEvents /\ local[r].event # NULL
    BY <1>1, PointsDiffer
       DEF OnEventStream, OnEvent, At, Holds, IInv, TypeOK, Counting, LocalType
  <1>3. /\ delivered' = [delivered EXCEPT ![r] = Append(@, local[r].event)]
        /\ sent' = sent /\ taken' = taken /\ UNCHANGED sockets
        /\ local' = [local EXCEPT ![r].point = "poll", ![r].event = NULL]
    BY DEF OnEventStream, OnEvent
  <1>4. /\ \A q \in Receivers \ {r} : /\ local'[q] = local[q]
                                      /\ taken'[q] = taken[q]
                                      /\ delivered'[q] = delivered[q]
        /\ local'[r] = [local[r] EXCEPT !.point = "poll", !.event = NULL]
        /\ delivered'[r] = Append(delivered[r], local[r].event)
    BY <1>1, <1>3 DEF IInv, TypeOK, StreamTypes
  <1>5. /\ local'[r].point = "poll" /\ local'[r].event = NULL
        /\ local'[r].sockfd = local[r].sockfd
        /\ local'[r].sequence = local[r].sequence
    BY <1>2, <1>4 DEF LocalType
  <1>6. delivered[r] \in Seq(IngressEvents)
    BY <1>1 DEF StreamTypes
  <1>7. StreamTypes' /\ sent \in Nat
    <2>1. Append(delivered[r], local[r].event) \in Seq(IngressEvents)
      BY <1>2, <1>6, AppendProperties
    <2>. QED  BY <1>1, <1>3, <2>1 DEF StreamTypes
  <1>8. Numbers(delivered[r] \o InCallback(r), taken[r])'
    <2>1. InCallback(r) = <<local[r].event>> /\ InCallback(r)' = << >>
      BY <1>2, <1>5 DEF InCallback
    <2>2. ASSUME NEW s \in Seq(IngressEvents), NEW e \in IngressEvents
          PROVE  Append(s, e) \o << >> = s \o <<e>>
      OBVIOUS
    <2>3. delivered'[r] \o InCallback(r)' = delivered[r] \o InCallback(r)
      BY <1>2, <1>4, <1>6, <2>1, <2>2
    <2>. QED  BY <1>1, <1>3, <2>3 DEF Numbers
  <1>9. Holds(r)' /\ Waiting(r)' = Waiting(r)
    <2>1. Holds(r)'
      BY <1>5, PointsDiffer DEF Holds
    <2>. QED  BY <1>2, <1>3, <1>5, <2>1 DEF Waiting, Queue, SocketOf
  <1>10. Counting(r)'
    BY <1>1, <1>2, <1>3, <1>5, <1>9 DEF Counting
  <1>11. \A fd \in Fds :
           Len(sockets'[fd].queue) <= Len(sockets[fd].queue) + (sent' - sent)
    <2>1. \A fd \in Fds : sockets[fd].queue \in Seq(Datagrams)
      BY <1>1 DEF IInv, TypeOK, SocketType
    <2>2. \A fd \in Fds : Len(sockets[fd].queue) \in Nat
      BY <2>1, LenProperties
    <2>. QED  BY <1>3, <1>7, <2>2
  <1>12. sent <= sent'
    BY <1>3, <1>7
  <1>. QED  BY <1>4, <1>7, <1>8, <1>10, <1>11, <1>12, OtherStreams

\* A datagram is taken: the next number is its place.
LEMMA ReceiveStreamInv ==
  ASSUME StreamInv, IInv', NEW r \in Receivers, ReceiveStream(r)
  PROVE  StreamInv'
  <1>. DEFINE d == Head(Queue(r))
              fd == local[r].sockfd
              n == Len(taken[r])
  <1>1. IInv /\ StreamTypes /\ Counting(r)
        /\ Numbers(delivered[r] \o InCallback(r), taken[r])
    BY DEF StreamInv, EventsAreNumbered
  <1>2. /\ local[r].point = "recv" /\ Holds(r) /\ local[r] \in LocalType
        /\ local[r].event = NULL /\ fd \in Fds
        /\ local[r].sequence = n
    BY <1>1, PointsDiffer
       DEF ReceiveStream, Receive, At, Holds, IInv, TypeOK, Owners, Counting
  <1>3. /\ delivered' = delivered /\ sent' = sent
        /\ taken' = IF d.size = 0 THEN taken ELSE [taken EXCEPT ![r] = Append(@, d)]
        /\ Accept(r, d) /\ Queue(r) # << >>
        /\ sockets' = [sockets EXCEPT ![fd].queue = Tail(@)]
    BY DEF ReceiveStream, Receive, Dequeue
  <1>4. /\ Queue(r) \in Seq(Datagrams) /\ Queue(r) = sockets[fd].queue
        /\ d \in Datagrams /\ Len(Queue(r)) \in Nat
        /\ Len(Tail(Queue(r))) = Len(Queue(r)) - 1 /\ Len(Queue(r)) >= 1
    <2>1. Queue(r) \in Seq(Datagrams) /\ Queue(r) = sockets[fd].queue
      BY <1>1, <1>2 DEF Queue, SocketOf, IInv, TypeOK, SocketType
    <2>2. d \in Datagrams
      BY <1>3, <2>1, HeadTailProperties
    <2>3. /\ Len(Queue(r)) \in Nat /\ Len(Tail(Queue(r))) = Len(Queue(r)) - 1
          /\ Len(Tail(Queue(r))) \in Nat
      <3>1. Tail(Queue(r)) \in Seq(Datagrams)
        BY <1>3, <2>1, HeadTailProperties
      <3>. QED  BY <1>3, <2>1, <3>1, HeadTailProperties, LenProperties
    <2>. QED  BY <2>1, <2>2, <2>3
  <1>5. \A f \in Fds : /\ Len(sockets[f].queue) \in Nat
                       /\ Len(sockets'[f].queue) =
                            IF f = fd THEN Len(Queue(r)) - 1 ELSE Len(sockets[f].queue)
    <2>1. \A f \in Fds : sockets[f].queue \in Seq(Datagrams)
      BY <1>1 DEF IInv, TypeOK, SocketType
    <2>2. \A f \in Fds : Len(sockets[f].queue) \in Nat
      BY <2>1, LenProperties
    <2>3. \A f \in Fds : sockets'[f].queue =
            IF f = fd THEN Tail(sockets[f].queue) ELSE sockets[f].queue
      <3>1. /\ DOMAIN sockets = Fds
            /\ \A f \in Fds : "queue" \in DOMAIN sockets[f]
        BY <1>1 DEF IInv, TypeOK, SocketType
      <3>2. /\ sockets' = [sockets EXCEPT ![fd].queue = Tail(@)]
            /\ fd \in Fds
        BY <1>2, <1>3
      <3>. HIDE DEF fd
      <3>. QED  BY ONLY <3>1, <3>2
    <2>. QED  BY <1>4, <2>2, <2>3
  <1>6. /\ taken[r] \in Seq(Datagrams) /\ delivered[r] \in Seq(IngressEvents)
        /\ n \in Nat /\ sent \in Nat /\ sent <= MaxSent
        /\ MaxSent \in Nat /\ MaxSent <= MaxSequence /\ MaxSequence \in Nat
        /\ n + Len(Queue(r)) <= sent
    <2>1. taken[r] \in Seq(Datagrams) /\ delivered[r] \in Seq(IngressEvents)
      BY <1>1 DEF StreamTypes
    <2>2. n \in Nat
      BY <2>1, LenProperties
    <2>3. n + Len(Queue(r)) <= sent
      BY <1>1, <1>2 DEF Counting, Waiting
    <2>. QED  BY <1>1, <2>1, <2>2, <2>3, MaxSentAssumption, ReceiverAssumption
           DEF StreamTypes
  <1>. DEFINE id == NextSequence(local[r].sequence)
  <1>7. id = n + 1 /\ id \in 0 .. MaxSequence
    <2>1. n < MaxSequence
      <3>1. /\ n \in Nat /\ Len(Queue(r)) \in Nat /\ Len(Queue(r)) >= 1
            /\ n + Len(Queue(r)) <= sent
        BY <1>4, <1>6
      <3>2. /\ sent \in Nat /\ MaxSent \in Nat /\ MaxSequence \in Nat
            /\ sent <= MaxSent /\ MaxSent <= MaxSequence
        BY <1>6
      <3>. HIDE DEF n
      <3>. QED  BY ONLY <3>1, <3>2
    <2>. QED  BY <1>2, <1>6, <2>1 DEF NextSequence
  <1>8. EventOf(d, id) \in IngressEvents /\ EventOf(d, id) # NULL
    BY <1>4, <1>7, NoEventAssumption DEF IngressEvents
  <1>9. \A q \in Receivers \ {r} : local'[q] = local[q]
    BY <1>1, <1>3 DEF Accept, GoTo, IInv, TypeOK
  <1>10. \A q \in Receivers \ {r} : taken'[q] = taken[q] /\ delivered'[q] = delivered[q]
    BY <1>1, <1>3 DEF StreamTypes
  <1>11. \A f \in Fds :
           Len(sockets'[f].queue) <= Len(sockets[f].queue) + (sent' - sent)
    <2>1. sent' - sent = 0
      BY <1>3, <1>6
    <2>2. ASSUME NEW f \in Fds
          PROVE  Len(sockets'[f].queue) <= Len(sockets[f].queue)
      <3>1. f = fd => Len(sockets[f].queue) = Len(Queue(r))
        BY <1>4
      <3>. QED  BY <1>4, <1>5, <3>1
    <2>. QED  BY ONLY <1>5, <2>1, <2>2
  \* The locals and histories of r in each of the three cases.
  <1>12. /\ local'[r].sockfd = fd /\ Holds(r)'
         /\ local'[r].point # "socket"
         /\ local'[r].event # NULL <=> local'[r].point = "event"
         /\ local'[r].sequence = IF d.size = 0 THEN n ELSE id
         /\ d.size # 0 /\ Decodes(d) => local'[r].event = EventOf(d, id)
         /\ d.size = 0 \/ ~Decodes(d) => local'[r].event = NULL
    <2>1. CASE d.size = 0
      <3>1. local'[r] = [local[r] EXCEPT !.point = "poll"]
        BY <1>1, <1>3, <2>1 DEF Accept, GoTo, IInv, TypeOK
      <3>2. /\ local'[r].point = "poll" /\ local'[r].event = NULL
            /\ local'[r].sockfd = fd /\ local'[r].sequence = n
        BY <1>2, <3>1 DEF LocalType
      <3>. QED  BY <2>1, <3>2, PointsDiffer DEF Holds
    <2>2. CASE d.size # 0 /\ Decodes(d)
      <3>1. local'[r] = [local[r] EXCEPT !.sequence = id, !.point = "event",
                                         !.event = EventOf(d, id)]
        BY <1>1, <1>3, <2>2 DEF Accept, IInv, TypeOK
      <3>2. /\ local'[r].point = "event" /\ local'[r].event = EventOf(d, id)
            /\ local'[r].sockfd = fd /\ local'[r].sequence = id
        BY <1>2, <3>1 DEF LocalType
      <3>. QED  BY <1>8, <2>2, <3>2, PointsDiffer DEF Holds
    <2>3. CASE d.size # 0 /\ ~Decodes(d)
      <3>1. local'[r] = [local[r] EXCEPT !.sequence = id, !.point = "poll"]
        BY <1>1, <1>3, <2>3 DEF Accept, IInv, TypeOK
      <3>2. /\ local'[r].point = "poll" /\ local'[r].event = NULL
            /\ local'[r].sockfd = fd /\ local'[r].sequence = id
        BY <1>2, <3>1 DEF LocalType
      <3>. QED  BY <2>3, <3>2, PointsDiffer DEF Holds
    <2>. QED  BY <2>1, <2>2, <2>3
  <1>13. taken'[r] = IF d.size = 0 THEN taken[r] ELSE Append(taken[r], d)
    BY <1>1, <1>3 DEF StreamTypes
  <1>14. Waiting(r)' = Len(Queue(r)) - 1
    <2>1. Waiting(r)' = Len(sockets'[fd].queue)
      BY <1>12 DEF Waiting, Queue, SocketOf
    <2>. QED  BY <1>2, <1>5, <2>1
  <1>. HIDE DEF d, id, fd
  <1>15. /\ Append(taken[r], d) \in Seq(Datagrams)
         /\ Len(Append(taken[r], d)) = n + 1
    BY <1>4, <1>6, AppendProperties
  <1>16. StreamTypes'
    BY <1>1, <1>3, <1>15 DEF StreamTypes
  <1>17. Len(taken'[r]) = IF d.size = 0 THEN n ELSE n + 1
    BY <1>13, <1>15
  <1>18. Counting(r)'
    <2>1. Len(taken'[r]) + Waiting(r)' <= sent'
      <3>1. /\ n \in Nat /\ Len(Queue(r)) \in Nat /\ Len(Queue(r)) >= 1
            /\ n + Len(Queue(r)) <= sent /\ sent \in Nat
        BY <1>4, <1>6
      <3>2. Len(taken'[r]) = n \/ Len(taken'[r]) = n + 1
        BY <1>17
      <3>. HIDE DEF n
      <3>3. sent' = sent
        BY <1>3
      <3>. QED  BY ONLY <3>1, <3>2, <3>3, <1>14
    <2>2. local'[r].sequence = Len(taken'[r])
      BY <1>7, <1>12, <1>17
    <2>. QED  BY <1>12, <2>1, <2>2 DEF Counting
  <1>19. Numbers(delivered[r] \o InCallback(r), taken[r])'
    <2>0. ASSUME NEW s \in Seq(IngressEvents), NEW e \in IngressEvents
          PROVE  s \o << >> = s /\ s \o <<e>> = Append(s, e)
      OBVIOUS
    <2>1. Numbers(delivered[r], taken[r])
      <3>1. InCallback(r) = << >>
        BY <1>2 DEF InCallback
      <3>2. delivered[r] \o << >> = delivered[r]
        BY <1>6, <1>8, <2>0
      <3>. QED  BY <1>1, <3>1, <3>2
    <2>2. CASE d.size # 0 /\ Decodes(d)
      <3>1. InCallback(r)' = <<EventOf(d, id)>>
        BY <1>8, <1>12, <2>2 DEF InCallback
      <3>2. delivered'[r] \o InCallback(r)' = Append(delivered[r], EventOf(d, id))
        BY <1>3, <1>6, <1>8, <2>0, <3>1
      <3>3. taken'[r] = Append(taken[r], d)
        BY <1>13, <2>2
      <3>4. Numbers(Append(delivered[r], EventOf(d, id)), Append(taken[r], d))
        BY <1>4, <1>6, <1>7, <1>8, <2>1, <2>2, NumbersAppend
      <3>. QED  BY <3>2, <3>3, <3>4 DEF Numbers
    <2>3. CASE d.size = 0 \/ ~Decodes(d)
      <3>1. InCallback(r)' = << >>
        BY <1>12, <2>3 DEF InCallback
      <3>2. delivered'[r] \o InCallback(r)' = delivered[r]
        BY <1>3, <1>6, <1>8, <2>0, <3>1
      <3>3. d.size = 0 => ~Decodes(d)
        BY DEF Decodes, WIRE_SIZE
      <3>4. Numbers(delivered[r], taken'[r])
        BY <1>4, <1>6, <1>13, <2>1, <2>3, <3>3, NumbersSkip
      <3>. QED  BY <3>2, <3>4 DEF Numbers
    <2>. QED  BY <2>2, <2>3
  <1>20. sent <= sent'
    BY <1>3, <1>6
  <1>. QED  BY <1>9, <1>10, <1>11, <1>16, <1>18, <1>19, <1>20, OtherStreams

LEMMA StreamBegins == StreamInit => StreamInv
  <1>. SUFFICES ASSUME StreamInit  PROVE StreamInv
    OBVIOUS
  <1>1. IInv
    BY InitIInv DEF StreamInit
  <1>2. StreamTypes /\ sent = 0
    <2>1. << >> \in Seq(Datagrams) /\ << >> \in Seq(IngressEvents)
      BY EmptySeq
    <2>. QED  BY <2>1, MaxSentAssumption DEF StreamInit, StreamTypes
  <1>3. ASSUME NEW r \in Receivers
        PROVE  Counting(r) /\ Numbers(delivered[r] \o InCallback(r), taken[r])
    <2>1. /\ local[r] = NoRun /\ taken[r] = << >> /\ delivered[r] = << >>
      BY DEF StreamInit, Init
    <2>2. local[r].event = NULL /\ local[r].point = "idle" /\ ~Holds(r)
      BY <2>1, PointsDiffer DEF NoRun, Holds
    <2>3. Len(taken[r]) = 0
      BY <2>1
    <2>4. Counting(r)
      BY <1>2, <2>1, <2>2, <2>3 DEF Counting, Waiting
    <2>5. delivered[r] \o InCallback(r) = << >>
      <3>1. << >> \o << >> = << >>
        OBVIOUS
      <3>. QED  BY <2>1, <2>2, <3>1 DEF InCallback
    <2>. QED  BY <2>1, <2>4, <2>5, NumbersOfNothing
  <1>. QED  BY <1>1, <1>2, <1>3 DEF StreamInv, EventsAreNumbered

LEMMA StreamStep ==
  StreamInv /\ [StreamNext]_<<vars, stream_vars>> => StreamInv'
  <1>. SUFFICES ASSUME StreamInv, [StreamNext]_<<vars, stream_vars>>
                PROVE  StreamInv'
    OBVIOUS
  <1>1. IInv'
    BY StepIInv, StreamStepsAreSteps DEF StreamInv
  \* The locals, the sockets and the histories are what the invariant reads.
  <1>2. ASSUME UNCHANGED <<local, sockets>>, UNCHANGED stream_vars
        PROVE  StreamInv'
    <2>1. ASSUME NEW r \in Receivers
          PROVE  Counting(r)' /\ Numbers(delivered[r] \o InCallback(r), taken[r])'
      <3>1. Counting(r) /\ Numbers(delivered[r] \o InCallback(r), taken[r])
        BY DEF StreamInv, EventsAreNumbered
      <3>2. InCallback(r)' = InCallback(r) /\ Waiting(r)' = Waiting(r)
        BY <1>2 DEF InCallback, Waiting, Holds, Queue, SocketOf
      <3>3. Counting(r)'
        BY <1>2, <3>1, <3>2 DEF Counting, Holds, stream_vars
      <3>4. taken' = taken /\ delivered' = delivered
        BY <1>2 DEF stream_vars
      <3>5. Numbers(delivered[r] \o InCallback(r), taken[r])'
        BY <3>1, <3>2, <3>4 DEF Numbers
      <3>. QED  BY <3>3, <3>5
    <2>2. StreamTypes'
      BY <1>2 DEF StreamInv, StreamTypes, stream_vars
    <2>. QED  BY <1>1, <2>1, <2>2 DEF StreamInv, EventsAreNumbered
  <1>3. CASE UNCHANGED <<vars, stream_vars>>
    BY <1>2, <1>3 DEF vars
  <1>4. ASSUME NEW r \in Receivers, Stop(r), UNCHANGED stream_vars
        PROVE  StreamInv'
    BY <1>2, <1>4 DEF Stop
  <1>5. ASSUME NEW r \in Receivers, RunStream(r)
        PROVE  StreamInv'
    BY <1>1, <1>5, ReceiveStreamInv, OnEventStreamInv, UnseenStream DEF RunStream
  <1>6. ASSUME NEW r \in Receivers, ReceiveFails(r), UNCHANGED stream_vars
        PROVE  StreamInv'
    BY <1>1, <1>6, UnseenStream
  <1>7. ASSUME NEW r \in Receivers, CallStream(r)
        PROVE  StreamInv'
    BY <1>1, <1>7, CallStreamInv
  <1>8. ASSUME NEW r \in Receivers, NEW d \in Datagrams, SendStream(r, d)
        PROVE  StreamInv'
    BY <1>1, <1>8, SendStreamInv
  <1>. QED
    BY <1>3, <1>4, <1>5, <1>6, <1>7, <1>8 DEF StreamNext

(***************************************************************************)
(* For any number of receivers and any sequence of datagrams, good, empty  *)
(* or malformed: every datagram that decodes becomes one event, in order,  *)
(* and carries its place among the non-empty ones, so that gaps in the     *)
(* numbers are exactly the malformed (solana_ingress.c:114-128).           *)
(***************************************************************************)
THEOREM EventsNumbered == StreamSpec => []EventsAreNumbered
  <1>1. StreamInv => EventsAreNumbered
    BY DEF StreamInv
  <1>. QED  BY <1>1, StreamBegins, StreamStep, PTL DEF StreamSpec

(***************************************************************************)
(* What is kept for the record restricts nothing: a behaviour of the       *)
(* stream is one of the receivers, whose theorems therefore hold of it     *)
(* (solana_ingress.c:67-138).                                              *)
(***************************************************************************)
THEOREM StreamIsOfReceivers == StreamSpec => Spec
  <1>1. StreamInit => Init
    BY DEF StreamInit
  <1>. QED  BY <1>1, StreamStepsAreSteps, PTL DEF StreamSpec, Spec
=============================================================================
