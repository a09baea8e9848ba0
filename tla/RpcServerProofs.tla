-------------------------- MODULE RpcServerProofs --------------------------
(***************************************************************************)
(* Proofs about RpcServer, for every set of connections, requests and      *)
(* services and every width of the session number: ServerInv is inductive, *)
(* so until the numbers wrap every reply goes to the connection that       *)
(* asked, every request is answered at most once, and a fault on the map   *)
(* sessions takes two connections.                                         *)
(***************************************************************************)
EXTENDS RpcServer, TLAPS

\* The parts of the invariant that a step with neither stage, fd, sessions nor
\* target changed keeps.
ProgressInv ==
    /\ \A r \in Requests : at[r] # "none" => Stored(From[r])
    /\ \A c, d \in Storing : c = d
    /\ \A r \in Requests : at[r] # "done" => replies[r] = <<>>
    /\ AnsweredOnce

\* The invariant holds at the start.
LEMMA ServerInit == Init => ServerInv
<1> SUFFICES ASSUME Init PROVE ServerInv
  OBVIOUS
<1>f. From \in [Requests -> Conns] /\ FdSpace \in Nat \ {0}
  BY ServerAssumption DEF ServerAssumption
<1>1. TypeOK
  <2>1. 0 \in Fds
    BY <1>f DEF Fds
  <2>2. DOMAIN sessions = {}
    BY DEF Init
  <2> QED BY <2>1, <2>2 DEF Init, TypeOK, Stages, Pcs
<1>2. SessionsInv
  <2>1. DOMAIN sessions = {} /\ \A c \in Conns : ~Stored(c)
    BY DEF Init, Stored
  <2>2. SessionFound /\ ReplyToAsker
    BY DEF Init, SessionFound, ReplyToAsker
  <2> QED BY <2>1, <2>2 DEF SessionsInv
<1>3. ProgressInv
  BY <1>f DEF Init, ProgressInv, Storing, AnsweredOnce
<1>4. SessionsFault
  BY DEF Init, SessionsFault
<1> QED BY <1>1, <1>2, <1>3, <1>4 DEF ServerInv, ProgressInv

-----------------------------------------------------------------------------
\* Numbers that are different stay different: once they wrap they have wrapped.
LEMMA WrapIsForever ==
    ASSUME TypeOK, NEW c \in Conns, Accept(c), NoWrap'
    PROVE  NoWrap
<1>1. fd \in [Conns -> Fds] /\ stage \in [Conns -> Stages]
  BY DEF TypeOK
<1>2. \A d \in Conns : stage[d] # "none" => stage'[d] # "none" /\ fd'[d] = fd[d]
  BY <1>1 DEF Accept, GotoStage
<1> QED BY <1>2 DEF NoWrap

\* A step that touches none of the variables the sessions part speaks of keeps it.
LEMMA SessionsUnchanged ==
    ASSUME SessionsInv, UNCHANGED <<stage, fd, sessions, at, target, replies>>
    PROVE  SessionsInv'
<1>1. (NoWrap' <=> NoWrap) /\ \A c : Stored(c)' <=> Stored(c)
  BY DEF NoWrap, Stored
<1>2. SessionFound' <=> SessionFound
  BY <1>1 DEF SessionFound
<1>3. ReplyToAsker' <=> ReplyToAsker
  BY <1>1 DEF ReplyToAsker
<1>4. \A f \in DOMAIN sessions' : Stored(sessions[f])' <=> Stored(sessions[f])
  BY DEF Stored
<1> QED BY <1>1, <1>2, <1>3, <1>4 DEF SessionsInv

\* A step that leaves the connections and the replies alone and moves a request
\* within Message keeps the sessions part.
LEMMA RequestMoves ==
    ASSUME TypeOK, SessionsInv, UNCHANGED connVars, UNCHANGED <<target, replies>>,
           NEW r \in Requests, NEW pc \in Pcs, at' = [at EXCEPT ![r] = pc],
           pc \in {"none", "lookup", "sessions"} \/ at[r] \notin {"none", "lookup", "sessions"}
    PROVE  SessionsInv'
<1> SUFFICES ASSUME NoWrap'
             PROVE  SessionsInv' 
  BY DEF SessionsInv
<1>1. NoWrap
  BY DEF connVars, NoWrap
<1>2. \A q \in Requests : at'[q] = IF q = r THEN pc ELSE at[q]
  BY DEF TypeOK
<1>3. SessionFound'
  <2>1. SessionFound
    BY <1>1 DEF SessionsInv
  <2> QED BY <1>1, <1>2, <2>1 DEF SessionFound
<1>4. ReplyToAsker'
  BY <1>1 DEF SessionsInv, ReplyToAsker
<1>5. /\ \A f \in DOMAIN sessions' : Stored(sessions[f])' /\ fd'[sessions'[f]] = f
      /\ \A c \in Conns : Stored(c)' => fd'[c] \in DOMAIN sessions'
  BY <1>1 DEF SessionsInv, Stored, connVars
<1> QED BY <1>3, <1>4, <1>5 DEF SessionsInv
-----------------------------------------------------------------------------
\* Every step preserves the invariant.
LEMMA ServerStep == ServerInv /\ [Next]_vars => ServerInv'
<1> SUFFICES ASSUME ServerInv, [Next]_vars PROVE ServerInv'
  OBVIOUS
<1>i. TypeOK /\ SessionsInv /\ ProgressInv /\ SessionsFault
  BY DEF ServerInv, ProgressInv
<1>f. From \in [Requests -> Conns] /\ FdSpace \in Nat \ {0}
  BY ServerAssumption DEF ServerAssumption
<1>t. /\ num \in Fds
      /\ stage \in [Conns -> Stages]
      /\ fd \in [Conns -> Fds]
      /\ DOMAIN sessions \subseteq Fds
      /\ \A f \in DOMAIN sessions : sessions[f] \in Conns
      /\ at \in [Requests -> Pcs]
      /\ target \in [Requests -> SUBSET Conns]
      /\ replies \in [Requests -> Seq(Conns)]
  BY <1>i DEF TypeOK
<1>1. CASE UNCHANGED vars
  <2>1. TypeOK'
    BY <1>1, <1>i DEF TypeOK, vars, connVars, serviceVars, requestVars
  <2>2. SessionsInv'
    BY <1>1, <1>i, ZenonT(40) DEF SessionsInv, NoWrap, Stored, SessionFound, ReplyToAsker, vars,
                      connVars, requestVars
  <2>3. ProgressInv'
    BY <1>1, <1>i DEF ProgressInv, Storing, Stored, AnsweredOnce, vars, connVars, requestVars
  <2>4. SessionsFault'
    BY <1>1, <1>i DEF SessionsFault, vars, connVars, requestVars
  <2> QED BY <2>1, <2>2, <2>3, <2>4 DEF ServerInv, ProgressInv
<1>2. ASSUME NEW c \in Conns, Accept(c)
      PROVE  ServerInv'
  <2>1. (num + 1) % FdSpace \in Fds
    BY <1>f, <1>t DEF Fds
  <2>2. TypeOK'
    BY <1>2, <1>i, <2>1 DEF Accept, GotoStage, TypeOK, Stages, serviceVars, requestVars
  <2>3. \A d \in Conns : /\ Stored(d) => Stored(d)' /\ fd'[d] = fd[d]
                         /\ Stored(d)' => Stored(d)
                         /\ d \in Storing' <=> d \in Storing
    BY <1>2, <1>t DEF Accept, GotoStage, Stored, Storing
  <2>4. SessionsInv'
    <3> SUFFICES ASSUME NoWrap' PROVE SessionsInv'
      BY DEF SessionsInv
    <3>1. NoWrap
      BY <1>2, <1>i, WrapIsForever
    <3>2. /\ \A f \in DOMAIN sessions : Stored(sessions[f]) /\ fd[sessions[f]] = f
          /\ \A d \in Conns : Stored(d) => fd[d] \in DOMAIN sessions
          /\ SessionFound /\ ReplyToAsker
      BY <1>i, <3>1 DEF SessionsInv
    <3>3. sessions' = sessions /\ at' = at /\ target' = target /\ replies' = replies
      BY <1>2 DEF Accept, requestVars
    <3>4. SessionFound' /\ ReplyToAsker'
      BY <3>1, <3>2, <3>3 DEF SessionFound, ReplyToAsker
    <3>5. /\ \A f \in DOMAIN sessions' : Stored(sessions[f])' /\ fd'[sessions'[f]] = f
          /\ \A d \in Conns : Stored(d)' => fd'[d] \in DOMAIN sessions'
      <4>1. \A f \in DOMAIN sessions' : Stored(sessions[f])' /\ fd'[sessions'[f]] = f
        BY <1>t, <2>3, <3>2, <3>3 DEF Stored
      <4>2. \A d \in Conns : Stored(d)' => fd'[d] \in DOMAIN sessions'
        BY <2>3, <3>2, <3>3
      <4> QED BY <4>1, <4>2
    <3> QED BY <3>4, <3>5 DEF SessionsInv
  <2>5. ProgressInv'
    BY <1>2, <1>f, <1>i, <2>3 DEF Accept, ProgressInv, Storing, AnsweredOnce, requestVars
  <2>6. SessionsFault'
    BY <1>2 DEF Accept, SessionsFault, Running
  <2> QED BY <2>2, <2>4, <2>5, <2>6 DEF ServerInv, ProgressInv
<1>3. ASSUME NEW c \in Conns, ConnectBegin(c)
      PROVE  ServerInv'
  <2>1. TypeOK'
    BY <1>3, <1>i DEF ConnectBegin, GotoStage, TypeOK, Stages, serviceVars, requestVars
  <2>2. \A d \in Conns : Stored(d)' <=> Stored(d)
    BY <1>3, <1>t DEF ConnectBegin, GotoStage, Stored
  <2>3. NoWrap' <=> NoWrap
    BY <1>3, <1>t DEF ConnectBegin, GotoStage, NoWrap
  <2>4. SessionsInv'
    <3>1. SessionFound' <=> SessionFound
      BY <1>3, <2>3 DEF ConnectBegin, SessionFound, requestVars
    <3>2. ReplyToAsker' <=> ReplyToAsker
      BY <1>3, <2>3 DEF ConnectBegin, ReplyToAsker, requestVars
    <3>3. sessions' = sessions /\ fd' = fd
      BY <1>3 DEF ConnectBegin
    <3>4. (\A f \in DOMAIN sessions : Stored(sessions[f])) =>
             \A f \in DOMAIN sessions' : Stored(sessions[f])'
      BY <1>t, <2>2, <3>3 DEF Stored
    <3> QED BY <1>i, <2>2, <2>3, <3>1, <3>2, <3>3, <3>4 DEF SessionsInv
  <2>5. ProgressInv'
    <3>1. at' = at /\ replies' = replies
      BY <1>3 DEF ConnectBegin, requestVars
    <3>2. \A d, e \in Storing' : d = e
      BY <1>3, <1>i, <1>t DEF ConnectBegin, GotoStage, Storing, ProgressInv
    <3> QED BY <1>f, <1>i, <2>2, <3>1, <3>2 DEF ProgressInv, AnsweredOnce
  <2>6. SessionsFault'
    <3> SUFFICES ASSUME panic' = "sessions" PROVE SessionsFault'
      BY DEF SessionsFault
    <3>1. /\ stage' = stage /\ at' = at /\ stage[c] = "made"
          /\ Storing # {} \/ Reading("sessions") # {}
      BY <1>3 DEF ConnectBegin, Running, requestVars
    <3>2. CASE Storing # {}
      <4>1. PICK d \in Conns : stage[d] = "storing"
        BY <3>2 DEF Storing
      <4> QED BY <3>1, <4>1 DEF SessionsFault
    <3>3. CASE Reading("sessions") # {}
      <4>1. PICK r \in Requests : at[r] = "sessions"
        BY <3>3 DEF Reading
      <4>2. From[r] # c
        BY <1>i, <3>1, <4>1 DEF ProgressInv, Stored
      <4> QED BY <3>1, <4>1, <4>2 DEF SessionsFault
    <3> QED BY <3>1, <3>2, <3>3
  <2> QED BY <2>1, <2>4, <2>5, <2>6 DEF ServerInv, ProgressInv
<1>4. ASSUME NEW c \in Conns, ConnectEnd(c)
      PROVE  ServerInv'
  <2>1. /\ DOMAIN sessions' = DOMAIN sessions \cup {fd[c]}
        /\ \A f \in DOMAIN sessions' : sessions'[f] = IF f = fd[c] THEN c ELSE sessions[f]
    BY <1>4 DEF ConnectEnd
  <2>2. TypeOK'
    <3>1. DOMAIN sessions' \subseteq Fds /\ \A f \in DOMAIN sessions' : sessions'[f] \in Conns
      BY <1>t, <2>1
    <3>2. stage' \in [Conns -> Stages]
      BY <1>4, <1>t DEF ConnectEnd, GotoStage, Stages
    <3> QED BY <1>4, <1>i, <3>1, <3>2 DEF ConnectEnd, TypeOK, serviceVars, requestVars
  <2>3. \A d \in Conns : Stored(d)' <=> d = c \/ Stored(d)
    BY <1>4, <1>t DEF ConnectEnd, GotoStage, Stored
  <2>4. NoWrap' <=> NoWrap
    BY <1>4, <1>t DEF ConnectEnd, GotoStage, NoWrap
  <2>5. SessionsInv'
    <3> SUFFICES ASSUME NoWrap' PROVE SessionsInv'
      BY DEF SessionsInv
    <3>1. SessionFound' /\ ReplyToAsker'
      BY <1>4, <1>i, <2>4 DEF ConnectEnd, SessionsInv, SessionFound, ReplyToAsker, requestVars
    <3>2. fd' = fd
      BY <1>4 DEF ConnectEnd
    <3>3. \A f \in DOMAIN sessions' : Stored(sessions[f])' /\ fd'[sessions'[f]] = f
      <4> SUFFICES ASSUME NEW f \in DOMAIN sessions'
                   PROVE  Stored(sessions[f])' /\ fd'[sessions'[f]] = f
        OBVIOUS
      <4>1. CASE f = fd[c]
        <5>1. sessions'[f] = c
          BY <2>1, <4>1
        <5> QED BY <2>3, <3>2, <4>1, <5>1 DEF Stored
      <4>2. CASE f # fd[c]
        <5>1. f \in DOMAIN sessions /\ sessions'[f] = sessions[f]
          BY <2>1, <4>2
        <5>2. Stored(sessions[f]) /\ fd[sessions[f]] = f /\ sessions[f] \in Conns
          BY <1>i, <1>t, <2>4, <5>1 DEF SessionsInv
        <5> QED BY <2>3, <3>2, <5>1, <5>2 DEF Stored
      <4> QED BY <4>1, <4>2
    <3>4. \A d \in Conns : Stored(d)' => fd'[d] \in DOMAIN sessions'
      BY <1>i, <2>1, <2>3, <2>4, <3>2 DEF SessionsInv
    <3> QED BY <3>1, <3>3, <3>4 DEF SessionsInv
  <2>6. ProgressInv'
    <3>1. at' = at /\ replies' = replies
      BY <1>4 DEF ConnectEnd, requestVars
    <3>2. \A d, e \in Storing' : d = e
      BY <1>4, <1>i, <1>t DEF ConnectEnd, GotoStage, Storing, ProgressInv
    <3> QED BY <1>f, <1>i, <2>3, <3>1, <3>2 DEF ProgressInv, AnsweredOnce
  <2>7. SessionsFault'
    BY <1>4 DEF ConnectEnd, SessionsFault, Running
  <2> QED BY <2>2, <2>5, <2>6, <2>7 DEF ServerInv, ProgressInv
<1>5. ASSUME NEW c \in Conns, Disconnect(c) \/ Release(c)
      PROVE  ServerInv'
  <2>1. TypeOK'
    BY <1>5, <1>i DEF Disconnect, Release, GotoStage, TypeOK, Stages, serviceVars, requestVars
  <2>2. \A d \in Conns : (Stored(d)' <=> Stored(d)) /\ (d \in Storing' <=> d \in Storing)
    BY <1>5, <1>t DEF Disconnect, Release, GotoStage, Stored, Storing
  <2>3. NoWrap' <=> NoWrap
    <3>1. fd' = fd /\ \A d \in Conns : stage'[d] = "none" <=> stage[d] = "none"
      BY <1>5, <1>t DEF Disconnect, Release, GotoStage
    <3> QED BY <3>1 DEF NoWrap
  <2>4. /\ sessions' = sessions /\ fd' = fd /\ at' = at /\ replies' = replies
        /\ target' = target /\ panic' = panic /\ panic = "none"
    BY <1>5 DEF Disconnect, Release, requestVars, Running
  <2>5. SessionsInv'
    <3>1. (SessionFound' <=> SessionFound) /\ (ReplyToAsker' <=> ReplyToAsker)
      BY <2>3, <2>4 DEF SessionFound, ReplyToAsker
    <3>2. (\A f \in DOMAIN sessions : Stored(sessions[f])) =>
             \A f \in DOMAIN sessions' : Stored(sessions[f])'
      BY <1>t, <2>2, <2>4 DEF Stored
    <3> QED BY <1>i, <2>2, <2>3, <2>4, <3>1, <3>2 DEF SessionsInv
  <2>6. ProgressInv'
    BY <1>f, <1>i, <2>2, <2>4 DEF ProgressInv, Storing, AnsweredOnce
  <2>7. SessionsFault'
    BY <2>4 DEF SessionsFault
  <2> QED BY <2>1, <2>5, <2>6, <2>7 DEF ServerInv, ProgressInv
<1>6. ASSUME NEW v \in Services, RegisterBegin(v) \/ RegisterEnd(v)
      PROVE  ServerInv'
  <2>1. TypeOK'
    BY <1>6, <1>i DEF RegisterBegin, RegisterEnd, TypeOK, connVars, requestVars
  <2>2. connVars' = connVars /\ requestVars' = requestVars /\ panic' # "sessions"
    BY <1>6 DEF RegisterBegin, RegisterEnd, Running
  <2>3. SessionsInv'
    BY <1>i, <2>2, SessionsUnchanged DEF connVars, requestVars
  <2>4. ProgressInv'
    BY <1>i, <2>2 DEF ProgressInv, Storing, Stored, AnsweredOnce, connVars, requestVars
  <2>5. SessionsFault'
    BY <2>2 DEF SessionsFault
  <2> QED BY <2>1, <2>3, <2>4, <2>5 DEF ServerInv, ProgressInv
<1>7. ASSUME NEW r \in Requests, Arrive(r)
      PROVE  ServerInv'
  <2>1. at' = [at EXCEPT ![r] = "lookup"] /\ Stored(From[r])
    BY <1>7 DEF Arrive, Goto, Stored
  <2>2. /\ connVars' = connVars /\ target' = target /\ replies' = replies
        /\ panic' = panic /\ panic = "none"
    BY <1>7 DEF Arrive, Running
  <2>3. TypeOK'
    BY <1>7, <1>i, <2>1 DEF Arrive, TypeOK, Pcs, connVars, serviceVars
  <2>4. SessionsInv'
    BY <1>i, <2>1, <2>2, RequestMoves DEF Pcs
  <2>5. ProgressInv'
    BY <1>7, <1>i, <1>t, <2>1, <2>2 DEF Arrive, ProgressInv, Stored, Storing, AnsweredOnce, connVars
  <2>6. SessionsFault'
    BY <2>2 DEF SessionsFault
  <2> QED BY <2>3, <2>4, <2>5, <2>6 DEF ServerInv, ProgressInv
<1>8. ASSUME NEW r \in Requests, LookupBegin(r)
      PROVE  ServerInv'
  <2>1. /\ connVars' = connVars /\ target' = target /\ replies' = replies
        /\ at[r] = "lookup" /\ panic = "none"
    BY <1>8 DEF LookupBegin, Running
  <2>2. TypeOK'
    BY <1>8, <1>i DEF LookupBegin, Goto, TypeOK, Pcs, connVars, serviceVars
  <2>3. CASE Storing # {}
    <3>1. at' = at /\ panic' = "sessions"
      BY <1>8, <2>3 DEF LookupBegin
    <3>2. SessionsInv'
      BY <1>i, <2>1, <3>1, SessionsUnchanged DEF connVars
    <3>3. ProgressInv'
      BY <1>i, <2>1, <3>1 DEF ProgressInv, Storing, Stored, AnsweredOnce, connVars
    <3>4. PICK c \in Conns : stage[c] = "storing"
      BY <2>3 DEF Storing
    <3>5. From[r] # c
      BY <1>i, <2>1, <3>4 DEF ProgressInv, Stored
    <3>6. SessionsFault'
      BY <2>1, <3>1, <3>4, <3>5 DEF SessionsFault, connVars
    <3> QED BY <2>2, <3>2, <3>3, <3>6 DEF ServerInv, ProgressInv
  <2>4. CASE Storing = {}
    <3>1. at' = [at EXCEPT ![r] = "sessions"] /\ panic' = panic
      BY <1>8, <2>4 DEF LookupBegin, Goto
    <3>2. SessionsInv'
      BY <1>i, <2>1, <3>1, RequestMoves DEF Pcs
    <3>3. ProgressInv'
      BY <1>i, <1>t, <2>1, <3>1 DEF ProgressInv, Storing, Stored, AnsweredOnce, connVars
    <3>4. SessionsFault'
      BY <2>1, <3>1 DEF SessionsFault
    <3> QED BY <2>2, <3>2, <3>3, <3>4 DEF ServerInv, ProgressInv
  <2> QED BY <2>3, <2>4
<1>9. ASSUME NEW r \in Requests, LookupEnd(r)
      PROVE  ServerInv'
  <2> DEFINE f == fd[From[r]]
  <2>1. /\ connVars' = connVars /\ replies' = replies /\ panic' = panic /\ panic = "none"
        /\ at[r] = "sessions"
    BY <1>9 DEF LookupEnd, Running
  <2>2. \/ /\ f \in DOMAIN sessions
           /\ target' = [target EXCEPT ![r] = {sessions[f]}]
           /\ at' = [at EXCEPT ![r] = "decode"]
        \/ /\ f \notin DOMAIN sessions
           /\ target' = target
           /\ at' = [at EXCEPT ![r] = "done"]
    BY <1>9 DEF LookupEnd, Goto
  <2>3. TypeOK'
    <3> HIDE DEF f
    <3>0. f \in DOMAIN sessions => {sessions[f]} \in SUBSET Conns
      BY <1>t
    <3>1. at' \in [Requests -> Pcs] /\ target' \in [Requests -> SUBSET Conns]
      BY <1>t, <2>2, <3>0 DEF Pcs
    <3> QED BY <1>9, <1>i, <3>1 DEF LookupEnd, TypeOK, connVars, serviceVars
  <2>4. SessionsInv'
    <3> SUFFICES ASSUME NoWrap' PROVE SessionsInv'
      BY DEF SessionsInv
    <3>1. NoWrap
      BY <2>1 DEF NoWrap, connVars
    <3>2. Stored(From[r]) /\ From[r] \in Conns
      BY <1>f, <1>i, <2>1 DEF ProgressInv
    <3>3. f \in DOMAIN sessions
      BY <1>i, <3>1, <3>2 DEF SessionsInv
    <3>4. sessions[f] = From[r]
      <4>1. Stored(sessions[f]) /\ fd[sessions[f]] = f /\ sessions[f] \in Conns
        BY <1>i, <1>t, <3>1, <3>3 DEF SessionsInv
      <4> QED BY <3>1, <3>2, <4>1 DEF NoWrap, Stored
    <3>5. SessionFound'
      <4>1. SessionFound
        BY <1>i, <3>1 DEF SessionsInv
      <4>2. target' = [target EXCEPT ![r] = {From[r]}] /\ at' = [at EXCEPT ![r] = "decode"]
        BY <2>2, <3>3, <3>4
      <4> QED BY <1>t, <3>1, <4>1, <4>2 DEF SessionFound
    <3>6. ReplyToAsker'
      BY <1>i, <2>1, <3>1 DEF SessionsInv, ReplyToAsker
    <3>7. /\ \A g \in DOMAIN sessions' : Stored(sessions[g])' /\ fd'[sessions'[g]] = g
          /\ \A c \in Conns : Stored(c)' => fd'[c] \in DOMAIN sessions'
      BY <1>i, <2>1, <3>1 DEF SessionsInv, Stored, connVars
    <3> QED BY <3>5, <3>6, <3>7 DEF SessionsInv
  <2>5. ProgressInv'
    BY <1>i, <1>t, <2>1, <2>2 DEF ProgressInv, Storing, Stored, AnsweredOnce, connVars
  <2>6. SessionsFault'
    BY <2>1 DEF SessionsFault
  <2> QED BY <2>3, <2>4, <2>5, <2>6 DEF ServerInv, ProgressInv
<1>10. ASSUME NEW r \in Requests, Decode(r) \/ FindMethod(r) \/ RunFunc(r) \/ ReplyCheck(r)
      PROVE  ServerInv'
  <2>1. /\ connVars' = connVars /\ target' = target /\ replies' = replies
        /\ panic' # "sessions"
        /\ at[r] \notin {"none", "lookup", "sessions", "done"}
    BY <1>10 DEF Decode, FindMethod, RunFunc, ReplyCheck, Running
  <2>2. PICK pc \in Pcs \ {"none"} : at' = [at EXCEPT ![r] = pc]
    <3>1. at' = at => at' = [at EXCEPT ![r] = at[r]] /\ at[r] \in Pcs \ {"none"}
      BY <1>t, <2>1
    <3>2. at' = at \/ \E pc \in Pcs \ {"none"} : at' = [at EXCEPT ![r] = pc]
      BY <1>10 DEF Decode, FindMethod, RunFunc, ReplyCheck, Goto, Pcs
    <3> QED BY <3>1, <3>2
  <2>3. TypeOK'
    <3>1. at' \in [Requests -> Pcs]
      BY <1>t, <2>2
    <3>2. panic' \in {"none", "sessions", "serviceMap", "args[0]", "method", "send outData"}
      BY <1>10, <1>i DEF Decode, FindMethod, RunFunc, ReplyCheck, TypeOK
    <3>3. UNCHANGED <<connVars, serviceVars, kind, target, replies>>
      BY <1>10 DEF Decode, FindMethod, RunFunc, ReplyCheck
    <3> QED BY <1>i, <3>1, <3>2, <3>3 DEF TypeOK, connVars, serviceVars
  <2>4. SessionsInv'
    BY <1>i, <2>1, <2>2, RequestMoves
  <2>5. ProgressInv'
    BY <1>i, <1>t, <2>1, <2>2 DEF ProgressInv, Storing, Stored, AnsweredOnce, connVars
  <2>6. SessionsFault'
    BY <2>1 DEF SessionsFault
  <2> QED BY <2>3, <2>4, <2>5, <2>6 DEF ServerInv, ProgressInv
<1>11. ASSUME NEW r \in Requests, ReplySend(r)
      PROVE  ServerInv'
  <2>1. /\ connVars' = connVars /\ target' = target /\ panic' = panic /\ panic = "none"
        /\ at[r] = "send" /\ at' = [at EXCEPT ![r] = "done"]
    BY <1>11 DEF ReplySend, Running, Goto
  <2>2. PICK c \in target[r] : replies' = [replies EXCEPT ![r] = Append(@, c)]
    BY <1>11 DEF ReplySend
  <2>3. replies[r] = <<>> /\ c \in Conns
    BY <1>i, <1>t, <2>1 DEF ProgressInv
  <2>4. replies' = [replies EXCEPT ![r] = <<c>>]
    BY <1>t, <2>2, <2>3
  <2>5. TypeOK'
    <3>1. at' \in [Requests -> Pcs] /\ replies' \in [Requests -> Seq(Conns)]
      BY <1>t, <2>1, <2>3, <2>4 DEF Pcs
    <3> QED BY <1>11, <1>i, <3>1 DEF ReplySend, TypeOK, connVars, serviceVars
  <2>6. SessionsInv'
    <3> SUFFICES ASSUME NoWrap' PROVE SessionsInv'
      BY DEF SessionsInv
    <3>1. NoWrap
      BY <2>1 DEF NoWrap, connVars
    <3>2. SessionFound /\ ReplyToAsker
      BY <1>i, <3>1 DEF SessionsInv
    <3>3. c = From[r]
      BY <2>1, <3>1, <3>2 DEF SessionFound
    <3>4. SessionFound'
      BY <1>t, <2>1, <3>1, <3>2 DEF SessionFound
    <3>5. ReplyToAsker'
      BY <1>t, <2>4, <3>1, <3>2, <3>3 DEF ReplyToAsker
    <3>6. /\ \A g \in DOMAIN sessions' : Stored(sessions[g])' /\ fd'[sessions'[g]] = g
          /\ \A d \in Conns : Stored(d)' => fd'[d] \in DOMAIN sessions'
      BY <1>i, <2>1, <3>1 DEF SessionsInv, Stored, connVars
    <3> QED BY <3>4, <3>5, <3>6 DEF SessionsInv
  <2>7. ProgressInv'
    <3>1. \A q \in Requests : at'[q] # "none" => Stored(From[q])'
      BY <1>i, <1>t, <2>1 DEF ProgressInv, Stored, connVars
    <3>2. \A d, e \in Storing' : d = e
      BY <1>i, <2>1 DEF ProgressInv, Storing, connVars
    <3>3. \A q \in Requests : at'[q] # "done" => replies'[q] = <<>>
      BY <1>i, <1>t, <2>1, <2>4 DEF ProgressInv
    <3>4. \A q \in Requests : Len(replies'[q]) <= 1
      BY <1>i, <1>t, <2>4 DEF ProgressInv, AnsweredOnce
    <3> QED BY <3>1, <3>2, <3>3, <3>4 DEF ProgressInv, AnsweredOnce
  <2>8. SessionsFault'
    BY <2>1 DEF SessionsFault
  <2> QED BY <2>5, <2>6, <2>7, <2>8 DEF ServerInv, ProgressInv
<1>12. ASSUME NEW r \in Requests, ReplyPanics(r)
      PROVE  ServerInv'
  <2>1. /\ connVars' = connVars /\ requestVars' = requestVars /\ serviceVars' = serviceVars
        /\ panic' = "send outData"
    BY <1>12 DEF ReplyPanics
  <2>2. TypeOK'
    BY <1>i, <2>1 DEF TypeOK, connVars, serviceVars, requestVars
  <2>3. SessionsInv'
    BY <1>i, <2>1, SessionsUnchanged DEF connVars, requestVars
  <2>4. ProgressInv'
    BY <1>i, <2>1 DEF ProgressInv, Storing, Stored, AnsweredOnce, connVars, requestVars
  <2>5. SessionsFault'
    BY <2>1 DEF SessionsFault
  <2> QED BY <2>2, <2>3, <2>4, <2>5 DEF ServerInv, ProgressInv
<1> QED
  BY <1>1, <1>2, <1>3, <1>4, <1>5, <1>6, <1>7, <1>8, <1>9, <1>10, <1>11, <1>12
  DEF Next, Connection, Serve
-----------------------------------------------------------------------------
\* ServerInv holds in every reachable state.
THEOREM ServerInvariance == Spec => []ServerInv
  BY ServerInit, ServerStep, PTL DEF Spec

\* While no two sessions have had the same number, every reply is queued on the
\* connection its request came on.
THEOREM RepliesReachAsker == Spec => []ReplyToAsker
<1>1. ServerInv => ReplyToAsker
  BY DEF ServerInv, SessionsInv, ReplyToAsker
<1> QED BY ServerInvariance, <1>1, PTL

\* While no two sessions have had the same number, a request never misses its
\* session in the map.
THEOREM SessionsAreFound == Spec => []SessionFound
<1>1. ServerInv => SessionFound
  BY DEF ServerInv, SessionsInv, SessionFound
<1> QED BY ServerInvariance, <1>1, PTL

\* A request is answered at most once.
THEOREM OneAnswer == Spec => []AnsweredOnce
<1>1. ServerInv => AnsweredOnce
  BY DEF ServerInv
<1> QED BY ServerInvariance, <1>1, PTL

-----------------------------------------------------------------------------
\* What is behind the serviceMap half: a service being registered is not in the
\* map, so while one is there are services to come.
ServicesInv ==
    /\ registering \subseteq Services \ serviceMap
    /\ ServicesFault

LEMMA ServicesInit == Init => ServicesInv
  BY DEF Init, ServicesInv, ServicesFault

LEMMA ServicesStep == ServicesInv /\ [Next]_vars => ServicesInv'
<1> SUFFICES ASSUME ServicesInv, [Next]_vars PROVE ServicesInv'
  OBVIOUS
<1>1. ASSUME NEW s \in Services, RegisterBegin(s)
      PROVE  ServicesInv'
  BY <1>1 DEF RegisterBegin, Running, ServicesInv, ServicesFault
<1>2. ASSUME NEW s \in Services, RegisterEnd(s)
      PROVE  ServicesInv'
  BY <1>2 DEF RegisterEnd, Running, ServicesInv, ServicesFault
<1>3. ASSUME NEW r \in Requests, Decode(r)
      PROVE  ServicesInv'
  BY <1>3 DEF Decode, serviceVars, Running, ServicesInv, ServicesFault
<1>4. ASSUME UNCHANGED serviceVars, panic' = panic \/ panic' # "serviceMap"
      PROVE  ServicesInv'
  BY <1>4 DEF serviceVars, ServicesInv, ServicesFault
<1>5. ASSUME NEW c \in Conns, Accept(c) \/ Connection(c) \/ Disconnect(c)
      PROVE  UNCHANGED serviceVars /\ (panic' = panic \/ panic' # "serviceMap")
  BY <1>5 DEF Accept, Connection, ConnectBegin, ConnectEnd, Release, Disconnect
<1>6. ASSUME NEW r \in Requests,
             \/ Arrive(r) \/ LookupBegin(r) \/ LookupEnd(r) \/ FindMethod(r)
             \/ RunFunc(r) \/ ReplyCheck(r) \/ ReplySend(r) \/ ReplyPanics(r)
      PROVE  UNCHANGED serviceVars /\ (panic' = panic \/ panic' # "serviceMap")
  BY <1>6 DEF Arrive, LookupBegin, LookupEnd, FindMethod, RunFunc, ReplyCheck, ReplySend,
              ReplyPanics
<1>7. UNCHANGED vars => UNCHANGED serviceVars /\ panic' = panic
  BY DEF vars
<1> QED BY <1>1, <1>2, <1>3, <1>4, <1>5, <1>6, <1>7 DEF Next, Serve

\* A fault on the map sessions takes two connections, and one on serviceMap a
\* Register that is not done.
THEOREM MapFaults == Spec => []MapFaultTakesTwo
<1>1. Spec => []ServicesInv
  BY ServicesInit, ServicesStep, PTL DEF Spec
<1>2. ServerInv /\ ServicesInv => MapFaultTakesTwo
  BY DEF ServerInv, ServicesInv, MapFaultTakesTwo
<1> QED BY ServerInvariance, <1>1, <1>2, PTL
-----------------------------------------------------------------------------
(* Answers come.                                                           *)

\* Past the lookup a request has the session it found.
TargetInv ==
    \A r \in Requests :
        at[r] \in {"decode", "services", "run", "check", "send"} => target[r] # {}

LEMMA TargetInit == Init => TargetInv
  BY DEF Init, TargetInv

LEMMA TargetStep == TypeOK /\ TargetInv /\ [Next]_vars => TargetInv'
<1> SUFFICES ASSUME TypeOK, TargetInv, [Next]_vars PROVE TargetInv'
  OBVIOUS
<1>t. at \in [Requests -> Pcs] /\ target \in [Requests -> SUBSET Conns]
  BY DEF TypeOK
<1>1. ASSUME NEW r \in Requests, LookupEnd(r) PROVE TargetInv'
  BY <1>t, <1>1 DEF LookupEnd, Goto, TargetInv
<1>2. ASSUME NEW r \in Requests, Arrive(r) \/ (Serve(r) /\ ~LookupEnd(r)) PROVE TargetInv'
  <2>1. /\ target' = target
        /\ \A q \in Requests : q # r => at'[q] = at[q]
        /\ \/ at'[r] \in {"lookup", "sessions", "done"} \/ at'[r] = at[r]
           \/ at[r] \in {"decode", "services", "run", "check", "send"}
    BY <1>t, <1>2 DEF Arrive, Serve, LookupBegin, Decode, FindMethod, RunFunc, ReplyCheck,
                      ReplySend, ReplyPanics, requestVars, Goto
  <2> QED BY <2>1 DEF TargetInv
<1>3. ASSUME UNCHANGED requestVars PROVE TargetInv'
  BY <1>3 DEF requestVars, TargetInv
<1>4. \/ \E c \in Conns : Accept(c) \/ Connection(c) \/ Disconnect(c)
      \/ \E s \in Services : RegisterBegin(s) \/ RegisterEnd(s)
      \/ UNCHANGED vars
      => UNCHANGED requestVars
  BY DEF Accept, Connection, ConnectBegin, ConnectEnd, Release, Disconnect, RegisterBegin,
         RegisterEnd, vars
<1> QED BY <1>1, <1>2, <1>3, <1>4 DEF Next

\* A request to be answered, at each point on its way.
Owed(r, pc) == at[r] = pc /\ kind[r] \in {"value", "void"} /\ ~Settled(r)

\* What any step does to a request that is on its way: nothing, or its own step
\* takes it one further.
LEMMA OwedGoesOn ==
    ASSUME TypeOK, TargetInv, NEW r \in Requests, [Next]_vars
    PROVE  /\ Owed(r, "run") => Owed(r, "run")' \/ Owed(r, "check")' \/ Settled(r)'
           /\ Owed(r, "check") => Owed(r, "check")' \/ Owed(r, "send")' \/ Settled(r)'
           /\ Owed(r, "send") => Owed(r, "send")' \/ Settled(r)'
           /\ Owed(r, "run") /\ Serve(r) => Owed(r, "check")' \/ Settled(r)'
           /\ Owed(r, "check") /\ Serve(r) => Owed(r, "send")' \/ Settled(r)'
           /\ Owed(r, "send") /\ Serve(r) => Settled(r)'
<1>t. /\ at \in [Requests -> Pcs] /\ replies \in [Requests -> Seq(Conns)]
      /\ target \in [Requests -> SUBSET Conns]
  BY DEF TypeOK
<1>k. kind' = kind
  BY DEF Next, Accept, Connection, ConnectBegin, ConnectEnd, Release, Disconnect, RegisterBegin,
         RegisterEnd, Arrive, Serve, LookupBegin, LookupEnd, Decode, FindMethod, RunFunc,
         ReplyCheck, ReplySend, ReplyPanics, requestVars, vars
<1>1. CASE Serve(r)
  <2>1. ASSUME Owed(r, "run") PROVE Owed(r, "check")' \/ Settled(r)'
    <3>1. RunFunc(r)
      BY <1>1, <2>1 DEF Owed, Serve, LookupBegin, LookupEnd, Decode, FindMethod, ReplyCheck,
                        ReplySend, ReplyPanics
    <3>2. at'[r] = "check"
      BY <1>t, <2>1, <3>1 DEF RunFunc, Owed, Goto
    <3> QED BY <1>k, <2>1, <3>2 DEF Owed
  <2>2. ASSUME Owed(r, "check") PROVE Owed(r, "send")' \/ Settled(r)'
    <3>1. ReplyCheck(r)
      BY <1>1, <2>2 DEF Owed, Serve, LookupBegin, LookupEnd, Decode, FindMethod, RunFunc,
                        ReplySend, ReplyPanics
    <3>2. at'[r] = "send"
      BY <1>t, <2>2, <3>1 DEF ReplyCheck, Owed, Goto, Settled
    <3> QED BY <1>k, <2>2, <3>2 DEF Owed
  <2>3. ASSUME Owed(r, "send") PROVE Settled(r)'
    <3>1. ReplySend(r) \/ ReplyPanics(r)
      BY <1>1, <2>3 DEF Owed, Serve, LookupBegin, LookupEnd, Decode, FindMethod, RunFunc,
                        ReplyCheck
    <3>2. CASE ReplySend(r)
      <4>1. PICK c \in target[r] : replies' = [replies EXCEPT ![r] = Append(@, c)]
        BY <3>2 DEF ReplySend
      <4>2. replies'[r] = Append(replies[r], c) /\ c \in Conns /\ replies[r] \in Seq(Conns)
        BY <1>t, <4>1
      <4>3. replies'[r] # <<>>
        BY <4>2
      <4> QED BY <4>3 DEF Settled
    <3>3. CASE ReplyPanics(r)
      BY <3>3 DEF ReplyPanics, Settled
    <3> QED BY <3>1, <3>2, <3>3
  <2> QED BY <2>1, <2>2, <2>3 DEF Owed
<1>2. CASE ~Serve(r)
  <2>0. ASSUME NEW q \in Requests, q # r, Arrive(q) \/ Serve(q) PROVE at'[r] = at[r]
    BY <1>t, <2>0 DEF Arrive, Serve, LookupBegin, LookupEnd, Decode, FindMethod, RunFunc,
                      ReplyCheck, ReplySend, ReplyPanics, requestVars, Goto
  <2>1. at[r] # "none" => at'[r] = at[r]
    <3>1. Arrive(r) => at[r] = "none"
      BY DEF Arrive
    <3>2. \/ \E c \in Conns : Accept(c) \/ Connection(c) \/ Disconnect(c)
          \/ \E s \in Services : RegisterBegin(s) \/ RegisterEnd(s)
          \/ UNCHANGED vars
          => at' = at
      BY DEF Accept, Connection, ConnectBegin, ConnectEnd, Release, Disconnect, RegisterBegin,
             RegisterEnd, requestVars, vars
    <3> QED BY <1>2, <2>0, <3>1, <3>2 DEF Next
  <2> QED BY <1>2, <1>k, <2>1 DEF Owed
<1> QED BY <1>1, <1>2

\* A request on its way can take its next step.
LEMMA OwedIsReady ==
    ASSUME TargetInv, NEW r \in Requests, NEW pc \in {"run", "check", "send"}, Owed(r, pc)
    PROVE  Running /\ Ready(r)
  BY DEF TargetInv, Owed, Settled, Running, Ready

\* Every request whose method exists and returns is answered unless its
\* connection is lost or the process ends, for any number of requests at a time.
\* The premise relates the guards of Message to ENABLED, which the provers do not
\* expand; TLC checks it as the first part of Answered.
THEOREM AnswersCome ==
    FairSpec /\ (\A r \in Requests : ReadyIsEnabled(r)) => Answered
<1>1. ASSUME NEW r \in Requests
      PROVE  Spec /\ FairMessage(r) /\ ReadyIsEnabled(r) => AnswerComes(r)
  <2> DEFINE Inv == TypeOK /\ TargetInv
             P1 == Owed(r, "run")
             P2 == Owed(r, "check")
             P3 == Owed(r, "send")
             Q == Settled(r)
             P == Callable(r)
             Can == Running /\ Ready(r)
  <2>1. Spec => []Inv
    <3>1. ServerInv => TypeOK
      BY DEF ServerInv
    <3> QED BY <3>1, TargetInit, TargetStep, ServerInvariance, PTL DEF Spec
  <2>2. Inv /\ (P1 \/ P2 \/ P3) => Can
    BY OwedIsReady
  <2>3. Inv /\ [Next]_vars /\ P1 => P1' \/ P2' \/ Q'
    BY OwedGoesOn
  <2>4. Inv /\ [Next]_vars /\ P2 => P2' \/ P3' \/ Q'
    BY OwedGoesOn
  <2>5. Inv /\ [Next]_vars /\ P3 => P3' \/ Q'
    BY OwedGoesOn
  <2>6. Inv /\ [Next]_vars /\ <<Serve(r)>>_vars /\ P1 => P2' \/ Q'
    BY OwedGoesOn
  <2>7. Inv /\ [Next]_vars /\ <<Serve(r)>>_vars /\ P2 => P3' \/ Q'
    BY OwedGoesOn
  <2>8. Inv /\ [Next]_vars /\ <<Serve(r)>>_vars /\ P3 => Q'
    BY OwedGoesOn
  <2>9. P => P1 \/ Q
    BY DEF Callable, Owed
  <2> HIDE DEF P1, P2, P3, Q, P, Can, Inv
  <2>10. Spec /\ WF_vars(Serve(r)) /\ [](Can => ENABLED <<Serve(r)>>_vars) => (P ~> Q)
    BY <2>1, <2>2, <2>3, <2>4, <2>5, <2>6, <2>7, <2>8, <2>9, PTL DEF Spec
  <2> QED BY <2>10, PTL DEF FairMessage, ReadyIsEnabled, AnswerComes, P, Q, Can
<1> QED BY <1>1 DEF FairSpec, Answered
=============================================================================
