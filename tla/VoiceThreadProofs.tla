--------------------------- MODULE VoiceThreadProofs ---------------------------
(***************************************************************************)
(* Proofs about VoiceThread: for any number of users, ports and channels   *)
(* and any whisper targets the peer tables stay exact, the caches reach no *)
(* deleted user who had been admitted, and a session id comes back without *)
(* listeners, although the voice thread gives up its lock on the way.      *)
(***************************************************************************)
EXTENDS VoiceThread, TLAPS

Here == {"pending", "authenticated"}
Unlisted == {"none", "dropped", "connected"}
Admitting == {"named", "cleared", "keyed", "heard", "entered", "joining"}

\* qhUsers holds exactly the users that have an id, each under its own.
Table ==
    /\ \A s \in InUse : uiSession[qhUsers[s]] = s /\ state[qhUsers[s]] \in Here
    /\ \A u \in Users : state[u] \in Here => uiSession[u] \in InUse /\ qhUsers[uiSession[u]] = u
    /\ \A u \in Users : state[u] \in Unlisted => uiSession[u] = 0

\* What a handler of the main thread knows of its user, and that a connection
\* being closed has no listeners any more.
Handlers ==
    /\ main.at \in Admitting => main.user \in Users /\ state[main.user] = "pending"
    /\ main.at = "closing" =>
          /\ main.user \in Users /\ state[main.user] \in Here \cup {"connected"}
          /\ state[main.user] = "authenticated" => listening[uiSession[main.user]] = {}

\* FoundOneWay user by user and port by port, and that a user who was not
\* bound yet has no port.
Peers ==
    /\ \A u \in qhHostUsers : state[u] \in Here /\ saiUdpAddress[u] = NoPort
    /\ \A u \in Users : state[u] \in Here /\ u \notin qhHostUsers =>
          saiUdpAddress[u] \in DOMAIN qhPeerUsers /\ qhPeerUsers[saiUdpAddress[u]] = u
    /\ \A p \in DOMAIN qhPeerUsers :
          /\ state[qhPeerUsers[p]] \in Here /\ qhPeerUsers[p] \notin qhHostUsers
          /\ saiUdpAddress[qhPeerUsers[p]] = p
    /\ \A u \in Users : state[u] \in Unlisted => saiUdpAddress[u] = NoPort

\* What is left, without a lock, of what the voice thread saw under one: if the
\* session still exists it is the same user's, and nobody else binds a port.
Remembered ==
    /\ voice.at \in {"bind", "bound", "build"} =>
          voice.user \in Users /\ (voice.session \in InUse => qhUsers[voice.session] = voice.user)
    /\ voice.at = "bind" =>
          /\ voice.port \in Ports /\ voice.port \notin DOMAIN qhPeerUsers
          /\ voice.session \in InUse => voice.user \in qhHostUsers

\* Only users with an id are in channels.
Placed == \A u \in Users : inChannel[u] # NoChannel => state[u] \in Here

\* A user who had been admitted stays in a cache after leaving only until
\* connectionClosed has cleared it, before the user can be deleted.
Caches ==
    /\ \A u \in Users : state[u] \in Unlisted => u \notin Cached
    /\ \A u \in Cached : state[u] \in Here =>
          \A v \in qmTargetCache[u] :
              state[v] # "none" /\ (state[v] = "closed" => main.at = "leaving")

Sound == TypeOK /\ Table /\ Handlers /\ Peers /\ Remembered /\ Placed /\ Caches

-----------------------------------------------------------------------------
(* Which actions change what. *)

USE LimitAssumption, TargetsAssumption, BoundsAssumption, NothingAssumption

\* The steps that leave the users, their ids and qhUsers alone, and the others.
LEMMA UserSteps ==
    [Next]_vars =>
        \/ UNCHANGED userVars
        \/ \E u \in Users : NewClient(u) \/ DrawId(u) \/ Delete(u)
        \/ Authenticated \/ RemoveUser
<1> SUFFICES ASSUME [Next]_vars
             PROVE  \/ UNCHANGED userVars
                    \/ \E u \in Users : NewClient(u) \/ DrawId(u) \/ Delete(u)
                    \/ Authenticated \/ RemoveUser
  OBVIOUS
<1>1. CASE UNCHANGED vars
  BY <1>1 DEF vars
<1>2. CASE MainStep
  BY <1>2 DEF MainStep, Tunnel, Close, EnterChannel, ChangeListener, RpcListener,
              MsgVoiceTarget, ChangeACL, Relink, userVars
<1>3. CASE MainGoesOn
  BY <1>3 DEF MainGoesOn, Accept, TurnAway, StartThread, LoadChannelListeners, EnterFirst,
              ClearCaches, StopThread, userVars
<1>4. CASE VoiceGoesOn
  BY <1>4 DEF VoiceGoesOn, Bind, SessionGone, WhisperAtOnce, CacheMiss, PacketDone,
              BuildCache, userVars
<1>5. CASE \E p \in Ports : Whisper(p) \/ \E u \in Users : UnknownPeer(u, p)
  BY <1>5 DEF Whisper, CacheMiss, UnknownPeer, userVars
<1> QED
  BY <1>1, <1>2, <1>3, <1>4, <1>5 DEF Next

-----------------------------------------------------------------------------
(* Types. *)

LEMMA TypedInit == Init => TypeOK
<1> SUFFICES ASSUME Init PROVE TypeOK
  OBVIOUS
<1>1. \A S : <<>> \in [DOMAIN <<>> -> S] /\ DOMAIN <<>> \subseteq S
  OBVIOUS
<1>2. /\ main \in [at : MainPlaces, user : Users \cup {NoUser}]
      /\ voice \in [at : VoicePlaces, user : Users \cup {NoUser},
                    session : Ids \cup {0}, port : Ports \cup {NoPort}]
  BY DEF Init, MainPlaces, VoicePlaces, Idle, NoPacket
<1>3. /\ state \in [Users -> States]
      /\ uiSession \in [Users -> Ids \cup {0}]
      /\ inChannel \in [Users -> Channels \cup {NoChannel}]
      /\ listening \in [Ids -> SUBSET Channels]
      /\ saiUdpAddress \in [Users -> Ports \cup {NoPort}]
  BY DEF Init, States
<1> QED
  BY <1>1, <1>2, <1>3 DEF Init, TypeOK, InUse, Cached

\* A whisper reaches users, and a registered target is a target.
LEMMA TypedTargets ==
    ASSUME TypeOK
    PROVE  /\ \A u \in Users : CurrentReceivers(u) \subseteq Users
           /\ \A u \in Users, t \in Targets :
                 /\ DOMAIN StoredTarget(u, t) \subseteq Users
                 /\ StoredTarget(u, t) \in [DOMAIN StoredTarget(u, t) -> Target]
<1>1. ASSUME NEW u \in Users PROVE CurrentReceivers(u) \subseteq Users
  BY DEF CurrentReceivers, Receivers, TypeOK, InUse
<1>2. ASSUME NEW u \in Users, NEW t \in Targets
      PROVE  /\ DOMAIN StoredTarget(u, t) \subseteq Users
             /\ StoredTarget(u, t) \in [DOMAIN StoredTarget(u, t) -> Target]
  <2>1. qmTargets \in [DOMAIN qmTargets -> Target] /\ DOMAIN qmTargets \subseteq Users
    BY DEF TypeOK
  <2>2. Checked(t) \in Target
    BY DEF Checked, Target
  <2>3. CASE Empty(Checked(t))
    BY <2>1, <2>3 DEF StoredTarget, Without
  <2>4. CASE ~Empty(Checked(t))
    BY <2>1, <2>2, <2>4 DEF StoredTarget, With
  <2> QED
    BY <2>3, <2>4
<1> QED
  BY <1>1, <1>2

LEMMA TypedMain == ASSUME TypeOK, MainStep PROVE TypeOK'
<1> USE DEF userVars, channelVars, peerVars, cacheVars, At, InUse, Cached
<1>1. ASSUME NEW u \in Users, NewClient(u) PROVE TypeOK'
  BY <1>1 DEF NewClient, TypeOK, States
<1>2. ASSUME NEW u \in Users, DrawId(u) PROVE TypeOK'
  <2>1. PICK s \in Ids : /\ uiSession' = [uiSession EXCEPT ![u] = s]
                         /\ qhUsers' = With(qhUsers, s, u)
    BY <1>2 DEF DrawId, qqIds
  <2>2. DOMAIN qhUsers' = DOMAIN qhUsers \cup {s} /\ qhUsers' \in [DOMAIN qhUsers' -> Users]
    BY <2>1 DEF TypeOK, With
  <2>3. main' \in [at : MainPlaces, user : Users \cup {NoUser}]
    BY <1>2 DEF DrawId, MainPlaces
  <2> QED
    BY <1>2, <2>1, <2>2, <2>3 DEF DrawId, TypeOK, States
<1>3. ASSUME NEW u \in Users, Tunnel(u) PROVE TypeOK'
  <2>1. Cached' = Cached \cup {u} /\ qmTargetCache' \in [Cached' -> SUBSET Users]
    BY <1>3, TypedTargets DEF Tunnel, TypeOK, With
  <2> QED
    BY <1>3, <2>1 DEF Tunnel, TypeOK
<1>4. ASSUME NEW u \in Users, Close(u) PROVE TypeOK'
  <2>1. listening' \in [Ids -> SUBSET Channels]
    BY <1>4 DEF Close, ListenersWithout, TypeOK
  <2>2. main' \in [at : MainPlaces, user : Users \cup {NoUser}]
    BY <1>4 DEF Close, MainPlaces
  <2> QED
    BY <1>4, <2>1, <2>2 DEF Close, TypeOK
<1>5. ASSUME NEW u \in Users, Delete(u) PROVE TypeOK'
  <2>1. DOMAIN qmTargets' \subseteq Users /\ qmTargets' \in [DOMAIN qmTargets' -> Target]
    BY <1>5 DEF Delete, TypeOK, Without
  <2>2. Cached' \subseteq Users /\ qmTargetCache' \in [Cached' -> SUBSET Users]
    BY <1>5 DEF Delete, TypeOK, Without
  <2> QED
    BY <1>5, <2>1, <2>2 DEF Delete, TypeOK, States
<1>6. ASSUME NEW u \in Users, NEW c \in Channels, EnterChannel(u, c) PROVE TypeOK'
  BY <1>6 DEF EnterChannel, TypeOK, MainPlaces
<1>7. ASSUME NEW u \in Users, NEW c \in Varied, ChangeListener(u, c) PROVE TypeOK'
  <2>1. listening' \in [Ids -> SUBSET Channels]
    BY <1>7 DEF ChangeListener, Toggled, TypeOK
  <2>2. main' \in [at : MainPlaces, user : Users \cup {NoUser}]
    BY <1>7 DEF ChangeListener, MainPlaces
  <2> QED
    BY <1>7, <2>1, <2>2 DEF ChangeListener, TypeOK
<1>8. ASSUME NEW u \in Users, NEW c \in Varied, RpcListener(u, c) PROVE TypeOK'
  <2>1. listening' \in [Ids -> SUBSET Channels]
    BY <1>8 DEF RpcListener, Toggled, TypeOK
  <2> QED
    BY <1>8, <2>1 DEF RpcListener, TypeOK
<1>9. ASSUME NEW u \in Whisperers, NEW t \in Targets, MsgVoiceTarget(u, t) PROVE TypeOK'
  <2>1. DOMAIN qmTargets' \subseteq Users /\ qmTargets' \in [DOMAIN qmTargets' -> Target]
    BY <1>9, TypedTargets DEF MsgVoiceTarget
  <2>2. Cached' \subseteq Users /\ qmTargetCache' \in [Cached' -> SUBSET Users]
    BY <1>9 DEF MsgVoiceTarget, TypeOK, Without
  <2> QED
    BY <1>9, <2>1, <2>2 DEF MsgVoiceTarget, TypeOK
<1>10. ASSUME NEW c \in Varied, ChangeACL(c) PROVE TypeOK'
  BY <1>10 DEF ChangeACL, TypeOK, MainPlaces
<1>11. ASSUME NEW S \in SUBSET Channels, Relink(S) PROVE TypeOK'
  BY <1>11 DEF Relink, TypeOK
<1> QED
  BY <1>1, <1>2, <1>3, <1>4, <1>5, <1>6, <1>7, <1>8, <1>9, <1>10, <1>11 DEF MainStep

LEMMA TypedMainGoesOn == ASSUME TypeOK, MainGoesOn PROVE TypeOK'
<1> USE DEF userVars, channelVars, peerVars, cacheVars, At, Go, InUse, Cached
<1>1. ASSUME NEW here, NEW next \in MainPlaces, ClearCaches(here, next) PROVE TypeOK'
  <2>1. Cached' \subseteq Users /\ qmTargetCache' \in [Cached' -> SUBSET Users]
    BY <1>1 DEF ClearCaches, ClearWhisperTargetCache, TypeOK, Without
  <2>2. main' \in [at : MainPlaces, user : Users \cup {NoUser}]
    BY <1>1 DEF ClearCaches, TypeOK, Idle, MainPlaces
  <2> QED
    BY <1>1, <2>1, <2>2 DEF ClearCaches, ClearWhisperTargetCache, TypeOK
<1>2. CASE TurnAway
  BY <1>2 DEF TurnAway, TypeOK, Idle, MainPlaces
<1>3. CASE StartThread
  <2>1. voice' \in [at : VoicePlaces, user : Users \cup {NoUser},
                    session : Ids \cup {0}, port : Ports \cup {NoPort}]
    BY <1>3 DEF StartThread, TypeOK, NoPacket, VoicePlaces
  <2>2. main' \in [at : MainPlaces, user : Users \cup {NoUser}]
    BY <1>3 DEF StartThread, TypeOK, MainPlaces
  <2> QED
    BY <1>3, <2>1, <2>2 DEF StartThread, TypeOK
<1>4. CASE LoadChannelListeners
  <2>0. PICK S \in SUBSET Varied :
            listening' = [listening EXCEPT ![uiSession[main.user]] = @ \cup S]
    BY <1>4 DEF LoadChannelListeners
  <2>1. listening' \in [Ids -> SUBSET Channels]
    BY <2>0 DEF TypeOK
  <2>2. main' \in [at : MainPlaces, user : Users \cup {NoUser}]
    BY <1>4 DEF LoadChannelListeners, TypeOK, MainPlaces
  <2> QED
    BY <1>4, <2>1, <2>2 DEF LoadChannelListeners, TypeOK
<1>5. CASE EnterFirst
  <2>0. PICK c \in Channels : inChannel' = [inChannel EXCEPT ![main.user] = c]
    BY <1>5 DEF EnterFirst
  <2>1. inChannel' \in [Users -> Channels \cup {NoChannel}]
    BY <2>0 DEF TypeOK
  <2>2. main' \in [at : MainPlaces, user : Users \cup {NoUser}]
    BY <1>5 DEF EnterFirst, TypeOK, MainPlaces
  <2> QED
    BY <1>5, <2>1, <2>2 DEF EnterFirst, TypeOK
<1>6. CASE Authenticated
  BY <1>6 DEF Authenticated, TypeOK, States, Idle, MainPlaces
<1>7. CASE RemoveUser
  <2>1. DOMAIN qhUsers' \subseteq Ids /\ qhUsers' \in [DOMAIN qhUsers' -> Users]
    BY <1>7 DEF RemoveUser, TypeOK, Without
  <2>2. DOMAIN qhPeerUsers' \subseteq Ports /\ qhPeerUsers' \in [DOMAIN qhPeerUsers' -> Users]
    BY <1>7 DEF RemoveUser, TypeOK, Without
  <2>3. main' \in [at : MainPlaces, user : Users \cup {NoUser}]
    BY <1>7 DEF RemoveUser, TypeOK, MainPlaces, AfterRemoval
  <2>4. state' \in [Users -> States]
    BY <1>7 DEF RemoveUser, TypeOK, States
  <2> QED
    BY <1>7, <2>1, <2>2, <2>3, <2>4 DEF RemoveUser, TypeOK
<1>8. CASE StopThread
  <2>1. voice' \in [at : VoicePlaces, user : Users \cup {NoUser},
                    session : Ids \cup {0}, port : Ports \cup {NoPort}]
    BY <1>8 DEF StopThread, TypeOK, NoPacket, VoicePlaces
  <2> QED
    BY <1>8, <2>1 DEF StopThread, TypeOK, Idle, MainPlaces
<1> QED
  BY <1>1, <1>2, <1>3, <1>4, <1>5, <1>6, <1>7, <1>8 DEF MainGoesOn, Accept, MainPlaces

LEMMA TypedVoice ==
    ASSUME TypeOK, Remembered,
           VoiceGoesOn \/ \E p \in Ports : Whisper(p) \/ \E u \in Users : UnknownPeer(u, p)
    PROVE  TypeOK'
<1> USE DEF userVars, channelVars, peerVars, cacheVars, InUse, Cached
<1> DEFINE Voices == [at : VoicePlaces, user : Users \cup {NoUser},
                      session : Ids \cup {0}, port : Ports \cup {NoPort}]
<1>0. NoPacket \in Voices
  BY DEF NoPacket, VoicePlaces
<1>1. CASE Bind
  <2>1. voice.port \in Ports /\ voice.user \in Users
    BY <1>1 DEF Bind, Remembered
  <2>2. voice' \in Voices
    BY <1>1 DEF Bind, TypeOK, VoicePlaces
  <2>3. DOMAIN qhPeerUsers' \subseteq Ports /\ qhPeerUsers' \in [DOMAIN qhPeerUsers' -> Users]
    BY <1>1, <2>1 DEF Bind, TypeOK, With
  <2>4. saiUdpAddress' \in [Users -> Ports \cup {NoPort}] /\ qhHostUsers' \subseteq Users
    BY <1>1, <2>1 DEF Bind, TypeOK
  <2> QED
    BY <1>1, <2>2, <2>3, <2>4 DEF Bind, TypeOK
<1>2. CASE SessionGone
  BY <1>0, <1>2 DEF SessionGone, TypeOK
<1>3. CASE PacketDone
  BY <1>0, <1>3 DEF PacketDone, TypeOK
<1>4. CASE BuildCache
  <2>1. voice.user \in Users
    BY <1>4 DEF BuildCache, Remembered
  <2>2. Cached' \subseteq Users /\ qmTargetCache' \in [Cached' -> SUBSET Users]
    BY <1>4, <2>1, TypedTargets DEF BuildCache, TypeOK, With
  <2> QED
    BY <1>0, <1>4, <2>2 DEF BuildCache, TypeOK
<1>5. ASSUME NEW u \in Users, CacheMiss(u) PROVE TypeOK'
  <2>1. voice' \in Voices
    BY <1>5 DEF CacheMiss, TypeOK, VoicePlaces
  <2> QED
    BY <1>5, <2>1 DEF CacheMiss, TypeOK
<1>6. CASE WhisperAtOnce
  BY <1>5, <1>6 DEF WhisperAtOnce, Remembered
<1>7. ASSUME NEW p \in Ports, Whisper(p) PROVE TypeOK'
  BY <1>5, <1>7 DEF Whisper, TypeOK
<1>8. ASSUME NEW p \in Ports, NEW u \in Users, UnknownPeer(u, p) PROVE TypeOK'
  <2>1. voice' \in Voices
    BY <1>8 DEF UnknownPeer, TypeOK, VoicePlaces
  <2> QED
    BY <1>8, <2>1 DEF UnknownPeer, TypeOK
<1> QED
  BY <1>1, <1>2, <1>3, <1>4, <1>6, <1>7, <1>8 DEF VoiceGoesOn

LEMMA TypedStep == ASSUME TypeOK, Remembered, [Next]_vars PROVE TypeOK'
<1>1. CASE UNCHANGED vars
  BY <1>1 DEF vars, userVars, channelVars, peerVars, cacheVars, TypeOK, InUse, Cached
<1> QED
  BY <1>1, TypedMain, TypedMainGoesOn, TypedVoice DEF Next

-----------------------------------------------------------------------------
(* The invariant, part by part. *)

LEMMA SoundInit == Init => Sound
<1>1. Init => Table /\ Peers /\ Placed /\ Caches
  BY DEF Init, Table, Peers, Placed, Caches, InUse, Here, Unlisted, Cached
<1>2. Init => Handlers /\ Remembered
  BY DEF Init, Handlers, Remembered, Admitting, Idle, NoPacket
<1> QED
  BY <1>1, <1>2, TypedInit DEF Sound

\* A new id is free, and only the user whose id it is takes it out of qhUsers.
LEMMA TableStep == ASSUME Sound, [Next]_vars PROVE Table'
<1> USE DEF Sound, Here, Unlisted, InUse
<1>1. CASE UNCHANGED userVars
  BY <1>1 DEF userVars, Table
<1>2. ASSUME NEW u \in Users, NewClient(u) PROVE Table'
  BY <1>2 DEF NewClient, Alive, Deleted, Table, TypeOK
<1>3. ASSUME NEW u \in Users, DrawId(u) PROVE Table'
  <2>1. PICK s \in Ids \ DOMAIN qhUsers :
             uiSession' = [uiSession EXCEPT ![u] = s] /\ qhUsers' = With(qhUsers, s, u)
    BY <1>3 DEF DrawId, qqIds
  <2>2. state[u] = "connected" /\ state' = [state EXCEPT ![u] = "pending"]
    BY <1>3 DEF DrawId
  <2>3. DOMAIN qhUsers' = DOMAIN qhUsers \cup {s} /\ qhUsers'[s] = u
    BY <2>1 DEF With
  <2>4. \A r \in DOMAIN qhUsers : qhUsers'[r] = qhUsers[r] /\ qhUsers[r] # u
    BY <2>1, <2>2 DEF With, Table
  <2> QED
    BY <2>1, <2>2, <2>3, <2>4 DEF Table, TypeOK
<1>4. ASSUME NEW u \in Users, Delete(u) PROVE Table'
  BY <1>4 DEF Delete, Table, TypeOK
<1>5. CASE Authenticated
  BY <1>5 DEF Authenticated, At, Handlers, Admitting, Table, TypeOK
<1>6. CASE RemoveUser
  <2> DEFINE u == main.user
  <2>1. u \in Users /\ state[u] \in Here \cup {"connected"}
    BY <1>6 DEF RemoveUser, At, Handlers
  <2>2. /\ DOMAIN qhUsers' = DOMAIN qhUsers \ {uiSession[u]}
        /\ \A s \in DOMAIN qhUsers' : qhUsers'[s] = qhUsers[s] /\ qhUsers[s] # u
    BY <1>6 DEF RemoveUser, Without, Table
  <2>3. \A v \in Users \ {u} : state[v] \in Here => uiSession[v] # uiSession[u]
    BY <2>1 DEF Table, TypeOK, Ids
  <2>4. /\ uiSession' = uiSession
        /\ state' = [state EXCEPT ![u] = IF @ = "authenticated" THEN "closed" ELSE "refused"]
    BY <1>6 DEF RemoveUser, userVars
  <2> QED
    BY <2>1, <2>2, <2>3, <2>4 DEF Table, TypeOK
<1> QED
  BY <1>1, <1>2, <1>3, <1>4, <1>5, <1>6, UserSteps

\* While a handler goes on, nothing else happens to its user.
LEMMA HandlersStep == ASSUME Sound, [Next]_vars PROVE Handlers'
<1> USE DEF Sound, Here, At, Go, Admitting, Idle, userVars, channelVars
<1>1. CASE UNCHANGED vars
  BY <1>1 DEF vars, Handlers
<1>2. CASE MainStep
  <2>1. ASSUME NEW u \in Users, Close(u) PROVE Handlers'
    <3>1. /\ main' = [at |-> "closing", user |-> u]
          /\ state' = state /\ uiSession' = uiSession
          /\ state[u] \in Here \cup {"connected"}
      BY <2>1 DEF Close
    <3>2. state[u] = "authenticated" => listening'[uiSession[u]] = {}
      BY <2>1 DEF Close, ListenersWithout, TypeOK, Table, InUse
    <3> QED
      BY <3>1, <3>2 DEF Handlers
  <2>2. ASSUME NEW u \in Users, DrawId(u) PROVE Handlers'
    BY <2>2 DEF DrawId, TypeOK, Handlers
  <2>3. main.at = "idle" /\ (main' = main \/ main'.at = "clear") => Handlers'
    BY DEF Handlers
  <2>4. ASSUME NEW u \in Users, NewClient(u) \/ Tunnel(u) \/ Delete(u) PROVE Handlers'
    BY <2>3, <2>4 DEF NewClient, Tunnel, Delete
  <2>5. ASSUME NEW u \in Users, NEW c \in Channels,
               EnterChannel(u, c) \/ ChangeListener(u, c) \/ RpcListener(u, c)
        PROVE  Handlers'
    BY <2>3, <2>5 DEF EnterChannel, ChangeListener, RpcListener
  <2>6. ASSUME NEW u \in Users, NEW t \in Targets, MsgVoiceTarget(u, t) PROVE Handlers'
    BY <2>3, <2>6 DEF MsgVoiceTarget
  <2>7. ASSUME NEW c \in Varied, ChangeACL(c) PROVE Handlers'
    BY <2>3, <2>7 DEF ChangeACL
  <2>8. ASSUME NEW S \in SUBSET Channels, Relink(S) PROVE Handlers'
    BY <2>3, <2>8 DEF Relink
  <2> QED
    BY <1>2, <2>1, <2>2, <2>4, <2>5, <2>6, <2>7, <2>8 DEF MainStep
<1>3. CASE MainGoesOn
  <2>1. CASE RemoveUser
    BY <2>1 DEF RemoveUser, AfterRemoval, Handlers
  <2>2. CASE LoadChannelListeners \/ EnterFirst \/ StartThread
    BY <2>2 DEF LoadChannelListeners, EnterFirst, StartThread, Handlers, TypeOK
  <2>3. CASE Accept \/ ClearCaches("entered", "joining")
    BY <2>3 DEF Accept, ClearCaches, Handlers, TypeOK
  <2>4. CASE ClearCaches("leaving", "stop")
    BY <2>4 DEF ClearCaches, Handlers, TypeOK
  <2> QED
    BY <1>3, <2>1, <2>2, <2>3, <2>4
       DEF MainGoesOn, TurnAway, Authenticated, ClearCaches, StopThread, Handlers
<1>4. CASE VoiceGoesOn \/ \E p \in Ports : Whisper(p) \/ \E u \in Users : UnknownPeer(u, p)
  BY <1>4 DEF VoiceGoesOn, Bind, SessionGone, WhisperAtOnce, Whisper, CacheMiss, PacketDone,
              BuildCache, UnknownPeer, Handlers
<1> QED
  BY <1>1, <1>2, <1>3, <1>4 DEF Next

\* The steps that leave the peers alone, and the others.
LEMMA PeerSteps ==
    [Next]_vars =>
        \/ UNCHANGED <<userVars, peerVars>>
        \/ \E u \in Users : NewClient(u) \/ DrawId(u) \/ Delete(u)
        \/ Authenticated \/ RemoveUser \/ Bind
<1> SUFFICES ASSUME [Next]_vars
             PROVE  \/ UNCHANGED <<userVars, peerVars>>
                    \/ \E u \in Users : NewClient(u) \/ DrawId(u) \/ Delete(u)
                    \/ Authenticated \/ RemoveUser \/ Bind
  OBVIOUS
<1> USE DEF userVars, peerVars
<1>1. CASE UNCHANGED vars
  BY <1>1 DEF vars
<1>2. CASE MainStep
  BY <1>2 DEF MainStep, Tunnel, Close, EnterChannel, ChangeListener, RpcListener,
              MsgVoiceTarget, ChangeACL, Relink
<1>3. CASE MainGoesOn
  BY <1>3 DEF MainGoesOn, Accept, TurnAway, StartThread, LoadChannelListeners, EnterFirst,
              ClearCaches, StopThread
<1>4. CASE VoiceGoesOn
  BY <1>4 DEF VoiceGoesOn, SessionGone, WhisperAtOnce, CacheMiss, PacketDone, BuildCache
<1>5. CASE \E p \in Ports : Whisper(p) \/ \E u \in Users : UnknownPeer(u, p)
  BY <1>5 DEF Whisper, CacheMiss, UnknownPeer
<1> QED
  BY <1>1, <1>2, <1>3, <1>4, <1>5 DEF Next

\* Bind moves a user from the host's set to a port nobody has, and whoever
\* leaves is taken out of both.
LEMMA PeersStep == ASSUME Sound, [Next]_vars PROVE Peers'
<1> USE DEF Sound, Here, Unlisted, InUse, userVars, peerVars
<1>1. CASE UNCHANGED <<userVars, peerVars>>
  BY <1>1 DEF Peers
<1>2. ASSUME NEW u \in Users, NewClient(u) PROVE Peers'
  BY <1>2 DEF NewClient, Alive, Deleted, Peers, TypeOK
<1>3. ASSUME NEW u \in Users, DrawId(u) PROVE Peers'
  BY <1>3 DEF DrawId, Peers, TypeOK
<1>4. ASSUME NEW u \in Users, Delete(u) PROVE Peers'
  BY <1>4 DEF Delete, Peers, TypeOK
<1>5. CASE Authenticated
  BY <1>5 DEF Authenticated, At, Handlers, Admitting, Peers, TypeOK
<1>6. CASE RemoveUser
  <2> DEFINE u == main.user
  <2>1. u \in Users /\ state[u] \in Here \cup {"connected"}
    BY <1>6 DEF RemoveUser, At, Handlers
  <2>2. /\ DOMAIN qhPeerUsers' = DOMAIN qhPeerUsers \ {saiUdpAddress[u]}
        /\ \A p \in DOMAIN qhPeerUsers' : qhPeerUsers'[p] = qhPeerUsers[p] /\ qhPeerUsers[p] # u
    BY <1>6 DEF RemoveUser, PortsOf, Without, Peers
  <2>3. \A v \in Users \ {u} : state[v] \in Here /\ v \notin qhHostUsers
                              => saiUdpAddress[v] # saiUdpAddress[u]
    BY <2>1, NothingAssumption DEF Peers, TypeOK
  <2>4. /\ saiUdpAddress' = saiUdpAddress /\ qhHostUsers' = qhHostUsers \ {u}
        /\ state' = [state EXCEPT ![u] = IF @ = "authenticated" THEN "closed" ELSE "refused"]
    BY <1>6 DEF RemoveUser
  <2> QED
    BY <2>1, <2>2, <2>3, <2>4 DEF Peers, TypeOK
<1>7. CASE Bind
  <2> DEFINE u == voice.user
             p == voice.port
  <2>1. u \in qhHostUsers /\ u \in Users /\ p \in Ports /\ p \notin DOMAIN qhPeerUsers
    BY <1>7 DEF Bind, Remembered
  <2>2. /\ DOMAIN qhPeerUsers' = DOMAIN qhPeerUsers \cup {p} /\ qhPeerUsers'[p] = u
        /\ \A q \in DOMAIN qhPeerUsers : qhPeerUsers'[q] = qhPeerUsers[q]
    BY <1>7, <2>1 DEF Bind, With
  <2>3. /\ saiUdpAddress' = [saiUdpAddress EXCEPT ![u] = p]
        /\ qhHostUsers' = qhHostUsers \ {u} /\ state' = state
    BY <1>7 DEF Bind
  <2> QED
    BY <2>1, <2>2, <2>3 DEF Peers, TypeOK
<1> QED
  BY <1>1, <1>2, <1>3, <1>4, <1>5, <1>6, <1>7, PeerSteps

\* While the voice thread holds no lock, its user may leave, but no other user
\* gets the session and nobody takes the port.
LEMMA RememberedStep == ASSUME Sound, [Next]_vars PROVE Remembered'
<1> USE DEF Sound, Here, InUse, userVars, channelVars, peerVars
<1>1. CASE UNCHANGED voice /\ UNCHANGED <<qhUsers, qhHostUsers, qhPeerUsers>>
  BY <1>1 DEF Remembered
<1>2. ASSUME NEW u \in Users, DrawId(u) PROVE Remembered'
  <2>1. PICK s \in (Ids \ DOMAIN qhUsers) \ {voice.session} : qhUsers' = With(qhUsers, s, u)
    BY <1>2 DEF DrawId, qqIds
  <2>2. voice.session \in DOMAIN qhUsers' =>
            voice.session \in DOMAIN qhUsers /\ qhUsers'[voice.session] = qhUsers[voice.session]
    BY <2>1 DEF With
  <2>3. voice' = voice /\ qhPeerUsers' = qhPeerUsers /\ qhHostUsers' = qhHostUsers \cup {u}
    BY <1>2 DEF DrawId
  <2> QED
    BY <2>2, <2>3 DEF Remembered
<1>3. CASE RemoveUser
  <2> DEFINE u == main.user
  <2>1. voice.session \in DOMAIN qhUsers' =>
            /\ voice.session \in DOMAIN qhUsers /\ voice.session # uiSession[u]
            /\ qhUsers'[voice.session] = qhUsers[voice.session]
    BY <1>3 DEF RemoveUser, Without
  <2>2. voice.session \in DOMAIN qhUsers' /\ voice.at \in {"bind", "bound", "build"}
            => voice.user # u
    BY <2>1 DEF Remembered, Table
  <2>3. DOMAIN qhPeerUsers' \subseteq DOMAIN qhPeerUsers
    BY <1>3 DEF RemoveUser, Without
  <2>4. voice' = voice /\ qhHostUsers' = qhHostUsers \ {u}
    BY <1>3 DEF RemoveUser
  <2> QED
    BY <2>1, <2>2, <2>3, <2>4 DEF Remembered
<1>4. CASE voice' = NoPacket \/ voice' = [NoPacket EXCEPT !.at = "stopped"]
  BY <1>4 DEF NoPacket, Remembered
<1>5. CASE Bind
  BY <1>5 DEF Bind, Remembered, TypeOK
<1>6. ASSUME NEW u \in Users, CacheMiss(u) PROVE Remembered'
  BY <1>6 DEF CacheMiss, Remembered, Table
<1>7. ASSUME NEW u \in Users, NEW p \in Ports, UnknownPeer(u, p) PROVE Remembered'
  BY <1>7 DEF UnknownPeer, Remembered, Table, Peers
<1>8. CASE UNCHANGED vars
  BY <1>1, <1>8 DEF vars
<1>9. CASE MainStep
  BY <1>1, <1>2, <1>9
     DEF MainStep, NewClient, Tunnel, Close, Delete, EnterChannel, ChangeListener, RpcListener,
         MsgVoiceTarget, ChangeACL, Relink
<1>10. CASE MainGoesOn
  BY <1>1, <1>3, <1>4, <1>10
     DEF MainGoesOn, Accept, TurnAway, StartThread, LoadChannelListeners, EnterFirst,
         Authenticated, ClearCaches, StopThread
<1>11. CASE VoiceGoesOn
  BY <1>4, <1>5, <1>6, <1>11
     DEF VoiceGoesOn, SessionGone, WhisperAtOnce, PacketDone, BuildCache, Remembered
<1>12. ASSUME NEW p \in Ports, Whisper(p) PROVE Remembered'
  BY <1>6, <1>12 DEF Whisper, TypeOK
<1> QED
  BY <1>7, <1>8, <1>9, <1>10, <1>11, <1>12 DEF Next

LEMMA PlacedStep == ASSUME Sound, [Next]_vars PROVE Placed'
<1> USE DEF Sound, Here, InUse, userVars, channelVars
<1>1. CASE UNCHANGED <<state, inChannel>>
  BY <1>1 DEF Placed
<1>2. ASSUME NEW u \in Users, NewClient(u) \/ DrawId(u) \/ Delete(u) PROVE Placed'
  BY <1>2 DEF NewClient, Alive, Deleted, DrawId, Delete, Placed, TypeOK
<1>3. CASE Authenticated
  BY <1>3 DEF Authenticated, Placed, TypeOK
<1>4. CASE RemoveUser
  BY <1>4 DEF RemoveUser, Placed, TypeOK
<1>5. CASE EnterFirst
  BY <1>5 DEF EnterFirst, At, Handlers, Admitting, Placed, TypeOK
<1>6. ASSUME NEW u \in Users, NEW c \in Channels, EnterChannel(u, c) PROVE Placed'
  BY <1>6 DEF EnterChannel, Listed, Table, Placed, TypeOK
<1>7. CASE UNCHANGED vars
  BY <1>1, <1>7 DEF vars
<1>8. CASE MainStep
  BY <1>1, <1>2, <1>6, <1>8
     DEF MainStep, Tunnel, Close, ChangeListener, RpcListener, MsgVoiceTarget, ChangeACL, Relink
<1>9. CASE MainGoesOn
  BY <1>1, <1>3, <1>4, <1>5, <1>9
     DEF MainGoesOn, Accept, TurnAway, StartThread, LoadChannelListeners, ClearCaches, StopThread
<1>10. CASE VoiceGoesOn \/ \E p \in Ports : Whisper(p) \/ \E u \in Users : UnknownPeer(u, p)
  BY <1>1, <1>10
     DEF VoiceGoesOn, Bind, SessionGone, WhisperAtOnce, Whisper, CacheMiss, PacketDone,
         BuildCache, UnknownPeer
<1> QED
  BY <1>7, <1>8, <1>9, <1>10 DEF Next

\* Whoever a target reaches when it is worked out has an id at that moment.
LEMMA ReceiversAreHere ==
    ASSUME Sound, NEW u \in Users
    PROVE  \A v \in CurrentReceivers(u) : v \in Users /\ state[v] \in Here
<1> SUFFICES ASSUME u \in DOMAIN qmTargets, NEW v \in Receivers(u, qmTargets[u])
             PROVE  v \in Users /\ state[v] \in Here
  BY DEF CurrentReceivers
<1> DEFINE t == qmTargets[u]
<1>1. t \in Target
  BY DEF Sound, TypeOK
<1>2. TargetChannels(t) \subseteq Channels
  BY <1>1 DEF Target, TargetChannels, AllLinks, Sound, TypeOK
<1>3. \/ v \in Users /\ inChannel[v] \in TargetChannels(t)
      \/ \E s \in InUse : v = qhUsers[s]
  BY DEF Receivers
<1> QED
  BY <1>2, <1>3, NothingAssumption DEF Sound, Placed, Table, TypeOK

\* An entry is worked out from the users there are, and none is left when a
\* user who had been admitted is deleted.
LEMMA CachesStep == ASSUME Sound, [Next]_vars PROVE Caches'
<1> USE DEF Sound, Here, Unlisted, Cached, userVars, cacheVars, At, Go
<1>1. CASE UNCHANGED <<state, qmTargetCache>> /\ (main' = main \/ main.at # "leaving")
  BY <1>1 DEF Caches
<1>2. ASSUME NEW u \in Users, NewClient(u) PROVE Caches'
  BY <1>2 DEF NewClient, Alive, Deleted, Caches, TypeOK
<1>3. ASSUME NEW u \in Users, DrawId(u) PROVE Caches'
  BY <1>3 DEF DrawId, Caches, TypeOK
<1>4. ASSUME NEW u \in Users, Delete(u) PROVE Caches'
  BY <1>4 DEF Delete, Without, Caches, TypeOK
<1>5. ASSUME NEW u \in Users, state[u] \in Here,
             qmTargetCache' = With(qmTargetCache, u, CurrentReceivers(u)),
             UNCHANGED <<state, main>>
      PROVE  Caches'
  BY <1>5, ReceiversAreHere DEF With, Caches, TypeOK
<1>6. ASSUME NEW u \in Users, Tunnel(u) PROVE Caches'
  BY <1>5, <1>6 DEF Tunnel
<1>7. ASSUME NEW u \in Users, NEW t \in Targets, MsgVoiceTarget(u, t) PROVE Caches'
  BY <1>7 DEF MsgVoiceTarget, Without, Caches, TypeOK
<1>8. ASSUME NEW here, NEW next, ClearCaches(here, next) PROVE Caches'
  <2>1. \A u \in Users : state[u] \in Here => u \in Listed
    BY DEF Listed, Table, InUse
  <2> QED
    BY <1>8, <2>1 DEF ClearCaches, ClearWhisperTargetCache, Without, Caches, TypeOK
<1>9. CASE Authenticated
  BY <1>9 DEF Authenticated, Handlers, Admitting, Caches, TypeOK
<1>10. CASE RemoveUser
  <2>1. state[main.user] = "authenticated" => main'.at = "leaving"
    BY <1>10 DEF RemoveUser, AfterRemoval, TypeOK
  <2>2. /\ state' = [state EXCEPT ![main.user] = IF @ = "authenticated" THEN "closed" ELSE "refused"]
        /\ qmTargetCache' = qmTargetCache /\ main.at = "closing"
    BY <1>10 DEF RemoveUser
  <2> QED
    BY <2>1, <2>2 DEF Caches, Handlers, TypeOK
<1>11. CASE BuildCache
  <2>1. voice.user \in Users /\ state[voice.user] \in Here
    BY <1>11 DEF BuildCache, Remembered, Table
  <2> QED
    BY <1>5, <1>11, <2>1 DEF BuildCache
<1>12. CASE UNCHANGED vars
  BY <1>1, <1>12 DEF vars
<1>13. CASE MainStep
  BY <1>1, <1>2, <1>3, <1>4, <1>6, <1>7, <1>13, BoundsAssumption
     DEF MainStep, Close, EnterChannel, ChangeListener, RpcListener, ChangeACL, Relink
<1>14. CASE MainGoesOn
  BY <1>1, <1>8, <1>9, <1>10, <1>14
     DEF MainGoesOn, Accept, TurnAway, StartThread, LoadChannelListeners, EnterFirst, StopThread
<1>15. CASE VoiceGoesOn \/ \E p \in Ports : Whisper(p) \/ \E u \in Users : UnknownPeer(u, p)
  BY <1>1, <1>11, <1>15
     DEF VoiceGoesOn, Bind, SessionGone, WhisperAtOnce, Whisper, CacheMiss, PacketDone, UnknownPeer
<1> QED
  BY <1>12, <1>13, <1>14, <1>15 DEF Next

LEMMA SoundStep == ASSUME Sound, [Next]_vars PROVE Sound'
  BY TypedStep, TableStep, HandlersStep, PeersStep, RememberedStep, PlacedStep, CachesStep DEF Sound

-----------------------------------------------------------------------------
(* The theorems. *)

LEMMA AlwaysSound == Spec => []Sound
  BY SoundInit, SoundStep, PTL DEF Spec

\* The tables of users, peers, targets and caches stay well typed.
THEOREM TypeCorrect == Spec => []TypeOK
<1>1. Sound => TypeOK
  BY DEF Sound
<1> QED
  BY <1>1, AlwaysSound, PTL

\* However the two threads interleave, the voice thread finds exactly the users
\* that have an id, each in one way (Server::run gives up its lock between
\* decrypting and binding, connectionClosed takes a user out of both tables).
THEOREM PeersExact == Spec => []FoundOneWay
<1>1. Sound => FoundOneWay
  <2> SUFFICES ASSUME Sound PROVE FoundOneWay
    OBVIOUS
  <2>1. \A u : u \in Listed <=> u \in Users /\ state[u] \in Here
    BY DEF Sound, Listed, Table, TypeOK, InUse
  <2>2. \A u \in Listed : u \in qhHostUsers \/ \E p \in DOMAIN qhPeerUsers : qhPeerUsers[p] = u
    BY <2>1 DEF Sound, Peers
  <2>3. \A u \in qhHostUsers : u \in Listed
    BY <2>1 DEF Sound, Peers, TypeOK
  <2>4. \A p \in DOMAIN qhPeerUsers :
            /\ qhPeerUsers[p] \in Listed /\ qhPeerUsers[p] \notin qhHostUsers
            /\ saiUdpAddress[qhPeerUsers[p]] = p
    BY <2>1 DEF Sound, Peers, TypeOK
  <2> QED
    BY <2>2, <2>3, <2>4 DEF FoundOneWay
<1> QED
  BY <1>1, AlwaysSound, PTL

\* No whisper target cache in use reaches a deleted user who had been admitted:
\* entries are worked out and stored under one write lock, and clearTempGroups
\* clears the caches before the object goes (processMsg, connectionClosed).
THEOREM CachesReachUsers == Spec => []CachedUsersExist
<1>1. Sound => CachedUsersExist
  BY DEF Sound, Caches, CachedUsersExist, Listed, Table, TypeOK, InUse, Cached
<1> QED
  BY <1>1, AlwaysSound, PTL

\* The listeners of an admitted user are gone when its session id is free again
\* (connectionClosed removes them before it takes the user out of qhUsers).
THEOREM ListenersEnd == Spec => SessionEndsListening
<1> DEFINE Ends == \A s \in InUse \ DOMAIN qhUsers' :
                       state[qhUsers[s]] = "authenticated" => listening'[s] = {}
<1>1. Sound /\ [Next]_vars => [Ends]_vars
  <2> SUFFICES ASSUME Sound, [Next]_vars, NEW s \in InUse \ DOMAIN qhUsers',
                      state[qhUsers[s]] = "authenticated"
               PROVE  listening'[s] = {}
    OBVIOUS
  <2>1. RemoveUser
    <3>1. ASSUME NEW u \in Users, NewClient(u) \/ DrawId(u) \/ Delete(u) PROVE FALSE
      BY <3>1 DEF NewClient, DrawId, Delete, With, InUse
    <3> QED
      BY <3>1, UserSteps DEF Authenticated, userVars, InUse
  <2>2. s = uiSession[main.user] /\ qhUsers[s] = main.user
    <3>1. /\ main.at = "closing"
          /\ DOMAIN qhUsers' = DOMAIN qhUsers \ {uiSession[main.user]}
      BY <2>1 DEF RemoveUser, Without, At
    <3>2. s = uiSession[main.user] /\ s \in InUse /\ s \in Ids
      BY <3>1 DEF Sound, TypeOK, InUse
    <3>3. main.user \in Users /\ state[main.user] \in Here \cup {"connected"}
      BY <3>1 DEF Sound, Handlers
    <3>4. state[main.user] \in Here
      BY <3>2, <3>3 DEF Sound, Table, Unlisted, Ids
    <3> QED
      BY <3>2, <3>3, <3>4 DEF Sound, Table
  <2> QED
    BY <2>1, <2>2 DEF RemoveUser, Sound, Handlers, At
<1> QED
  BY <1>1, AlwaysSound, PTL DEF Spec, SessionEndsListening

-----------------------------------------------------------------------------
(* Whispers reach whom they mean. *)

\* A user's cache is filled only while the user is admitted.
Speakers ==
    /\ \A u \in Cached : state[u] # "pending"
    /\ voice.at = "build" /\ voice.session \in InUse => state[voice.user] = "authenticated"

\* Whom the caches are right about: who is being closed has lost its listeners
\* and is still admitted, and who is about to be admitted counts already.
Counted ==
    IF main.at = "closing" THEN Admitted \ {main.user}
    ELSE IF main.at = "joining" THEN Admitted \cup {main.user}
    ELSE Admitted

\* What CurrentReceivers says of a user who has an id, read off the user: in a
\* channel meant, listening to one, or named and whispered to where they are.
Reaches(u, p) ==
    LET t == qmTargets[u]
        chans == TargetChannels(t) \cap mayWhisper
    IN  /\ u \in DOMAIN qmTargets /\ p # u
        /\ \/ inChannel[p] \in chans
           \/ listening[uiSession[p]] \cap chans # {}
           \/ uiSession[p] \in t.sessions /\ inChannel[p] \in mayWhisper \cup {NoChannel}

\* Unless something is about to be announced, or never will be, what is cached
\* is whom the target means.
Current ==
    main.at # "clear" /\ ~unannounced =>
        \A u \in Admitted \cap Cached : \A p \in Counted : p \in qmTargetCache[u] <=> Reaches(u, p)

LEMMA ReceiversReached ==
    ASSUME Sound, NEW u \in Users, NEW p \in Users, state[p] \in Here
    PROVE  p \in CurrentReceivers(u) <=> Reaches(u, p)
<1>1. uiSession[p] \in InUse /\ qhUsers[uiSession[p]] = p
  BY DEF Sound, Table
<1>2. \A s \in InUse : qhUsers[s] = p <=> s = uiSession[p]
  BY <1>1 DEF Sound, Table
<1>3. CASE u \in DOMAIN qmTargets
  <2> DEFINE t == qmTargets[u]
             chans == TargetChannels(t) \cap mayWhisper
  <2>1. p \in {qhUsers[s] : s \in {s \in InUse : listening[s] \cap chans # {}}}
            <=> listening[uiSession[p]] \cap chans # {}
    BY <1>1, <1>2
  <2>2. p \in {qhUsers[s] : s \in InUse \cap t.sessions} <=> uiSession[p] \in t.sessions
    BY <1>1, <1>2
  <2> QED
    BY <1>3, <2>1, <2>2 DEF CurrentReceivers, Receivers, Reaches
<1> QED
  BY <1>3 DEF CurrentReceivers, Reaches

\* Whom Counted may name has an id.
LEMMA CountedHere == ASSUME Sound PROVE \A p \in Counted : p \in Users /\ state[p] \in Here
  BY DEF Counted, Admitted, Here, Admitting, Sound, Handlers

\* A step that fills no cache, counts nobody in and changes nothing a target
\* depends on for those who count.
LEMMA CurrentFrame ==
    ASSUME Current, main'.at # "clear" => main.at # "clear", ~unannounced' => ~unannounced,
           \A u \in Admitted' \cap Cached' :
               /\ u \in Admitted \cap Cached /\ qmTargetCache'[u] = qmTargetCache[u]
               /\ u \in DOMAIN qmTargets' <=> u \in DOMAIN qmTargets
               /\ u \in DOMAIN qmTargets => qmTargets'[u] = qmTargets[u],
           Counted' \subseteq Counted, UNCHANGED <<linked, mayWhisper>>,
           \A p \in Counted' :
               /\ inChannel'[p] = inChannel[p] /\ uiSession'[p] = uiSession[p]
               /\ listening'[uiSession[p]] = listening[uiSession[p]]
    PROVE  Current'
<1> SUFFICES ASSUME main'.at # "clear", ~unannounced',
                    NEW u \in Admitted' \cap Cached', NEW p \in Counted'
             PROVE  p \in qmTargetCache'[u] <=> Reaches(u, p)'
  BY DEF Current
<1>1. p \in qmTargetCache[u] <=> Reaches(u, p)
  BY DEF Current
<1>2. u \in DOMAIN qmTargets => TargetChannels(qmTargets[u])' = TargetChannels(qmTargets[u])
  BY DEF TargetChannels, AllLinks
<1>3. Reaches(u, p)' <=> Reaches(u, p)
  BY <1>2 DEF Reaches
<1> QED
  BY <1>1, <1>3

\* A cache just worked out is right about whom it can reach.
LEMMA CurrentFilled ==
    ASSUME Sound, Current, NEW u \in Users,
           qmTargetCache' = With(qmTargetCache, u, CurrentReceivers(u)),
           UNCHANGED <<userVars, channelVars, qmTargets, unannounced, main>>
    PROVE  Current'
<1> USE DEF userVars, channelVars
<1> SUFFICES ASSUME main'.at # "clear", ~unannounced',
                    NEW v \in Admitted' \cap Cached', NEW p \in Counted'
             PROVE  p \in qmTargetCache'[v] <=> Reaches(v, p)'
  BY DEF Current
<1>1. v \in Admitted /\ p \in Counted /\ (Reaches(v, p)' <=> Reaches(v, p))
  BY DEF Admitted, Counted, Reaches, TargetChannels, AllLinks
<1>2. CASE v = u
  <2>1. qmTargetCache'[v] = CurrentReceivers(u)
    BY <1>2 DEF With
  <2> QED
    BY <1>1, <1>2, <2>1, CountedHere, ReceiversReached
<1>3. CASE v # u
  <2>1. v \in Cached /\ qmTargetCache'[v] = qmTargetCache[v]
    BY <1>3 DEF With, Cached
  <2> QED
    BY <1>1, <2>1 DEF Current
<1> QED
  BY <1>2, <1>3

LEMMA SpeakersStep == ASSUME Sound, Speakers, [Next]_vars PROVE Speakers'
<1> USE DEF Sound, Here, Unlisted, InUse, Cached, userVars, cacheVars
<1>1. CASE /\ UNCHANGED <<state, qhUsers>> /\ Cached' \subseteq Cached
           /\ voice' = voice \/ voice'.at # "build"
  BY <1>1 DEF Speakers
<1>2. ASSUME NEW u \in Users, NewClient(u) PROVE Speakers'
  BY <1>2 DEF NewClient, Alive, Deleted, Speakers, TypeOK
<1>3. ASSUME NEW u \in Users, DrawId(u) PROVE Speakers'
  <2>1. u \notin Cached /\ state[u] = "connected"
    BY <1>3 DEF DrawId, Caches
  <2>2. voice.session \in InUse' => voice.session \in InUse
    BY <1>3 DEF DrawId, With
  <2> QED
    BY <1>3, <2>1, <2>2 DEF DrawId, Speakers, TypeOK
<1>4. ASSUME NEW u \in Users, Delete(u) PROVE Speakers'
  BY <1>4 DEF Delete, Without, Speakers, TypeOK
<1>5. CASE Authenticated
  BY <1>5 DEF Authenticated, Speakers, TypeOK
<1>6. CASE RemoveUser
  <2>1. /\ state' = [state EXCEPT ![main.user] = IF @ = "authenticated" THEN "closed" ELSE "refused"]
        /\ DOMAIN qhUsers' = DOMAIN qhUsers \ {uiSession[main.user]}
        /\ UNCHANGED <<qmTargetCache, voice>>
    BY <1>6 DEF RemoveUser, Without
  <2>2. \A u \in Cached : state'[u] # "pending"
    BY <2>1 DEF Speakers, TypeOK
  <2>3. voice.at = "build" /\ voice.session \in InUse' =>
            /\ state[voice.user] = "authenticated" /\ voice.user # main.user
            /\ voice.user \in Users
    BY <2>1 DEF Speakers, Remembered, Table
  <2> QED
    BY <2>1, <2>2, <2>3 DEF Speakers, TypeOK
<1>7. ASSUME NEW u \in Users, state[u] = "authenticated",
             qmTargetCache' = With(qmTargetCache, u, CurrentReceivers(u)),
             UNCHANGED <<state, qhUsers>>, voice' = voice \/ voice' = NoPacket
      PROVE  Speakers'
  BY <1>7 DEF With, NoPacket, Speakers
<1>8. ASSUME NEW u, CacheMiss(u) PROVE Speakers'
  BY <1>8 DEF CacheMiss, Speakers
<1>9. ASSUME NEW u \in Users, Tunnel(u) PROVE Speakers'
  BY <1>7, <1>9 DEF Tunnel
<1>10. CASE BuildCache
  <2>1. voice.user \in Users /\ state[voice.user] = "authenticated"
    BY <1>10 DEF BuildCache, Remembered, Speakers
  <2> QED
    BY <1>7, <1>10, <2>1 DEF BuildCache
<1>11. CASE UNCHANGED vars
  BY <1>1, <1>11 DEF vars
<1>12. CASE MainStep
  BY <1>1, <1>2, <1>3, <1>4, <1>9, <1>12
     DEF MainStep, Close, EnterChannel, ChangeListener, RpcListener, MsgVoiceTarget, Without,
         ChangeACL, Relink
<1>13. CASE MainGoesOn
  BY <1>1, <1>5, <1>6, <1>13
     DEF MainGoesOn, Accept, TurnAway, StartThread, LoadChannelListeners, EnterFirst,
         ClearCaches, ClearWhisperTargetCache, Without, StopThread, NoPacket
<1>14. CASE Bind
  BY <1>1, <1>14 DEF Bind, TypeOK
<1>15. CASE VoiceGoesOn \/ \E p \in Ports : Whisper(p) \/ \E u \in Users : UnknownPeer(u, p)
  BY <1>1, <1>8, <1>10, <1>14, <1>15
     DEF VoiceGoesOn, SessionGone, NoPacket, WhisperAtOnce, Whisper, PacketDone, UnknownPeer
<1> QED
  BY <1>11, <1>12, <1>13, <1>15 DEF Next

\* After clearACLCache no user with an id has a cache.
LEMMA CurrentCleared ==
    ASSUME Sound, NEW here, NEW next, ClearCaches(here, next) PROVE Current'
<1>1. \A u \in Admitted : u \in Listed
  BY DEF Admitted, Listed, Sound, Table, Here, InUse
<1>2. Admitted' = Admitted /\ Cached' \cap Listed = {}
  BY DEF ClearCaches, ClearWhisperTargetCache, Without, Cached, userVars, Admitted
<1> QED
  BY <1>1, <1>2 DEF Current

LEMMA CurrentMain == ASSUME Sound, Current, MainStep PROVE Current'
<1> USE DEF Sound, Here, Unlisted, Admitted, Counted, Cached, InUse, At,
            userVars, channelVars, cacheVars
<1>1. ASSUME NEW u \in Users, NewClient(u) PROVE Current'
  <2>1. Admitted' = Admitted /\ Counted' = Counted
    BY <1>1 DEF NewClient, Alive, Deleted, TypeOK
  <2> QED
    BY <1>1, <2>1, CurrentFrame DEF NewClient
<1>2. ASSUME NEW u \in Users, DrawId(u) PROVE Current'
  <2>1. PICK s \in Ids : uiSession' = [uiSession EXCEPT ![u] = s]
    BY <1>2 DEF DrawId, qqIds
  <2>2. Admitted' = Admitted /\ Counted' = Counted /\ u \notin Counted
    BY <1>2 DEF DrawId, TypeOK
  <2>3. \A p \in Counted' : uiSession'[p] = uiSession[p]
    BY <2>1, <2>2, CountedHere DEF TypeOK
  <2> QED
    BY <1>2, <2>2, <2>3, CurrentFrame DEF DrawId
<1>3. ASSUME NEW u \in Users, Tunnel(u) PROVE Current'
  BY <1>3, CurrentFilled DEF Tunnel
<1>4. ASSUME NEW u \in Users, Close(u) PROVE Current'
  <2>1. Admitted' = Admitted /\ Counted' = Counted \ {u} /\ main.at = "idle"
    BY <1>4 DEF Close
  <2>2. \A p \in Counted' : listening'[uiSession[p]] = listening[uiSession[p]]
    BY <1>4, <2>1 DEF Close, ListenersWithout, TypeOK, Table
  <2> QED
    BY <1>4, <2>1, <2>2, CurrentFrame DEF Close
<1>5. ASSUME NEW u \in Users, Delete(u) PROVE Current'
  <2>1. Admitted' = Admitted /\ Counted' = Counted /\ u \notin Admitted /\ u \notin Counted
    BY <1>5 DEF Delete, TypeOK
  <2>2. \A p \in Counted' : uiSession'[p] = uiSession[p]
    BY <1>5, <2>1 DEF Delete, TypeOK
  <2>3. \A v \in Users \ {u} :
            /\ v \in Cached' => v \in Cached /\ qmTargetCache'[v] = qmTargetCache[v]
            /\ v \in DOMAIN qmTargets' <=> v \in DOMAIN qmTargets
            /\ v \in DOMAIN qmTargets => qmTargets'[v] = qmTargets[v]
    BY <1>5 DEF Delete, Without
  <2> QED
    BY <1>5, <2>1, <2>2, <2>3, CurrentFrame DEF Delete
<1>6. ASSUME main'.at = "clear" PROVE Current'
  BY <1>6 DEF Current
<1>7. ASSUME unannounced' = (unannounced \/ Cached # {}), qmTargetCache' = qmTargetCache PROVE Current'
  BY <1>7 DEF Current
<1>8. ASSUME NEW u \in Users, NEW t \in Targets, MsgVoiceTarget(u, t) PROVE Current'
  <2>1. \A v \in Users \ {u} :
            /\ v \in DOMAIN qmTargets' <=> v \in DOMAIN qmTargets
            /\ v \in DOMAIN qmTargets => qmTargets'[v] = qmTargets[v]
    BY <1>8 DEF MsgVoiceTarget, StoredTarget, With, Without
  <2>2. u \notin Cached'
    BY <1>8 DEF MsgVoiceTarget, Without
  <2>3. \A v \in Cached' : v \in Cached /\ qmTargetCache'[v] = qmTargetCache[v]
    BY <1>8 DEF MsgVoiceTarget, Without
  <2> QED
    BY <1>8, <2>1, <2>2, <2>3, CurrentFrame DEF MsgVoiceTarget
<1>9. ASSUME NEW u \in Users, NEW c \in Channels, EnterChannel(u, c) PROVE Current'
  BY <1>6, <1>9 DEF EnterChannel
<1>10. ASSUME NEW u \in Users, NEW c \in Varied, ChangeListener(u, c) \/ RpcListener(u, c) PROVE Current'
  BY <1>6, <1>7, <1>10 DEF ChangeListener, RpcListener
<1>11. ASSUME NEW c \in Varied, ChangeACL(c) PROVE Current'
  BY <1>6, <1>11 DEF ChangeACL
<1>12. ASSUME NEW S \in SUBSET Channels, Relink(S) PROVE Current'
  BY <1>7, <1>12 DEF Relink
<1> QED
  BY <1>1, <1>2, <1>3, <1>4, <1>5, <1>8, <1>9, <1>10, <1>11, <1>12 DEF MainStep

LEMMA CurrentMainGoesOn == ASSUME Sound, Speakers, Current, MainGoesOn PROVE Current'
<1> USE DEF Sound, Here, Admitted, Cached, InUse, At, Go, userVars, channelVars, cacheVars
<1>1. CASE TurnAway \/ StartThread \/ StopThread
  <2>1. {main.at, main'.at} \cap {"closing", "joining", "clear"} = {}
    BY <1>1 DEF TurnAway, StartThread, StopThread, Idle, TypeOK
  <2>2. Admitted' = Admitted /\ Counted' = Counted
    BY <1>1, <2>1 DEF TurnAway, StartThread, StopThread, Counted
  <2> QED
    BY <1>1, <2>1, <2>2, CurrentFrame DEF TurnAway, StartThread, StopThread
<1>2. CASE LoadChannelListeners \/ EnterFirst
  <2> DEFINE u == main.user
  <2>1. u \in Users /\ state[u] = "pending" /\ Counted = Admitted /\ u \notin Admitted
    BY <1>2 DEF LoadChannelListeners, EnterFirst, Handlers, Admitting, Counted
  <2>2. main.at # "clear" /\ main'.at \in {"heard", "entered"} /\ UNCHANGED state
    BY <1>2 DEF LoadChannelListeners, EnterFirst, TypeOK
  <2>3. Counted' = Counted /\ Admitted' = Admitted
    BY <2>1, <2>2 DEF Counted
  <2>4. \A p \in Counted : uiSession[p] # uiSession[u] /\ uiSession[p] \in Ids /\ p # u
    BY <2>1 DEF Table, TypeOK
  <2>5. \A p \in Counted : listening'[uiSession[p]] = listening[uiSession[p]]
    BY <1>2, <2>4 DEF LoadChannelListeners, EnterFirst, TypeOK
  <2>6. \A p \in Counted : inChannel'[p] = inChannel[p]
    BY <1>2, <2>1, <2>4 DEF LoadChannelListeners, EnterFirst, TypeOK
  <2> QED
    BY <1>2, <2>2, <2>3, <2>5, <2>6, CurrentFrame DEF LoadChannelListeners, EnterFirst
<1>3. CASE Authenticated
  <2> DEFINE u == main.user
  <2>1. u \in Users /\ state[u] = "pending" /\ u \notin Cached
    BY <1>3 DEF Authenticated, Handlers, Admitting, Speakers
  <2>2. Admitted' = Admitted \cup {u} /\ Counted' = Counted /\ main.at # "clear"
    BY <1>3, <2>1 DEF Authenticated, Counted, Idle, TypeOK
  <2> QED
    BY <1>3, <2>1, <2>2, CurrentFrame DEF Authenticated
<1>4. CASE RemoveUser
  <2> DEFINE u == main.user
  <2>1. /\ u \in Users /\ state[u] \in Here \cup {"connected"}
        /\ state' = [state EXCEPT ![u] = IF @ = "authenticated" THEN "closed" ELSE "refused"]
    BY <1>4 DEF RemoveUser, Handlers
  <2>2. Counted = Admitted \ {u} /\ Admitted' = Admitted \ {u} /\ main.at # "clear"
    BY <1>4, <2>1 DEF RemoveUser, Counted, TypeOK
  <2>3. main'.at \in {"leaving", "stop"}
    BY <1>4 DEF RemoveUser, AfterRemoval, TypeOK
  <2>4. Counted' = Counted
    BY <2>2, <2>3 DEF Counted
  <2>5. \A p \in Counted : inChannel'[p] = inChannel[p]
    BY <1>4, <2>2 DEF RemoveUser, TypeOK
  <2> QED
    BY <1>4, <2>2, <2>4, <2>5, CurrentFrame DEF RemoveUser
<1> QED
  BY <1>1, <1>2, <1>3, <1>4, CurrentCleared DEF MainGoesOn, Accept

LEMMA CurrentVoice ==
    ASSUME Sound, Speakers, Current,
           VoiceGoesOn \/ \E p \in Ports : Whisper(p) \/ \E u \in Users : UnknownPeer(u, p)
    PROVE  Current'
<1> USE DEF userVars, channelVars, cacheVars
<1>1. CASE UNCHANGED <<userVars, channelVars, cacheVars, main>>
  <2>1. Admitted' = Admitted /\ Counted' = Counted /\ Cached' = Cached
    BY <1>1 DEF Admitted, Counted, Cached
  <2> QED
    BY <1>1, <2>1, CurrentFrame
<1>2. CASE BuildCache
  <2>1. voice.user \in Users
    BY <1>2 DEF BuildCache, Sound, Remembered
  <2> QED
    BY <1>2, <2>1, CurrentFilled DEF BuildCache
<1> QED
  BY <1>1, <1>2 DEF VoiceGoesOn, Bind, SessionGone, WhisperAtOnce, Whisper, CacheMiss,
                    PacketDone, UnknownPeer

LEMMA CurrentStep == ASSUME Sound, Speakers, Current, [Next]_vars PROVE Current'
<1>1. CASE UNCHANGED vars
  BY <1>1 DEF vars, userVars, channelVars, cacheVars, Current, Admitted, Counted, Cached,
              Reaches, TargetChannels, AllLinks
<1> QED
  BY <1>1, CurrentMain, CurrentMainGoesOn, CurrentVoice DEF Next

\* Between two handlers a whisper reaches exactly the users its target means:
\* every handler that changes what targets mean clears the caches before it ends
\* (clearACLCache in userEnterChannel, msgACL, msgUserState, msgAuthenticate and
\* clearTempGroups), and a cache the voice thread stores in between was worked
\* out under the lock it is stored under.
THEOREM WhispersReach == Spec => []TargetsFresh
<1>1. Init => Speakers /\ Current
  BY DEF Init, Speakers, Current, Admitted, Cached, InUse, NoPacket
<1>2. Sound /\ Speakers /\ Current /\ [Next]_vars => Speakers' /\ Current'
  BY SpeakersStep, CurrentStep
<1>3. Sound /\ Current => TargetsFresh
  <2> SUFFICES ASSUME Sound, Current, At("idle"), ~unannounced, NEW u \in Admitted, u \in Cached
               PROVE  qmTargetCache[u] \cap Admitted = CurrentReceivers(u) \cap Admitted
    BY DEF TargetsFresh, Fresh
  <2>1. Counted = Admitted
    BY DEF Counted, At
  <2>2. \A p \in Admitted : p \in qmTargetCache[u] <=> Reaches(u, p)
    BY <2>1 DEF Current, At
  <2>3. \A p \in Admitted : p \in CurrentReceivers(u) <=> Reaches(u, p)
    BY <2>1, CountedHere, ReceiversReached DEF Admitted
  <2> QED
    BY <2>2, <2>3
<1> QED
  BY <1>1, <1>2, <1>3, AlwaysSound, PTL DEF Spec
=============================================================================
