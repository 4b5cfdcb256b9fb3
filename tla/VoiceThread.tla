----------------------------- MODULE VoiceThread -----------------------------
(***************************************************************************)
(* The two threads of a virtual server and the tables they share: the main *)
(* thread admits, moves and disconnects users, the voice thread binds UDP  *)
(* peers and fills the whisper target caches.                              *)
(*                                                                         *)
(* qrwlVoiceThread protects the tables.  A section between taking and      *)
(* giving up that lock is one step; wherever a handler gives it up and     *)
(* goes on, there is a step boundary, and the thread's position and what   *)
(* it remembers across the boundary are in the variables main and voice.   *)
(* The users modelled share one host address and use one whisper target.   *)
(* The names of users, and with them the kicking of ghosts, are left to    *)
(* SessionPool, and so is the order in which ids are drawn: here any free  *)
(* id may come next.  The permissions behind Whisper are AclCache's.       *)
(***************************************************************************)
EXTENDS Integers, FiniteSets

CONSTANTS
    Users,      \* memory slots of ServerUser objects
    iMaxUsers,  \* the user limit
    Channels,
    Whisperers, \* bound: the users who register whisper targets
    Varied,     \* bound: the channels whose listeners and permissions change
    Ports,      \* UDP source ports
    Targets,    \* whisper targets clients register, see Target
    NoUser, NoChannel, NoPort,
    Turnaways,  \* TRUE: clients are turned away
    RpcListens  \* TRUE: listeners are also changed through RPC

Ids == 1 .. 2 * iMaxUsers - 1

\* sessions, and a channel with or without the channels linked to it
Target == [sessions : SUBSET Ids, channel : Channels \cup {NoChannel}, links : BOOLEAN]

ASSUME LimitAssumption == iMaxUsers \in Nat \ {0}
ASSUME TargetsAssumption == Targets \subseteq Target
ASSUME BoundsAssumption == Whisperers \subseteq Users /\ Varied \subseteq Channels
ASSUME NothingAssumption ==
    NoUser \notin Users /\ NoChannel \notin Channels /\ NoPort \notin Ports
ASSUME SwitchesAssumption == {Turnaways, RpcListens} \subseteq BOOLEAN

VARIABLES
    state,          \* see States
    uiSession,      \* ServerUser::uiSession
    qhUsers,        \* session id -> user
    inChannel,      \* the channel whose qlUsers holds the user
    listening,      \* session id -> channels, of m_channelListenerManager
    linked,         \* channels linked to one another
    mayWhisper,     \* channels whose ACL grants Whisper
    qhHostUsers,    \* users of the host whose UDP port is not known yet
    qhPeerUsers,    \* UDP port -> user
    saiUdpAddress,  \* the port a user was bound to
    qmTargets,      \* user -> the whisper target, of the users who have one
    qmTargetCache,  \* user -> the users the target reaches, where that is cached
    main,           \* the main thread: at which section of whose handler
    voice,          \* the voice thread: section, user, session and port it holds
    unannounced     \* history: a link or an RPC listener changed behind a cached target

userVars == <<state, uiSession, qhUsers>>
channelVars == <<inChannel, listening, linked, mayWhisper>>
peerVars == <<qhHostUsers, qhPeerUsers, saiUdpAddress>>
cacheVars == <<qmTargets, qmTargetCache, unannounced>>
vars == <<userVars, channelVars, peerVars, cacheVars, main, voice>>

\* "pending": has an id and is not (yet) authenticated; "closed" and "refused":
\* out of the tables and not deleted yet, after having been admitted or not;
\* "none" and "dropped": deleted after having been the one or the other.
States == {"none", "connected", "pending", "authenticated", "closed", "refused", "dropped"}
Deleted == {"none", "dropped"}
Alive(u) == state[u] \notin Deleted
InUse == DOMAIN qhUsers

\* Fault: the pool is filled from 0 on.
FreeFromZero == (0 .. 2 * iMaxUsers - 1) \ InUse

\* The free ids; any of them may be the next.
qqIds == Ids \ InUse
Listed == {qhUsers[s] : s \in InUse}
Without(f, S) == [x \in DOMAIN f \ S |-> f[x]]
With(f, k, v) == [x \in DOMAIN f \cup {k} |-> IF x = k THEN v ELSE f[x]]
Cached == DOMAIN qmTargetCache

MainPlaces == {"idle", "named", "cleared", "keyed", "heard", "entered", "joining",
               "clear", "closing", "leaving", "stop"}
VoicePlaces == {"stopped", "idle", "bind", "bound", "build"}
Idle == [at |-> "idle", user |-> NoUser]
NoPacket == [at |-> "idle", user |-> NoUser, session |-> 0, port |-> NoPort]
At(place) == main.at = place
Go(place) == main' = [main EXCEPT !.at = place]

Init ==
    /\ state = [u \in Users |-> "none"]
    /\ uiSession = [u \in Users |-> 0]
    /\ qhUsers = <<>>
    /\ inChannel = [u \in Users |-> NoChannel]
    /\ listening = [s \in Ids |-> {}]
    /\ linked = {}
    /\ mayWhisper = Channels
    /\ qhHostUsers = {}
    /\ qhPeerUsers = <<>>
    /\ saiUdpAddress = [u \in Users |-> NoPort]
    /\ qmTargets = <<>>
    /\ qmTargetCache = <<>>
    /\ main = Idle
    /\ voice = [NoPacket EXCEPT !.at = "stopped"]
    /\ unannounced = FALSE

-----------------------------------------------------------------------------
(* Whisper targets. *)

AllLinks(c) == IF c \in linked THEN linked ELSE {c}

TargetChannels(t) ==
    IF t.channel = NoChannel THEN {}
    ELSE IF t.links THEN AllLinks(t.channel) ELSE {t.channel}

\* createWhisperTargetCacheFor: users in the channels and listeners of the
\* channels where the speaker may whisper, and the sessions named.  For a user
\* who is in no channel yet, effectivePermissions(nullptr) is the default set.
Receivers(u, t) ==
    LET chans == TargetChannels(t) \cap mayWhisper
        shouted == {p \in Users : inChannel[p] \in chans}
        listeners == {qhUsers[s] : s \in {s \in InUse : listening[s] \cap chans # {}}}
        named == {qhUsers[s] : s \in InUse \cap t.sessions}
    IN  (shouted \cup listeners
           \cup {p \in named : inChannel[p] \in mayWhisper \cup {NoChannel}}) \ {u}

\* qmTargets.value(target): an empty target when there is none any more.
CurrentReceivers(u) == IF u \in DOMAIN qmTargets THEN Receivers(u, qmTargets[u]) ELSE {}

ClearWhisperTargetCache ==
    /\ qmTargetCache' = Without(qmTargetCache, Listed)
    /\ unannounced' = FALSE

-----------------------------------------------------------------------------
(* The main thread. *)

PointedAt(u) ==
    \/ u = voice.user
    \/ u \in qhHostUsers
    \/ \E p \in DOMAIN qhPeerUsers : qhPeerUsers[p] = u
    \/ \E v \in Listed \cap Cached : u \in qmTargetCache[v]

\* newClient.  Memory still pointed at is not handed out again in the model,
\* so that a pointer that outlives its object can be told from a good one.
NewClient(u) ==
    /\ At("idle") /\ ~Alive(u) /\ ~PointedAt(u) /\ qqIds # {}
    /\ state' = [state EXCEPT ![u] = "connected"]
    /\ UNCHANGED <<uiSession, qhUsers, channelVars, peerVars, cacheVars, main, voice>>

\* msgAuthenticate begins: the client gets its id and can be found.  The ids
\* are used in turn: one just returned is not drawn again before the voice
\* thread, which holds it between two sections, has come to the second.  A
\* client that was turned away may also authenticate once more and draw another
\* id (Messages.cpp:202-213): that is left to SessionPool.
DrawId(u) ==
    /\ At("idle") /\ state[u] = "connected"
    /\ Turnaways \/ Cardinality(InUse) < iMaxUsers
    /\ \E s \in qqIds \ {voice.session} :
          /\ uiSession' = [uiSession EXCEPT ![u] = s]
          /\ qhUsers' = With(qhUsers, s, u)
    /\ state' = [state EXCEPT ![u] = "pending"]
    /\ qhHostUsers' = qhHostUsers \cup {u}
    /\ main' = [at |-> "named", user |-> u]
    /\ UNCHANGED <<channelVars, qhPeerUsers, saiUdpAddress, cacheVars, voice>>

\* The exemption of SuperUser from it (Messages.cpp:270) is SessionPool's.
ServerFull == Cardinality(InUse) > iMaxUsers

\* Refused for the credentials, a full server or full channels: the socket
\* starts to close, and until it has, the client keeps its id.
TurnAway ==
    /\ Turnaways /\ (At("named") \/ At("cleared"))
    /\ main' = Idle
    /\ UNCHANGED <<userVars, channelVars, peerVars, cacheVars, voice>>

\* clearACLCache, called by a handler that goes on afterwards.
ClearCaches(here, next) ==
    /\ At(here)
    /\ ClearWhisperTargetCache
    /\ main' = IF next = "idle" THEN Idle ELSE [main EXCEPT !.at = next]
    /\ UNCHANGED <<userVars, channelVars, peerVars, qmTargets, voice>>

\* The credentials are good and there is room.
Accept == ~ServerFull /\ ClearCaches("named", "cleared")

\* Accepted: the voice thread runs, and the client has a key from now on.
StartThread ==
    /\ At("cleared") /\ Go("keyed")
    /\ voice' = IF voice.at = "stopped" THEN NoPacket ELSE voice
    /\ UNCHANGED <<userVars, channelVars, peerVars, cacheVars>>

LoadChannelListeners ==
    /\ At("keyed") /\ Go("heard")
    /\ \E S \in SUBSET Varied :
          listening' = [listening EXCEPT ![uiSession[main.user]] = @ \cup S]
    /\ UNCHANGED <<userVars, inChannel, linked, mayWhisper, peerVars, cacheVars, voice>>

EnterFirst ==
    /\ At("heard") /\ Go("entered")
    /\ \E c \in Channels : inChannel' = [inChannel EXCEPT ![main.user] = c]
    /\ UNCHANGED <<userVars, listening, linked, mayWhisper, peerVars, cacheVars, voice>>

Authenticated ==
    /\ At("joining") /\ main' = Idle
    /\ state' = [state EXCEPT ![main.user] = "authenticated"]
    /\ UNCHANGED <<uiSession, qhUsers, channelVars, peerVars, cacheVars, voice>>

\* userEnterChannel, of a user who moves or is moved (through RPC that may be
\* a client that was turned away); the caches have a section of their own.
EnterChannel(u, c) ==
    /\ At("idle") /\ u \in Listed /\ inChannel[u] # c
    /\ inChannel' = [inChannel EXCEPT ![u] = c]
    /\ main' = [at |-> "clear", user |-> u]
    /\ UNCHANGED <<userVars, listening, linked, mayWhisper, peerVars, cacheVars, voice>>

\* msgACL
ChangeACL(c) ==
    /\ At("idle") /\ Listed # {}
    /\ mayWhisper' = IF c \in mayWhisper THEN mayWhisper \ {c} ELSE mayWhisper \cup {c}
    /\ main' = [at |-> "clear", user |-> NoUser]
    /\ UNCHANGED <<userVars, inChannel, listening, linked, peerVars, cacheVars, voice>>

Toggled(s, c) ==
    [listening EXCEPT ![s] = IF c \in @ THEN @ \ {c} ELSE @ \cup {c}]

\* msgUserState adds or removes a listener.
ChangeListener(u, c) ==
    /\ At("idle") /\ state[u] = "authenticated"
    /\ listening' = Toggled(uiSession[u], c)
    /\ main' = [at |-> "clear", user |-> u]
    /\ UNCHANGED <<userVars, inChannel, linked, mayWhisper, peerVars, cacheVars, voice>>

\* startListeningToChannel and stopListeningToChannel clear nothing.
RpcListener(u, c) ==
    /\ At("idle") /\ u \in Listed /\ RpcListens
    /\ listening' = Toggled(uiSession[u], c)
    /\ unannounced' = (unannounced \/ Cached # {})
    /\ UNCHANGED <<userVars, inChannel, linked, mayWhisper, peerVars,
                   qmTargets, qmTargetCache, main, voice>>

\* linkChannels and unlinkChannels clear nothing either.
Relink(S) ==
    /\ At("idle") /\ Listed # {} /\ linked # S /\ Cardinality(S) # 1
    /\ linked' = S
    /\ unannounced' = (unannounced \/ Cached # {})
    /\ UNCHANGED <<userVars, inChannel, listening, mayWhisper, peerVars,
                   qmTargets, qmTargetCache, main, voice>>

\* What is left of a target once the sessions nobody has are left out.
Checked(t) == [t EXCEPT !.sessions = @ \cap InUse]
Empty(t) == t.sessions = {} /\ t.channel = NoChannel
StoredTarget(u, t) ==
    IF Empty(Checked(t)) THEN Without(qmTargets, {u}) ELSE With(qmTargets, u, Checked(t))

\* Fault: the cache of the former target stays.
MsgVoiceTargetKeeps(u, t) ==
    /\ At("idle") /\ state[u] = "authenticated"
    /\ qmTargets' = StoredTarget(u, t)
    /\ UNCHANGED <<userVars, channelVars, peerVars, qmTargetCache, unannounced, main, voice>>

\* msgVoiceTarget; an empty target removes the one there is.
MsgVoiceTarget(u, t) ==
    /\ At("idle") /\ state[u] = "authenticated"
    /\ qmTargets' = StoredTarget(u, t)
    /\ qmTargetCache' = Without(qmTargetCache, {u})
    /\ UNCHANGED <<userVars, channelVars, peerVars, unannounced, main, voice>>

\* A whisper tunnelled through TCP fills the cache in the main thread.
Tunnel(u) ==
    /\ At("idle") /\ state[u] = "authenticated"
    /\ u \in DOMAIN qmTargets \ Cached
    /\ qmTargetCache' = With(qmTargetCache, u, CurrentReceivers(u))
    /\ UNCHANGED <<userVars, channelVars, peerVars, qmTargets, unannounced, main, voice>>

\* Faults: the listeners are left to whoever gets the id next; the peer entry
\* stays; the temporary groups are forgotten, and with them the caches.
ListenersKept(u) == listening
PortsKept(u) == {}
NextIsStop(u) == "stop"

\* Parts of connectionClosed that depend on who leaves.
ListenersWithout(u) ==
    IF state[u] = "authenticated" THEN [listening EXCEPT ![uiSession[u]] = {}] ELSE listening
PortsOf(u) == {saiUdpAddress[u]}
AfterRemoval(u) == IF state[u] = "authenticated" THEN "leaving" ELSE "stop"

\* bRunning is false: the thread ends when it is done with a packet.
VoiceCanEnd == voice.at \in {"idle", "stopped"}

\* connectionClosed begins: the listeners go first.
Close(u) ==
    /\ At("idle") /\ state[u] \in {"connected", "pending", "authenticated"}
    /\ listening' = ListenersWithout(u)
    /\ main' = [at |-> "closing", user |-> u]
    /\ UNCHANGED <<userVars, inChannel, linked, mayWhisper, peerVars, cacheVars, voice>>

\* The write section; the id is free again.  Only for a user who was
\* authenticated does the handler go on to clearTempGroups and clear the caches.
RemoveUser ==
    LET u == main.user IN
    /\ At("closing")
    /\ qhUsers' = Without(qhUsers, {uiSession[u]})
    /\ qhHostUsers' = qhHostUsers \ {u}
    /\ qhPeerUsers' = Without(qhPeerUsers, PortsOf(u))
    /\ inChannel' = [inChannel EXCEPT ![u] = NoChannel]
    /\ Go(AfterRemoval(u))
    /\ state' = [state EXCEPT ![u] = IF @ = "authenticated" THEN "closed" ELSE "refused"]
    /\ UNCHANGED <<uiSession, listening, linked, mayWhisper, saiUdpAddress, cacheVars, voice>>

\* The last user gone, stopThread waits for the voice thread to end.
StopThread ==
    /\ At("stop")
    /\ InUse = {} => VoiceCanEnd
    /\ voice' = IF InUse = {} THEN [NoPacket EXCEPT !.at = "stopped"] ELSE voice
    /\ main' = Idle
    /\ UNCHANGED <<userVars, channelVars, peerVars, cacheVars>>

\* deleteLater, back in the event loop.
Delete(u) ==
    /\ At("idle") /\ state[u] \in {"closed", "refused"}
    /\ state' = [state EXCEPT ![u] = IF @ = "closed" THEN "none" ELSE "dropped"]
    /\ uiSession' = [uiSession EXCEPT ![u] = 0]
    /\ saiUdpAddress' = [saiUdpAddress EXCEPT ![u] = NoPort]
    /\ qmTargets' = Without(qmTargets, {u})
    /\ qmTargetCache' = Without(qmTargetCache, {u})
    /\ UNCHANGED <<qhUsers, channelVars, qhHostUsers, qhPeerUsers, unannounced, main, voice>>

MainStep ==
    \/ \E u \in Users :
          \/ NewClient(u) \/ DrawId(u) \/ Tunnel(u) \/ Close(u) \/ Delete(u)
          \/ \E c \in Channels : EnterChannel(u, c)
          \/ \E c \in Varied : ChangeListener(u, c) \/ RpcListener(u, c)
    \/ \E u \in Whisperers, t \in Targets : MsgVoiceTarget(u, t)
    \/ \E c \in Varied : ChangeACL(c)
    \/ \E S \in SUBSET Channels : Relink(S)

\* What a handler still has to do once it has begun.
MainGoesOn ==
    \/ Accept \/ TurnAway \/ StartThread \/ LoadChannelListeners
    \/ EnterFirst \/ ClearCaches("entered", "joining") \/ Authenticated
    \/ ClearCaches("clear", "idle")
    \/ RemoveUser \/ ClearCaches("leaving", "stop") \/ StopThread

-----------------------------------------------------------------------------
(* The voice thread.  A packet that needs no write lock changes nothing in *)
(* the model: it is read, decrypted and sent on within one read section.   *)

\* csCrypt->isValid(): the key is made once the client is accepted.
Keyed(u) ==
    \/ state[u] = "authenticated"
    \/ main.user = u /\ main.at \in {"keyed", "heard", "entered", "joining"}

\* A packet of an unknown peer that the key of u decrypts.
UnknownPeer(u, p) ==
    /\ voice.at = "idle" /\ p \notin DOMAIN qhPeerUsers
    /\ u \in qhHostUsers /\ Keyed(u)
    /\ voice' = [at |-> "bind", user |-> u, session |-> uiSession[u], port |-> p]
    /\ UNCHANGED <<userVars, channelVars, peerVars, cacheVars, main>>

\* Fault: what was true under the read lock is taken for true under the other.
BindUnverified ==
    LET u == voice.user IN
    /\ voice.at = "bind"
    /\ saiUdpAddress' = [saiUdpAddress EXCEPT ![u] = voice.port]
    /\ qhHostUsers' = qhHostUsers \ {u}
    /\ qhPeerUsers' = With(qhPeerUsers, voice.port, u)
    /\ voice' = [voice EXCEPT !.at = "bound"]
    /\ UNCHANGED <<userVars, channelVars, cacheVars, main>>

\* Under the write lock, if the session still exists.
Bind ==
    LET u == voice.user IN
    /\ voice.at = "bind" /\ voice.session \in InUse
    /\ saiUdpAddress' = [saiUdpAddress EXCEPT ![u] = voice.port]
    /\ qhHostUsers' = qhHostUsers \ {u}
    /\ qhPeerUsers' = With(qhPeerUsers, voice.port, u)
    /\ voice' = [voice EXCEPT !.at = "bound"]
    /\ UNCHANGED <<userVars, channelVars, cacheVars, main>>

\* The user left while no lock was held: the packet is dropped.
SessionGone ==
    /\ voice.at \in {"bind", "bound", "build"} /\ voice.session \notin InUse
    /\ voice' = NoPacket
    /\ UNCHANGED <<userVars, channelVars, peerVars, cacheVars, main>>

\* processMsg finds a whisper target without a cache and gives up the lock.
CacheMiss(u) ==
    /\ state[u] = "authenticated" /\ u \in DOMAIN qmTargets \ Cached
    /\ voice' = [at |-> "build", user |-> u, session |-> uiSession[u], port |-> NoPort]
    /\ UNCHANGED <<userVars, channelVars, peerVars, cacheVars, main>>

Whisper(p) ==
    voice.at = "idle" /\ p \in DOMAIN qhPeerUsers /\ CacheMiss(qhPeerUsers[p])

WhisperAtOnce ==
    voice.at = "bound" /\ voice.session \in InUse /\ CacheMiss(voice.user)

\* The packet was no whisper, or one the cache knows.
PacketDone ==
    /\ voice.at = "bound" /\ voice.session \in InUse
    /\ voice' = NoPacket
    /\ UNCHANGED <<userVars, channelVars, peerVars, cacheVars, main>>

\* Under the write lock: the cache entry is worked out and stored.  The sets
\* processMsg sends to stay empty, so that nobody hears this first packet.
BuildCache ==
    /\ voice.at = "build" /\ voice.session \in InUse
    /\ qmTargetCache' = With(qmTargetCache, voice.user, CurrentReceivers(voice.user))
    /\ voice' = NoPacket
    /\ UNCHANGED <<userVars, channelVars, peerVars, qmTargets, unannounced, main>>

VoiceGoesOn == Bind \/ SessionGone \/ WhisperAtOnce \/ PacketDone \/ BuildCache

Next ==
    \/ MainStep \/ MainGoesOn
    \/ \E p \in Ports : Whisper(p) \/ \E u \in Users : UnknownPeer(u, p)
    \/ VoiceGoesOn

Spec == Init /\ [][Next]_vars

-----------------------------------------------------------------------------
TypeOK ==
    /\ state \in [Users -> States]
    /\ uiSession \in [Users -> Ids \cup {0}]
    /\ InUse \subseteq Ids
    /\ qhUsers \in [InUse -> Users]
    /\ inChannel \in [Users -> Channels \cup {NoChannel}]
    /\ listening \in [Ids -> SUBSET Channels]
    /\ linked \subseteq Channels
    /\ mayWhisper \subseteq Channels
    /\ qhHostUsers \subseteq Users
    /\ DOMAIN qhPeerUsers \subseteq Ports
    /\ qhPeerUsers \in [DOMAIN qhPeerUsers -> Users]
    /\ saiUdpAddress \in [Users -> Ports \cup {NoPort}]
    /\ DOMAIN qmTargets \subseteq Users /\ qmTargets \in [DOMAIN qmTargets -> Target]
    /\ Cached \subseteq Users /\ qmTargetCache \in [Cached -> SUBSET Users]
    /\ main \in [at : MainPlaces, user : Users \cup {NoUser}]
    /\ voice \in [at : VoicePlaces, user : Users \cup {NoUser},
                  session : Ids \cup {0}, port : Ports \cup {NoPort}]
    /\ unannounced \in BOOLEAN

\* A user with an id can be found by the voice thread in exactly one way, by
\* host until a packet of theirs was decrypted and then by the port it came
\* from, and nobody else can: whatever the main thread did meanwhile.
FoundOneWay ==
    /\ qhHostUsers \cup {qhPeerUsers[p] : p \in DOMAIN qhPeerUsers} = Listed
    /\ \A p \in DOMAIN qhPeerUsers :
          qhPeerUsers[p] \notin qhHostUsers /\ saiUdpAddress[qhPeerUsers[p]] = p

\* Every user in a whisper cache that can be used is an object that exists,
\* unless it belonged to a client that was turned away.
CachedUsersExist ==
    \A u \in Listed \cap Cached : \A v \in qmTargetCache[u] : state[v] # "none"

\* The same without exception, as processMsg says of its cache: no user "from
\* the cache gets deleted without this particular cache entry being purged".
CachePurged ==
    \A u \in Listed \cap Cached : \A v \in qmTargetCache[u] : Alive(v)

Admitted == {u \in Users : state[u] = "authenticated"}
Fresh(u) ==
    u \in Cached => qmTargetCache[u] \cap Admitted = CurrentReceivers(u) \cap Admitted

\* Between two handlers of the main thread a whisper reaches exactly the users
\* its target means now, unless a link or an RPC listener has changed.
TargetsFresh == At("idle") /\ ~unannounced => \A u \in Admitted : Fresh(u)

\* Whoever is given the id next does not inherit the listeners of a user who
\* left: they are gone when the id becomes free.
SessionEndsListening ==
    [][\A s \in InUse \ DOMAIN qhUsers' :
          state[qhUsers[s]] = "authenticated" => listening'[s] = {}]_vars
=============================================================================
