# Verification of the Mumble server core

TLA+ modules, TLC configurations and TLAPS proofs about the server of Mumble
(`src/src/murmur`) and the code it shares with the client (`src/src`). Paths
and line numbers below are relative to the repository root `src/`.

## 1. Inventory

The server is one process. Each virtual server is a `Server` object with two
threads: the *main thread* runs the Qt event loop (TCP messages, timers, Ice
requests and posted events), the *voice thread* (`Server::run`) reads UDP.
They share the user and channel tables under `qrwlVoiceThread`: the main
thread takes the write lock to change them and needs none to read them.

| Part | State | Operations | Interacts with |
|---|---|---|---|
| UDP voice encryption (`src/crypto/CryptStateOCB2.cpp`) | `encrypt_iv`, `decrypt_iv`, `decrypt_history`, statistics, two timers | `encrypt`, `decrypt`, `setKey`, `setDecryptIV`, `getEncryptIV` | voice thread and main thread of the server under `qmCrypt`; `ServerHandler`, main window and audio of the client |
| Connections and session ids (`Server.cpp`, `Messages.cpp`) | `qqIds`, `qhUsers`, `sState`, `uiSession`, `qsName` | `newClient`, `msgAuthenticate`, `connectionClosed`, `checkTimeout`, `setLiveConf` | everything that names a user by session id |
| Channel tree (`Channel.cpp`, `Server.cpp`, `DBWrapper.cpp`) | `qhChannels`, parent pointers, links, `cChannel` of users, rows of `channels` and `channel_links`, events waiting | `createNewChannel`, `msgChannelState`, `msgChannelRemove`, `removeChannel`, `userEnterChannel`, `linkChannels`, `unlinkChannels`, `customEvent`, start | database, event queue, sessions |
| Voice thread and whisper targets (`Server.cpp`) | `qhHostUsers`, `qhPeerUsers`, `qmTargets`, `qmTargetCache`, `aiUdpFlag` | `run`, `processMsg`, `sendMessage`, `createWhisperTargetCacheFor`, `msgVoiceTarget`, `startThread`, `stopThread` | reads users, channels, listeners, ACL cache |
| ACLs and groups (`ACL.cpp`, `Group.cpp`) | ACL lists and groups of channels, `acCache`, `bSuppress` | `effectivePermissions`, `appliesToUser`, `clearACLCache`, `msgACL`, `setACL`, temporary groups, `registerUser`, `unregisterUser` | every permission check, in both threads |
| Channel listeners (`ChannelListenerManager.cpp`) | two inverse maps, volumes per (session, channel) | add, remove, disable, delete | sessions, channels, database, whisper targets |
| Rate limits (`murmur/ServerUser.cpp`) | bucket, ring of the last frames | `ratelimit`, `addFrame` | voice thread, message handlers |
| Bans (`Ban.cpp`) | list with expiry | check, prune | `newClient` |
| Ice and RPC (`MumbleServerIce.cpp`, `RPC.cpp`) | callbacks, authenticators | forwards to the handlers, with fewer checks | all of the above |
| Database (`database/`, `murmur/database/`, `DBWrapper.cpp`) | tables | one transaction per call; an exception ends the process | channel tree, users, bans, logs |
| Client network handler (`mumble/ServerHandler.cpp`, `mumble/Messages.cpp`) | `csCrypt`, `bUdp` | receive, send, resync | the server's counterpart |
| Wire formats (`MumbleProtocol.cpp`, `PacketDataStream.h`) | none | encode, decode | voice |
| Other client parts, registration, certificates, migrations | | | listed in `PROJECT.json` with the reason they are left out |

What is hard here, and what makes each part correct:

* **Voice encryption.** UDP loses, duplicates and reorders; only the lowest
  byte of the 128-bit IV travels. Correct: no packet is delivered twice
  between two resyncs, the newest IV never goes back, packets that are merely
  late still get in, and two counters that drifted apart find back.
* **Session ids.** Connections are rejected, kicked, time out and close in any
  order, what a rejected one sent before is still read, and the pool is rebuilt
  while ids are in use. Correct: no id is lost, held twice, or free and held at
  once; `qhUsers` lists exactly those who hold one; names of admitted users are
  unique.
* **Channel tree.** Any client may move, link and remove channels; emptied
  temporary channels are removed by an event that runs later; removal of a
  subtree is many transactions. Correct: one tree below the root, within the
  nesting limit, nothing refers to a removed channel, rows and memory agree,
  and a crash at any point leaves rows that load as a tree.
* **Voice thread.** It gives up `qrwlVoiceThread` twice on the way of a packet:
  to bind the address of a peer, and to fill a whisper target cache. Users move,
  leave and are deleted meanwhile. Correct: every user with a session is found
  by the voice thread in exactly one way and nobody else is, no pointer to a
  deleted user is left where it can be followed, a whisper reaches whom its
  target means.
* **Permission cache.** Permissions follow from ACLs, groups, tokens, the
  account and the place of a user; each handler that changes one of them has to
  clear the right users' caches, and the voice thread may fill a cache in
  between. Correct: what is cached is what an evaluation would give, and the
  evaluation gives what the ACLs say.

`PROJECT.json` lists the hazards one by one, each at its line.

## 2. Modules

| Module | Contents |
|---|---|
| `ReplayWindow` | abstract: packets are natural numbers; those ahead, within `Reach`, are delivered and become the newest, those less than `LateWindow` behind are delivered once |
| `CryptState` | one direction of the voice channel: sender, receiver, network, resync |
| `CryptDelivery` | `CryptState` and the statistics, with a history of what was delivered; refinement to `ReplayWindow` |
| `CryptResync` | `CryptState`, the packets sent since the last resync, and the fairness under which it recovers |
| `CryptDeliveryProofs` | TLAPS proofs about `CryptDelivery`: delivery and the refinement |
| `CryptLossProofs` | the same: the lost counter, the newest IV, packets taken for repeats |
| `SessionPool` | connections, ids, names, user limit |
| `SessionPoolProofs` | TLAPS proofs about `SessionPool` |
| `ChannelTree` | channels, links, users in channels, rows, posted removals, crash and restart |
| `TreeLemmas` | lemmas about trees given by parent pointers |
| `ChannelTreeProofs` | TLAPS proofs about `ChannelTree` |
| `VoiceThread` | the main and the voice thread under `qrwlVoiceThread`: users, peers, whisper targets and their caches, listeners |
| `VoiceThreadProofs` | TLAPS proofs about `VoiceThread` |
| `Permissions` | `Group::appliesToUser`, `ChanACL::effectivePermissions`, and the same said without an evaluation |
| `AclCache` | `Permissions`, the cache of their results and everything that changes what they follow from |
| `PermissionLemmas` | what the recursive functions of `Permissions` compute, and that the walk over the ACLs gives the last word |
| `AclCacheProofs` | TLAPS proofs about `AclCache` |
| `MCCryptDelivery`, `MCCryptResync`, `MCSessionPool`, `MCChannelTree`, `MCVoiceThread`, `MCAclCache` | starting IVs, whisper targets, ACL edits and symmetry for TLC |

How they compose. `CryptDelivery` and `CryptResync` extend `CryptState`,
`AclCache` extends `Permissions`, and `CryptDelivery` instantiates
`ReplayWindow`. The four groups meet at named points. `VoiceThread` takes from
`SessionPool` that ids are drawn and returned, and leaves names and ghosts to
it; from `AclCache` that Whisper is granted in some channels (`mayWhisper`) and
that a change of that is followed by `clearACLCache`; from the crypt modules
that a user's key decrypts that user's packets only (`Keyed`). `AclCache` takes
from `ChannelTree` that a channel moves below another one which is not below it.

Definitions whose comment begins with *Fault* are not part of the model. Each
is what a plausible mistake in the code would turn the definition that follows
into; `PROJECT.json` ("mutants") says which property then fails.

### CryptState, CryptDelivery, CryptResync

An IV is a record of its lowest byte `b0` and the number `rest` that the other
fifteen bytes form. `ByteValues` and `HighValues` replace 256 and 256^15,
`LateWindow` the constant 30 of `decrypt`. `Guess` is the reconstruction of the
IV from the byte received, `Carry` and `Borrow` the loops that `++` and `--`
the higher bytes; `IsRepeat` the look-up in `decrypt_history`, which keeps for
each value of `b0` the *second* byte of the IV (`LowDigit`). A tag matches
exactly when the receiver's IV is the one the packet was encrypted with; this is
all that is used of OCB2. `AcceptAhead`, `AcceptLate` and `Reject` are the three
outcomes of `decrypt`. The two five-second timers are booleans that elapse
nondeterministically.

The same module stands for both directions. `TornReads` covers the difference:
the server reads `encrypt_iv` for a resync under `qmCrypt`, the client's main
thread reads it while another thread may be advancing it, so it may see bytes of
two values.

The sender never reuses an IV: `MaxRest` caps the counter far enough below
its wrap, which in the code is 2^128 packets away (`NoNonceReuse`). `StopIVs` is
a bound of the runs only: where a sender stops, so that from each starting IV no
more packets are explored than it takes for every value of the byte to come
again.

### SessionPool

`NewClient`, `Authenticate` (refused, admitted, admitted in place of a ghost),
`ConnectionClosed` and `SetMaxUsers` are the handlers of the main thread, each
one step, because the event loop runs one handler at a time. The exception is
modelled as the code does it: kicking a ghost runs the ghost's
`connectionClosed` inside the `Authenticate` step. The search for a user of the
same name returns any entry of `qhUsers` that matches, since the order of a
`QHash` is unspecified. Passwords are a boolean (`genuine`), address and
certificate hash one value.

A rejected client keeps its id until its socket has closed, and its state stays
`Connected`, so a further `Authenticate` that it had already sent is processed
like the first (`Messages.cpp:202`, `MayAuthenticate`): the client draws another
id. The history variable `replaced` collects the ids overwritten that way.
`connectionClosed` knows only the last id, so the entry of `qhUsers` under the
first remains when its `ServerUser` is deleted (`Dangling`). Walking the table
with such an entry in it is undefined: a handler that does requires `Intact`,
and `ReadDeleted` stands for its doing so all the same.

`dequeue()` on an empty queue has no defined result either: the model records
`underflow`, or `readDeleted`, and stops, which is why these runs do not check
for deadlock.

### ChannelTree

Channels are objects of the set `Objs`; `channels` are those that exist. `iId`,
`bTemporary`, `cParent`, `qhChannels` and `links` are the fields of the same
name, `dbParent` and `dbLinks` the rows. `events[i]` counts the removals posted
for id `i` that have not run. Every handler is one step of the main thread.
`RemoveChannel` is the whole recursion of `removeChannel`: subtree, users moved
up to the first channel they may enter, links, rows, and the removals posted on
the way. `Rpc` switches on what only Ice can do: it does not look whether a
parent is temporary. `Crash` stops the process between two transactions,
including between those of a removal. `Restart` is `initializeChannels` and
`initializeChannelLinks`.

Ids of temporary channels may collide (section 3, `channel_ids`): any number of
temporary channels may exist, and the history variable `shared` holds those that
have, or had, their id in common with another.

`MaxLinks` bounds the links there are at once, `MaxEvents` the removals posted for
one id. The second must not hide a removal that the code would run: `Room` keeps
users out of an empty temporary channel when the removals posted for its id,
with those still to be posted by whoever is in a channel of that id (`Due`), have
reached the bound; so leaving, moving and removing are never disabled by it.

`NestingLimit` is constant here; `setLiveConf` can lower it while deeper channels
exist. `OffsetAssumption` says that permanent ids stay below the offset of
temporary ones: for channels made by messages that follows from
`iChannelCountLimit`, half of that offset; `addChannel` of Ice does not ask for
the limit, and the limit may be lowered.

An exception of the database reaches `ServerApplication::notify`, which ends the
process: `DatabaseError`. The run stops there, or restarts.

Permissions, names and full channels only make the code refuse more, so the
model lets every permitted *and* refused choice happen: a step it takes may not
be permitted to this user, but is to some user.

### VoiceThread

A section between taking and giving up `qrwlVoiceThread` is one step. Where a
handler gives the lock up and goes on, a thread's position is in `main.at` or
`voice.at`, and what it remembers without a lock is in the same record: the
user's pointer, session id and port. The main thread reads the tables without
the lock and is the only one to write most of them, so a handler of it is cut
only where it writes in several sections:

* `msgAuthenticate`: `DrawId` (`named`), `Accept` clears the caches
  (`cleared`), `StartThread` (`keyed`), `LoadChannelListeners` (`heard`),
  `EnterFirst` (`entered`), the caches again (`joining`), `Authenticated`. A
  client may be turned away after the first two (`TurnAway`): it then stays in
  `qhUsers` until its socket has closed.
* `connectionClosed`: `Close` removes the listeners, `RemoveUser` takes the user
  out of the tables, `clearTempGroups` and with it the caches, `StopThread`
  when nobody is left, and a posted `Delete`. The caches are cleared only for a
  user who had been authenticated (`AfterRemoval`).
* every other handler: the change, then `clearACLCache` (`clear`).

The voice thread: `UnknownPeer` is the search by host, `Bind` what it does with
the write lock, `Whisper` and `WhisperAtOnce` a whisper whose target is not
cached, `BuildCache` the entry. A packet that needs no write lock changes
nothing and is no step. The first packet after a cache was cleared reaches
nobody: `processMsg` stores the entry and sends to the empty sets it started
with (`Server.cpp:1250-1280`); no property counts packets.

The slot of a deleted `ServerUser` is not handed out again while something
points to it (`PointedAt`), so that a pointer left behind can be told from a
good one: the properties say whether one is left, not what following it would
read. An id that the voice thread holds between two sections is not drawn
again before the second section: ids are drawn at the front of a queue and
returned at its end. All users share one host address and have one whisper
target slot each, and one channel link set stands for the link graph. Two
things of `msgAuthenticate` are left to `SessionPool`: the further `Authenticate`
of a client that was turned away, and the super user, for whom a full server has
room (`Messages.cpp:270`).

### Permissions and AclCache

`Walk` is the loop of `effectivePermissions` from the root to the channel,
`EvaluateChannel` its body, `Evaluate` one ACL entry. `traverse` and `write` are
the two flags that live across channels: they are not reset by a channel that
does not inherit, while `granted` is, and both off ends the walk. `LastWord` says
without a loop what the documentation means: the last entry that speaks of a
permission decides, a channel that does not inherit starts over, and a channel
where the user misses Traverse and Write (`MissesBoth`) shuts the user out of
itself and everything below. There the code does otherwise in one case: the flag
for Write, unlike the permission Write, is not reset by a channel that starts
over, so a user whose last word on Write from above is yes passes
(`WriteOutlives`). `LastWordDecides` states the equality with exactly that
exception.
`AppliesToUser` is `appliesToUser` with the special names that behave
differently (`all`, `auth`, `in`, `out`, token, certificate, `sub`, one named
group, `!` and `~`), `InGroup` the memberships up the tree. One permission
stands for all those the code treats alike (see the module's head).

`AclCache` cuts the main thread's handlers where the voice thread can ask for a
permission in between: after a change, before the `clearACLCache` that
follows. `main` holds what is still to do. `clearACLCache` fills the cache again
while it runs: it evaluates the permissions of those whose client has been told
any (`Refilled`, `told`), which makes the order of clearing and changing
matter. `Authenticate` clears what an earlier owner of the same memory may have
left in the cache. `MsgACL` is the edit of a user, with the
entry that lets the editor in again (`Regrant`); `SetACL`, `AddUserToGroup`,
`RemoveUserFromGroup` come from the RPC interface. `overlooked` is a history
variable: it records who is online when a channel moves, and whose account was
taken away, which no handler follows with a clearing.

Left out of it: session 1, whose temporary membership `-1` is also the id of
everybody who is not registered (`Group.cpp:243`, `AccountsAssumption`);
clients without certificate (their editor's entry cannot name them) and changes
of certificate within a session; a second user under one account (the ghost
kick of `SessionPool`); the ACLs `createNewChannel` gives a channel to its
maker, removed channels, `setTempGroups`, and `suppress` set by an
administrator. An entry names an account or a group and not both
(`IsEntry`), as `MumbleServer.ice:188-191` says and `msgACL` makes it. `setACL`
over Ice does not check it; an entry with both that `unregisterUser` removes
would change the permissions of users whose caches it does not clear.

## 3. Runs

Passing runs:

| Run | Bounds | Shows |
|---|---|---|
| `crypt_window` | bytes of 6 values, window 3, 2 packets in flight, 1 resync, two starts just before a carry, one with second byte zero, each followed until the byte comes round | at most one delivery, window, history, refinement; lost counter within one; which new packets are taken for a repeat; crossing the wrap both ways with a resync in between |
| `crypt_recovers` | byte of 4 values, both counters cyclic (2 turns) | recovery after any drift, also a drift of whole turns |
| `session_table` | 3 connections, 3 names (one registered, one super user), 2 addresses, limits 1 to 3 | ids, table, names, also when a rejected client authenticates again |
| `channel_tree` | root and 3 channels, 1 user, nesting 2, 1 link at a time, 2 pending removals per id | tree, hash, links, rows, crash, also with colliding ids |
| `channel_goes` | root and 2 channels, 2 users, nesting 2, 1 link at a time, 2 pending removals per id | temporary channels go |
| `voice_tables` | 2 users, limit 2 (3 ids), 2 channels, 2 ports, targets: a session, a channel with its links, nobody | peers, caches, targets and listeners under both threads |
| `acl_cache` | 2 users, 3 channels of which one moves, 1 account, 3 ACL edits | cache, meaning of ACLs, temporary groups, editor |

Why the bounds are enough. The crypt runs cross the carry in both directions;
six byte values leave values that are ahead, late and out of the window, as 256
do with a window of 30, and the theorems about `CryptDelivery` hold for every
size. With three connections a ghost, the one that kicks it, and a rejected one
that lingers or has left an entry behind exist together, and ids lie above a
lowered limit; the theorems about `SessionPool` hold for every number, and so do
those about `ChannelTree` and `AclCache` for every number of channels, users and
edits. Three channels below the root allow a subtree of depth two to move beside
another channel and two temporary channels to collide, and one user is enough
for all single-user interleavings of posts and removals; `channel_goes` and
`channel_ids` use two users. A channel beyond the nesting limit needs three
levels, which `NestingLimit = 2` just forbids. `channel_goes` is a run of its own
because symmetry is not sound for its property and fairness makes a state graph
of the size of `channel_tree` too large. For the voice
thread two users are a speaker and one who is reached, leaves and comes back
under another id while the packet is under way; three ids are enough for an id
to be kept back by the voice thread and another to be drawn; two ports let two
packets of unknown peers compete, and the theorems about `VoiceThread` hold for
every number of all of these. In `acl_cache` three channels are a root, one that
starts over and one that moves below it, so that what is inherited changes; the
three edits use every kind of entry but the plain account: a named group with
account members and with temporary ones, a place (`in`, `out`, `sub`), `!auth` and
a token; the entry for an account is the one `Regrant` adds. A member of the
root's group who is not in the channel that starts over has the last word on
Write from above and is denied Traverse there, which is the exception of
`LastWordDecides`. Both users hold every role but those of editor and token
holder, which are one user's (`Editors`, `Tokened`). No symmetry is used there:
sessions are numbers.

Violation runs, each a disagreement between the code and what it, or its
interface description, says:

| Run | The text | What the code does |
|---|---|---|
| `session_underflow` | `Server.cpp:1457` "Session ID pool (%1) empty, rejecting connection" | the check and the draw are in two handlers; in the shortest trace it is the further `Authenticate` of a rejected client that draws from the empty queue |
| `channel_ids` | `MumbleServer.ice:110` "Channel ID. This is unique per channel" | ids of temporary channels are computed from rows they do not have |
| `voice_purged` | `Server.cpp:1262` the lock avoids "situations in which a user from the cache gets deleted without this particular cache entry being purged" | a client being turned away can be whispered to by session id; when it is deleted no cache is cleared |
| `acl_unregister` | `Messages.cpp:297` "Clear cache as the "auth" ACL depends on the user id and any cached ACL won't have taken that into account yet" | `unregisterUser` clears, and thereby fills, the cache before it resets the id |
| `acl_suppress` | `Mumble.proto:206` "True if the user has been suppressed from talking" | `clearACLCache` announces `suppress = true` also when it lifts the suppression |

Other disagreements have no run of their own; the properties name the case they
leave out.

* `TestCrypt` expects every packet that is merely late or skips some to be
  decrypted ("OOO recovery up to 30 packets",
  `src/tests/TestCrypt/TestCrypt.cpp:68`). Two kinds are taken for a repeat at
  `CryptStateOCB2.cpp:192`: while the second byte of the IV is the zero that
  `decrypt_history` is filled with, every packet whose low byte has not been
  heard yet, unless it is the next in order (`NeverHeard`); and a packet whose
  low byte was last heard whole turns of the second byte before (`TurnsBehind`).
  `FreshIsNoRepeat` says that there are no others. `crypt_window` reaches the
  first; the theorem covers both.
* The guard of the lost counter (`CryptStateOCB2.cpp:219`) also skips the step
  from one to zero, so the count may stay one too high: `LostWithinOne` is the
  exact statement.
* `msgAuthenticate` stops its search for a user of the same name at the first
  entry it meets (`Messages.cpp:250`). If that is a connection that was turned
  away from the same address, two users can end up with one name.
  `NamesStayUnique` leaves out names behind such a connection.
* A second `Authenticate` of a turned-away connection, handled before its
  socket has closed, overwrites `uiSession` (`Messages.cpp:210`): the first id is
  not put back, and its entry in `qhUsers` outlives the connection. `NoIdLost` and
  `TableMatches` leave out the ids lost in this way (`replaced`) and nothing else;
  `session_underflow` shows the draw itself.
* A user who is denied Traverse in a channel that does not inherit, and has no
  Write there, is let in if Write was last allowed further up. `ACL.cpp:172-173`
  says "if we are missing traverse AND write in this channel", and the help on
  Traverse that a user who is denied it is "unable to access this channel and
  any sub-channels in any way" (`ACL.cpp:258-260`); the permission is reset at
  `ACL.cpp:140-142`, the flag is not. `LastWordDecides` leaves out exactly these
  users (`WriteOutlives`), and `acl_cache` contains them.
* With colliding ids (`channel_ids`) `qhChannels` does not find every temporary
  channel, and an emptied one may lose its posted removal to another of the same
  id. `HashMatches`, `EmptyTemporaryIsDue` and `EmptyTemporaryGoes` leave out
  channels that had their id in common with another (`shared`); the other
  properties of the tree hold for those too.
* Linking what is linked already is refused by the primary key, and the
  exception ends the server (`DBWrapper.cpp:697`): `LinkRejectedByDatabase`
  keeps it in the model, and `DatabaseMatches` holds across the restart.
* A posted removal is not withdrawn when somebody enters the channel before it
  runs (`Server.cpp:1886`), so the channel is removed with its new users: hence
  the second alternative of `EmptyTemporaryGoes`, and no property says that a
  channel with users stays.
* Linking channels and RPC listeners clear no whisper target cache
  (`Server.cpp:3153`, `RPC.cpp:356`): `TargetsFresh` leaves out the time until the
  next clearing (`unannounced`).
* Moving a channel clears no permission cache (`Messages.cpp:1514`):
  `CacheFresh` leaves out who was online then (`overlooked`).

### Fairness

`crypt_recovers` is the only run that needs much. Assumed: the sender keeps
encrypting (both sides ping over UDP every few seconds); the event loop answers
requests and installs answers (TCP delivers); no datagram stays in flight for
ever; a receiver that is sent undecryptable packets again and again reads some;
the clock runs; again and again an answer arrives before the next packet is
encrypted, as in a pause of speech (`PromptInstall`); and of the packets that
follow within half a turn of the low byte after one resync after the other, some
arrive (`AcceptSoon`). The last two are strong fairness and are needed: if every
answer were overtaken by more than half a turn of packets, or every packet after
a resync were lost, the receiver would never be in reach. Because the counter of
the model is cyclic, a packet can also decrypt by coincidence when the counter
has come round; `since` keeps the fairness from counting on that. With
`TornReads` a nonce may be garbage, so this run reads whole nonces.

`channel_goes` assumes only that the event loop runs each posted event.

The voice and permission runs state safety only and assume no fairness: a thread
may stop between any two steps.

## 4. Proofs

All proofs are for every value of the constants that satisfies the named
assumptions of the modules.

* `CryptDeliveryProofs!TypeCorrect`. `TypeOK` and `InRange` (the receiver's and
  all packets' `rest` are at most one turn around what the sender may use).
  `InRange` is needed for the successor and the borrow to stay inside the type.
* `CryptDeliveryProofs!DeliversAtMostOnce`. The inductive invariant is
  `AtMostOnce /\ NewestLeads /\ HistoryCovers` together with the type. At most
  one delivery is not inductive: a packet is refused because its digit is in
  the history, so one needs that the history holds the digit of every packet
  delivered that is still in the window (`HistoryCovers`), and for a packet
  ahead that it is newer than all delivered (`NewestLeads`). The lemma
  `OneByteOnePacket` says that within the window each low byte belongs to one
  packet, which is where `LateWindow <= ByteValues / 2` enters.
* `CryptDeliveryProofs!ImplementsReplayWindow`. Under the mapping that numbers
  IVs, each delivery is a delivery of the window, a resync is
  `Synchronise`, everything else a stutter.
* `CryptDeliveryProofs!DeliversAtMostOnce`, `NewestInFront`, `HistorySuffices`
  are the three parts of that invariant.
* `CryptLossProofs!LossCounted`. `LostWithinOne` needs the starting point:
  until the first resync everything encrypted, in flight or accepted lies after
  the IV both sides started from, and the packets passed over are a finite set
  (`Counted`). `BetweenCount` says that an accepted packet `k` ahead passes over
  `k - 1` others, which is what `decrypt` adds.
* `CryptLossProofs!NewestForward`: `NewestNeverBack`, from the type and from the
  order of the packets ahead and late.
* `CryptLossProofs!FreshAccepted`: `FreshIsNoRepeat`. The invariant `Remembered`
  says what the history holds of a low byte: the digit of the newest packet
  delivered with it (`NewestOf`), or the zero of the constructor before there is
  one. That a late packet is never taken for a repeat of a newer one, and one
  ahead only for a packet whole turns behind, is arithmetic: within reach the
  higher bytes differ by at most one (`ReachRest`), and equal digits of different
  numbers are whole turns apart (`DigitTurns`).
* `SessionPoolProofs!TypeCorrect`, `IdsQueuedOnce`, `FreeIdsUnused`, `IdsReturn`,
  `TableExact`: the properties of the id pool and the table, whose conjunction
  (`Sound`) is inductive (`AlwaysSound`). `Good` states them about values rather
  than variables, so that the step that admits a user and closes a ghost at once
  is two applications of the lemmas `DrawKeepsGood` and `CloseKeepsGood`. The
  entries left behind are the ones under ids in `replaced`; such an id is in
  neither the queue nor anybody's `uiSession`, and is never drawn again while its
  entry stays, which is why they disturb neither. `SessionPool!Ascending` picks the
  order the code enqueues in; the proof uses only that it enumerates the set once.
* `SessionPoolProofs!NamesUnique`: `NamesStayUnique`. That the search finds a user
  of the same name, whatever entry it meets first, rests on what `qhUsers` lists.
* `ChannelTreeProofs!TypeCorrect`, `TreeRooted`, `NestingKept`, `NoDangling`,
  `RowsMatch`, `RowsAreTree`, `PermanentStay`. The inductive invariant `Sound` is
  the type and, while the server runs, `InMemory`: `Shape` (a tree, nowhere too
  deep, permanent channels only below permanent ones), `Numbers` (ids of
  permanent channels are below `TempOffset` and looked up exactly, and what
  `qhChannels` holds at all is right), `Pending` (only temporary ids are posted),
  `Refs` and `Stored` (the rows are the permanent channels). While the server is
  stopped it is `RowTree`: what a removal leaves half-done is still a tree of
  rows, because the transactions go from the leaves up. None of the
  properties is inductive alone: that a removal takes no permanent channel
  needs where ids lie and that nothing permanent is below the temporary; that
  the rows load as a tree needs that the memory they copy is one.
  Reachability is stated without induction: `a` is above `c` when every set that
  holds `c` and with each node its parent (`Closed`) holds `a`. `TreeLemmas`
  proves from this the order of a tree and what moving a subtree, adding a leaf
  and cutting a subtree do to it and to the depths; the same lemmas serve the
  channels and the rows.
* `ChannelTreeProofs!HashExact`, `EmptyIsDue`: the invariant is `Exact` beside
  `Sound`. Its part `OwnIds`, that a channel outside `shared` has its id to itself,
  is needed because a removal takes the entry of its id out of `qhChannels`,
  whoever it stood for, and because a posted removal must find the channel it
  was posted for.
* `VoiceThreadProofs!TypeCorrect`, `PeersExact`, `CachesReachUsers`,
  `ListenersEnd`. The inductive invariant `Sound` has, besides the type, six
  parts. `Table`: `qhUsers` is exact. `Handlers`: what the handler in progress
  knows of its user. `Remembered`: what the voice thread saw under the lock is
  still so *if the session still exists*, which is just what `Bind` checks; it
  needs that ids are used in turn. `Peers`: `FoundOneWay` user by user, and that
  nobody who has no id owns a port. `Placed`: only users with an id are in
  channels, so that `createWhisperTargetCacheFor` meets nobody else. `Caches`:
  between `RemoveUser` and the clearing that follows, a cache may hold one who
  just left, and at no other time. None of the theorems is inductive alone: an
  entry for a user that no longer exists is excluded by where the main thread
  stands, and where it stands says something only together with `Table`.
* `VoiceThreadProofs!WhispersReach`: `TargetsFresh`, with two more invariants.
  `Speakers`: only admitted users have caches. `Current`: unless a clearing is
  due, a cache holds exactly those among `Counted` whom the target reaches. Who
  is counted depends on where the main thread stands: a user being closed
  has lost the listeners while still admitted, and counts no more; one about to
  be admitted counts already, because the last clearing is behind. `Reaches`
  reads off a user what `CurrentReceivers` collects over channels and sessions.
* `PermissionLemmas`. The functions of `Permissions` recurse along a sequence of
  entries and up the tree. That they exist and satisfy their equations is not
  taken from an induction theorem (those need an operator as a parameter) but
  proved with sets: along a sequence from the least place without a value
  (`FoldExists`, `AlongSequence`), up the tree from the closed sets of `TreeLemmas`
  (`TreeInduction`). `WalkIsLastWord` then shows that the loop over the ACLs gives
  what the declarative definition says: `Carried` lemmas follow one permission
  through an entry and a channel, `FlagNext` the two flags, and `LatestNext`
  says how the last word changes with one more entry. `WriteIsCarried` compares
  the flag for Write, which a channel that starts over does not reset, with the
  word on Write since the last such channel: a user who has Write there has the
  flag, and the converse fails just for `WriteOutlives`.
* `AclCacheProofs!LastWordTells`: `LastWordDecides` for every tree, ACL and group.
* `AclCacheProofs!TypeCorrect`, `CachesFresh`, `TempsPresent`, `EditorsStay`. The
  inductive invariant is `Inv`. `Typed` includes that the channels are a tree,
  without which the evaluation has no value. `Standing`: who the handler in
  progress is about. `Ids`: no two users share an account, so that a change of
  one account's entries concerns one user. `Fresh`: a cache is wrong only for
  those the pending clearing will clear; *after* the clearing that precedes
  `Regrant` none is, also not an overlooked one. `LetIn`: the entry msgACL adds
  stays the last until the handler is done. `TempMembersPresent` is a part of
  `Inv` and not only a theorem: that a user who leaves changes nobody else's
  permissions rests on it.

The assumptions on constants are those the modules name. `EditsAssumption` of
`AclCache` asks of the ACLs that are set only that they are well formed.

Only model-checked: the two liveness properties `Recovers` and
`EmptyTemporaryGoes` (liveness and `ENABLED` are outside what TLAPS proves), and
of course the five violation runs. Every other property of the passing runs is
a theorem, under no hypothesis but the assumptions on constants.

## 5. Not modelled, and the plan

In this order:

1. The stored listeners and the volumes, which outlive a session (`listening`
   of `VoiceThread` has the listeners of the running server only).
2. `RateLimits`: `LeakyBucket::ratelimit` and `BandwidthRecord::addFrame`.
3. `VarInt`: the variable-length integers of `PacketDataStream.h`, decode after
   encode.
4. A bound on the ids lost by second `Authenticate`s, and the same step in
   `VoiceThread`, where a session target can find the entry left behind.
5. An abstract specification of the cache (`EffectivePermissions` evaluated at
   every question) that `AclCache` implements for users who are not overlooked.

Parts of modelled components that are left out: groups, redirects and children
of whisper targets; bandwidth, loopback and pings of the voice thread, and the
flag that chooses between UDP and TCP; names, descriptions, positions, user
limits and ACLs of channels in `ChannelTree`; volumes of listeners; in
`AclCache` what its section says.

Left out for good: the cipher, TLS, SQL generation and migrations, text
filtering, the client's interface, audio, plugins and overlay, for the reasons
given in `PROJECT.json`.
