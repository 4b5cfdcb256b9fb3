----------------------------- MODULE Permissions -----------------------------
(***************************************************************************)
(* What a user may do in a channel: Group::appliesToUser and               *)
(* ChanACL::effectivePermissions, over the channel tree, the ACLs and      *)
(* groups of the channels and what the server knows of the users.          *)
(*                                                                         *)
(* One permission stands for all that are treated alike: Enter for         *)
(* TextMessage and Listen too, Move for MuteDeafen, MakeChannel,           *)
(* LinkChannel and MakeTempChannel, Kick for Ban, Register, SelfRegister   *)
(* and ResetUserContent.  One group name is modelled; "strong" is decided  *)
(* like "auth" by something that does not change while a user is there.    *)
(***************************************************************************)
EXTENDS Integers, Sequences, FiniteSets

CONSTANTS
    Users,      \* session ids of the users that may connect
    Channels, Root,
    NoChannel, NoGroup

ASSUME SessionsAssumption == Users \subseteq Nat \ {0}
ASSUME RootAssumption == Root \in Channels /\ NoChannel \notin Channels

VARIABLES
    cParent,          \* Channel::cParent
    bInheritACL,      \* Channel::bInheritACL
    qlACL,            \* Channel::qlACL, a sequence of entries
    qhGroups,         \* the channel's group, or NoGroup
    iId,              \* session -> account, 0 for SuperUser, -1 if unregistered
    cChannel,         \* session -> channel, NoChannel if nobody has the session
    qslAccessTokens   \* session -> whether the user gave the token

treeVars == <<cParent, bInheritACL, qlACL, qhGroups>>
userVars == <<iId, cChannel, qslAccessTokens>>

Perms == {"Write", "Traverse", "Enter", "Speak", "Whisper", "Move", "Kick"}
RootOnly == {"Kick"}
Default == {"Traverse", "Enter", "Speak", "Whisper"}
ImpliedByWrite == {"Traverse", "Enter", "Move"}

\* An entry names an account or, with user = -1, a group ("-1 if using a group
\* name", "Blank if using userid", MumbleServer.ice:188-191).  A group name may
\* be inverted ("!") or read where the entry stands ("~", here: local).
Names == {"", "all", "auth", "in", "out", "token", "hash", "sub", "group"}
IsEntry(e) ==
    /\ e.user \in Int /\ e.here \in BOOLEAN /\ e.subs \in BOOLEAN
    /\ e.allow \subseteq Perms /\ e.deny \subseteq Perms
    /\ e.group.name \in Names
    /\ e.user # -1 => e.group.name = ""

\* A group lists accounts; temp is its qsTemporary.
GroupRecords == [inherit : BOOLEAN, inheritable : BOOLEAN, add : SUBSET Int, remove : SUBSET Int,
                 temp : SUBSET Int]

\* The entries of a channel that name one of the accounts, in their order.
EntriesFor(acls, accounts) ==
    LET left[i \in 0 .. Len(acls)] ==
            IF i = 0 THEN <<>>
            ELSE IF acls[i].user \in accounts THEN Append(left[i - 1], acls[i]) ELSE left[i - 1]
    IN  left[Len(acls)]

Online == {u \in Users : cChannel[u] # NoChannel}

\* The channels from the root to c.
PathTo(c) ==
    LET path[d \in Channels \cup {NoChannel}] ==
            IF d = NoChannel THEN <<>> ELSE Append(path[cParent[d]], d)
    IN  path[c]

-----------------------------------------------------------------------------
(* Groups. *)

\* qsTemporary holds account ids, and session ids as negative numbers.
Temporary(g, u) == iId[u] \in g.temp \/ -u \in g.temp

\* What the group of a channel says of the user; a channel without one says
\* what a group without members does.
Says(u) ==
    [d \in Channels |->
        LET g == qhGroups[d]
        IN  IF g = NoGroup
            THEN [inheritable |-> TRUE, inherit |-> TRUE, removes |-> FALSE, adds |-> FALSE]
            ELSE [inheritable |-> g.inheritable, inherit |-> g.inherit,
                  removes |-> iId[u] \in g.remove, adds |-> iId[u] \in g.add \/ Temporary(g, u)]]

\* Whether the groups that decide in the context of c, from the one nearest
\* the root on, leave the user a member.
InGroup(c, u) ==
    LET member[d \in Channels \cup {NoChannel}] ==
            IF d = NoChannel THEN FALSE
            ELSE LET says == Says(u)[d]
                 IN  /\ d = c \/ says.inheritable
                     /\ ~says.removes
                     /\ says.adds \/ (says.inherit /\ member[cParent[d]])
    IN  member[c]

\* "sub,offset,min,max": the user is min to max levels below the channel at
\* offset from the context.
InSub(chan, context, spec, u) ==
    LET home == PathTo(cChannel[u])
        current == PathTo(chan)
        required == Len(PathTo(context)) + spec.offset
        index == IF required < 1 THEN 1 ELSE required
    IN  /\ index <= Len(current)
        /\ index <= Len(home) /\ home[index] = current[index]
        /\ Len(home) - index \in spec.min .. spec.max

\* Group::appliesToUser for an entry of channel ch, asked about chan.
AppliesToUser(chan, ch, spec, u) ==
    LET context == IF spec.local THEN ch ELSE chan
        matches ==
            \/ spec.name = "all"
            \/ spec.name = "auth" /\ iId[u] >= 0
            \/ spec.name = "in" /\ cChannel[u] = context
            \/ spec.name = "out" /\ cChannel[u] # context
            \/ spec.name = "token" /\ qslAccessTokens[u]
            \/ spec.name = "hash" /\ spec.owner = u
            \/ spec.name = "sub" /\ InSub(chan, context, spec, u)
            \/ spec.name = "group" /\ InGroup(context, u)
    IN  spec.name # "" /\ matches # spec.invert

-----------------------------------------------------------------------------
(* The evaluation of ACLs from the root to the channel asked about. *)

Matches(chan, ch, e, u) ==
    \/ e.user # -1 /\ e.user = iId[u]
    \/ AppliesToUser(chan, ch, e.group, u)

Applies(chan, ch, e) == IF ch = chan THEN e.here ELSE e.subs
AppliesTraverse(chan, ch, e) == (ch # chan /\ e.subs) \/ e.here

\* Whether a flag is on after an entry that allows and denies permissions.
Set(flag, p, e) == p \notin e.deny /\ (flag \/ p \in e.allow)

\* What an entry can grant: root-only permissions only on the root itself.
Grantable(chan, ch, e) ==
    IF ch = Root /\ chan = Root THEN e.allow ELSE e.allow \ RootOnly

Evaluate(acc, chan, ch, e, u) ==
    IF ~Matches(chan, ch, e, u) THEN acc
    ELSE [acc EXCEPT
            !.traverse = IF AppliesTraverse(chan, ch, e) THEN Set(@, "Traverse", e) ELSE @,
            !.write = IF Applies(chan, ch, e) THEN Set(@, "Write", e) ELSE @,
            !.granted = IF Applies(chan, ch, e)
                        THEN (@ \cup Grantable(chan, ch, e)) \ e.deny ELSE @]

\* Fault: a channel that does not inherit starts from what there was.
StartInherited(acc, ch) == acc.granted

\* A channel that does not inherit starts from the default; the two flags stay.
Start(acc, ch) == IF bInheritACL[ch] THEN acc.granted ELSE Default

EvaluateChannel(acc, chan, ch, u) ==
    IF acc.blocked THEN acc
    ELSE LET after[j \in 0 .. Len(qlACL[ch])] ==
                 IF j = 0 THEN [acc EXCEPT !.granted = Start(acc, ch)]
                 ELSE Evaluate(after[j - 1], chan, ch, qlACL[ch][j], u)
             end == after[Len(qlACL[ch])]
         IN  [end EXCEPT !.blocked = ~end.traverse /\ ~end.write]

\* The evaluation for chan as far as the channel d on the way to it.
WalkTo(u, chan, d) ==
    LET walk[e \in Channels \cup {NoChannel}] ==
            IF e = NoChannel
            THEN [granted |-> Default, traverse |-> TRUE, write |-> FALSE, blocked |-> FALSE]
            ELSE EvaluateChannel(walk[cParent[e]], chan, e, u)
    IN  walk[d]

Walk(u, chan) == WalkTo(u, chan, chan)

\* Write implies most of the others, on the root all but Speak and Whisper.
Completed(chan, granted) ==
    granted \cup IF "Write" \notin granted THEN {}
                 ELSE IF chan = Root THEN ImpliedByWrite \cup RootOnly ELSE ImpliedByWrite

EffectivePermissions(u, chan) ==
    IF iId[u] = 0 THEN Perms \ {"Speak", "Whisper"}
    ELSE LET end == Walk(u, chan)
         IN  IF end.blocked THEN {} ELSE Completed(chan, end.granted)

-----------------------------------------------------------------------------
(* The same, said without an evaluation: the last word on the way decides. *)

\* An entry's place is <<channel, entry>> along the path; <<i, 0>> stands for
\* the start of a channel that does not inherit.
Places(path) ==
    UNION {{<<i, j>> : j \in 1 .. Len(qlACL[path[i]])} : i \in 1 .. Len(path)}
EntryAt(path, w) == qlACL[path[w[1]]][w[2]]
Later(v, w) == v[1] > w[1] \/ (v[1] = w[1] /\ v[2] >= w[2])
Latest(S) == CHOOSE w \in S : \A v \in S : Later(w, v)
FromLatest(S, yes(_), none) == IF S = {} THEN none ELSE yes(Latest(S))

Speaks(u, path, w, p, applied(_, _, _)) ==
    LET chan == path[Len(path)]
        ch == path[w[1]]
        e == EntryAt(path, w)
    IN  p \in e.allow \cup e.deny /\ applied(chan, ch, e) /\ Matches(chan, ch, e, u)

\* Whether the words on p up to the i-th channel leave it on.
Heard(u, path, i, p, applied(_, _, _), before) ==
    FromLatest({w \in Places(path) : w[1] <= i /\ Speaks(u, path, w, p, applied)},
         LAMBDA w : p \notin EntryAt(path, w).deny, before)

\* Whether the user has Write in the i-th channel: a channel that starts over
\* ends what was said above it.
WriteThere(u, path, i) ==
    FromLatest({w \in Places(path) : /\ w[1] <= i /\ Speaks(u, path, w, "Write", Applies)
                                     /\ \A k \in w[1] + 1 .. i : bInheritACL[path[k]]},
         LAMBDA w : "Write" \notin EntryAt(path, w).deny, FALSE)

\* A channel where the user misses Traverse and Write ends the way there.
MissesBoth(u, path, i) ==
    ~Heard(u, path, i, "Traverse", AppliesTraverse, TRUE) /\ ~WriteThere(u, path, i)
Barred(u, path) == \E i \in 1 .. Len(path) : MissesBoth(u, path, i)

\* At each of these the last word on Write, from above a channel that starts
\* over, is yes.
WriteOutlives(u, path) ==
    \A i \in 1 .. Len(path) : MissesBoth(u, path, i) => Heard(u, path, i, "Write", Applies, FALSE)

GrantedByLast(u, path, p) ==
    LET chan == path[Len(path)]
        words == {w \in Places(path) :
                    /\ Speaks(u, path, w, p, Applies)
                    /\ (p \in RootOnly /\ chan # Root) => p \in EntryAt(path, w).deny}
        starts == {<<i, 0>> : i \in {i \in 1 .. Len(path) : ~bInheritACL[path[i]]}}
    IN  FromLatest(words \cup starts,
             LAMBDA w : IF w[2] = 0 THEN p \in Default ELSE p \notin EntryAt(path, w).deny,
             p \in Default)

LastWord(u, chan) ==
    LET path == PathTo(chan)
    IN  IF Barred(u, path) THEN {}
        ELSE Completed(chan, {p \in Perms : GrantedByLast(u, path, p)})
=============================================================================
