------------------------------ MODULE MCAclCache ------------------------------
EXTENDS AclCache, TLC
CONSTANTS a, b

ToGroup(name, local, invert) == [name |-> name, owner |-> 0, local |-> local, invert |-> invert]
Entry(user, group, here, subs, allow, deny) ==
    [user |-> user, group |-> group, here |-> here, subs |-> subs, allow |-> allow, deny |-> deny]
ForAll == ToGroup("all", FALSE, FALSE)
Below(offset, min, max) ==
    ToGroup("sub", FALSE, FALSE) @@ [offset |-> offset, min |-> min, max |-> max]
Edit(c, inherit, acls, group) == [c |-> c, inherit |-> inherit, acls |-> acls, group |-> group]

\* The root gives its group everything, a stops who is elsewhere and starts over, b
\* decides by place and token.
MCEdits ==
    { Edit(Root, TRUE, <<Entry(-1, ToGroup("group", FALSE, FALSE), TRUE, TRUE, {"Write", "Kick"}, {}),
                         Entry(-1, Below(-1, 1, 1), TRUE, TRUE, {"Enter"}, {})>>,
           [NewGroup EXCEPT !.add = {1}]),
      Edit(a, FALSE, <<Entry(-1, ToGroup("out", FALSE, FALSE), TRUE, FALSE, {}, {"Traverse", "Speak"}),
                       Entry(-1, ToGroup("auth", FALSE, TRUE), TRUE, TRUE, {"Kick"}, {"Write"})>>,
           [NewGroup EXCEPT !.inheritable = FALSE]),
      Edit(b, TRUE, <<Entry(-1, ToGroup("in", TRUE, FALSE), TRUE, TRUE, {"Move"}, {"Write", "Whisper"}),
                      Entry(-1, ToGroup("token", FALSE, FALSE), TRUE, TRUE, {"Write"}, {})>>, NewGroup) }
FewEdits == { Edit(a, TRUE, <<Entry(-1, ForAll, TRUE, TRUE, {}, {"Speak"}),
                              Entry(-1, ToGroup("auth", FALSE, FALSE), TRUE, TRUE, {"Speak"}, {})>>, NoGroup) }
=============================================================================
