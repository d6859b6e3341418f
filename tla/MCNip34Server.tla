--------------------------- MODULE MCNip34Server ---------------------------
(***************************************************************************)
(* Three configurations: two admins at work at once; a relay with a rate   *)
(* limit; and a repository in use, with clients that push, fetch and look. *)
(***************************************************************************)
EXTENDS Nip34Server, TLC

CONSTANTS owner, helper, main, v1, o1, o2, r1, r2, a1, a2, c1, c2, w

MCManaged == [lists |-> {<<"admin", owner>>, <<"blacklist", helper>>},
              allowed |-> {}, disallowed |-> {"patch"}, rate |-> 0, admins |-> {r1, r2},
              managed |-> {<<"admin", helper>>, <<"whitelist", helper>>, <<"blacklist", helper>>}]
MCRated == [lists |-> {<<"admin", owner>>, <<"whitelist", helper>>},
            allowed |-> {"patch"}, disallowed |-> {}, rate |-> 2, admins |-> {}, managed |-> {}]
MCGit == [lists |-> {<<"admin", owner>>},
          allowed |-> {}, disallowed |-> {}, rate |-> 0, admins |-> {}, managed |-> {}]

MCConfigs == {MCManaged, MCRated, MCGit}
MCPushing == {MCGit}

MCUpdates == {main :> <<Null, o1>>, main :> <<o1, Null>>, v1 :> <<Null, o1>>,
              (main :> <<o1, o2>>) @@ (v1 :> <<Null, o1>>)}
MCStateRefs == {(main :> o1) @@ (v1 :> Null), (main :> o2) @@ (v1 :> Null)}
MCMaintainers == {{helper}}
=============================================================================
