-------------------------- MODULE MCInputCallbacks --------------------------
(* InputCallbacks with scheme names of which one begins with another and   *)
(* one differs from another in case only.                                  *)
EXTENDS InputCallbacks, TLC

MCServes ==
  {<<"x:1", "x">>, <<"x:1", "X">>,
   <<"xy:1", "x">>, <<"xy:1", "X">>, <<"xy:1", "xy">>}

MCBegins == {<<"x", "x">>, <<"X", "X">>, <<"xy", "xy">>, <<"xy", "x">>}

AnyContext == Permutations(Context)
=============================================================================
