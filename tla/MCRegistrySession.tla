------------------------- MODULE MCRegistrySession -------------------------
(* RegistrySession for TLC: three configuration files, which include each other in
   any way (twice, in a circle), and samples of what they set.  Two samples
   may disagree on the default, the global providers and an alias; aliases and
   registries refer to what another file sets, and may close a circle. *)
EXTENDS RegistrySession

CONSTANTS root, f1, f2, r1, r2, a1, a2

FewIncludes == {<<>>, <<f1>>, <<f2>>, <<f1, f2>>, <<root>>}

Unset == [index |-> Nothing, replace |-> Nothing, provider |-> Nothing]

Sample(default, global, entries, aliases) ==
  [default |-> default, global |-> global,
   registries |-> [n \in Registries |-> IF n \in DOMAIN entries THEN entries[n] ELSE Unset],
   alias |-> [n \in Aliases |-> IF n \in DOMAIN aliases THEN aliases[n] ELSE Nothing]]

FewSettings ==
  { Sample(Nothing, <<"token">>, <<>>, <<>>),
    Sample(r2, <<"stdout">>, [n \in {r2} |-> [Unset EXCEPT !.replace = r1]], [n \in {a1} |-> a2]),
    Sample(r1, <<a1, "other">>,
           [n \in {r1} |-> [index |-> "url", replace |-> Nothing, provider |-> a1]],
           [n \in {a2} |-> "token"]),
    Sample(Nothing, <<a2, "other">>,
           [n \in {r1, r2} |-> IF n = r1 THEN [Unset EXCEPT !.replace = r2]
                             ELSE [index |-> "bad", replace |-> Nothing, provider |-> "other"]],
           [n \in {a1, a2} |-> IF n = a1 THEN "stdout" ELSE a1]) }
=============================================================================
