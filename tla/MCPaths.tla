------------------------------- MODULE MCPaths -------------------------------
(* Two calls in small trees: an empty one, ones with a file or a link in   *)
(* the way, and one with a directory and a link inside another.            *)
EXTENDS Paths

CONSTANTS p, q

Held(at) == [d \in Node |-> [m \in Name |-> IF <<d, m>> \in DOMAIN at THEN at[<<d, m>>] ELSE NoNode]]
World(dirs, files, links, at) ==
  [kind |-> [n \in Node |-> IF n \in dirs THEN "dir" ELSE IF n \in files THEN "file"
                            ELSE IF n \in links THEN "link" ELSE "free"],
   entry |-> Held(at)]

(* Aim, node 1, is the directory "b:" of the root.                         *)
B == <<0, "b:">> :> 1
MCWorlds ==
  {World({0, 1}, {}, {}, B),
   World({0, 1}, {2}, {}, B @@ <<0, "a">> :> 2),
   World({0, 1}, {}, {2}, B @@ <<0, "a">> :> 2),
   World({0, 1, 2, 3}, {}, {4}, B @@ <<0, "a">> :> 2 @@ <<2, "a">> :> 3 @@ <<2, "b:">> :> 4)}

Mk(path) == [op |-> "gk_mkpath", path |-> path]
Rm(path) == [op |-> "gk_rmpath", path |-> path]
AB == <<"", "a", "", "b:", "">>

(* Two calls at work on the same entries, and one with an odd path beside  *)
(* one that fails at once.                                                 *)
Meet == {<<Mk(AB), Mk(<<"a", ".", "b:">>)>>, <<Mk(AB), Rm(<<"a">>)>>,
         <<Rm(<<"a">>), Rm(<<"a">>)>>, <<Rm(AB), Rm(<<"a">>)>>}
Alone == {<<c, Mk(<<"">>)>> : c \in
           {Mk(<<"b:", "a">>), Mk(<<"b:">>), Mk(<<"", "">>), Mk(<<"a", "..", "b:", "a">>),
            Rm(<<"a", "..", "b:">>), Rm(<<"", "", "a">>), Rm(<<"b:">>), Rm(<<"", "">>)}}
MCPlans == {p :> c[1] @@ q :> c[2] : c \in Meet \cup Alone}
=============================================================================
