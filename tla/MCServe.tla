------------------------------ MODULE MCServe -------------------------------
(* Instances of Serve for TLC.                                             *)
EXTENDS Serve, TLC
CONSTANTS p1, p2

(* p1 is a command whose binary is one schema version older than p2's.     *)
Versions == p1 :> 1 @@ p2 :> 2

(* Metrics outermost, as app.Build has them; a pre-hook before and a       *)
(* webhook inside a post-hook; a webhook on the connection.                *)
AllChains == {<<"metrics", "pre", "post", "webhook">>,
              <<"metrics", "webhook">>}
=============================================================================
