------------------------------ MODULE MCProcess ------------------------------
(* Process with paths that coincide, nest and are refused by chi. *)
EXTENDS Process

Rooted(segs) == [form |-> "rooted", segs |-> segs]

MCAuthPaths ==
  {Rooted(<<>>), Rooted(<<"auth">>), Rooted(<<"debug">>),
   [form |-> "relative", segs |-> <<"auth">>]}

MCEndpoints ==
  {Rooted(<<>>), Rooted(<<"auth">>), Rooted(<<"debug">>),
   [form |-> "relative", segs |-> <<"s">>], [form |-> "params", segs |-> <<"s">>]}
=============================================================================
