------------------------------ MODULE MCAccess ------------------------------
(* Constants of the model-checking instances of Access and Portal.         *)
EXTENDS Portal, TLC

CONSTANTS a, b, A, junk, x, e

(* A label spelled with capitals; the apex, and an alias under it.         *)
MCSpellings == A :> a
MCDomains   == {<<x>>, <<b, x>>}
MCGroup     == <<a>>

(* Three sites above each other; the one in the middle also spelled with   *)
(* capitals, with an empty segment, and with a slash in its slug.          *)
MCRequests ==
  [op : {"publish"}, group : {Root}, slug : {<<a>>}] \union
  [op : {"publish", "purge"}, group : {<<a, b>>}, slug : {<<a>>}]
  \union
  [op : Operations, group : {<<a>>}, slug : {<<b>>}] \union
  [op : {"publish", "rollback"}, group : {<<A>>, <<a, e>>, <<junk>>},
   slug : {<<b>>}] \union
  [op : {"read"}, group : {<<A>>, Root}, slug : {<<b>>}] \union
  [op : {"publish", "unpublish"}, group : {Root}, slug : {<<a, b>>}]

Write == {"publish", "unpublish", "rollback", "patch"}
MCShapes ==
  { [via |-> "key", user |-> "ci", admin |-> TRUE, grants |-> {}],
    [via |-> "key", user |-> "ci", admin |-> FALSE,
     grants |-> {[kind |-> "group", target |-> <<a>>, caps |-> Write]}],
    [via |-> "key", user |-> "ci", admin |-> FALSE,
     grants |-> {[kind |-> "site", target |-> <<a, b>>, caps |-> {"purge"}]}],
    [via |-> "mcp", user |-> "u", admin |-> FALSE,
     grants |-> {[kind |-> "group", target |-> Root, caps |-> Write],
                 [kind |-> "group", target |-> <<a, b>>,
                  caps |-> {"purge"}]}],
    [via |-> "mcp", user |-> "v", admin |-> FALSE,
     grants |-> {[kind |-> "group", target |-> <<a>>,
                  caps |-> {"purge", "read"}]}] }
=============================================================================
