--------------------------- MODULE MCRedisSessions --------------------------
(* Two instances and two requests at a time: a webhook and the callback.   *)
EXTENDS RedisSessions
=============================================================================
