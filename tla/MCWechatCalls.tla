--------------------------- MODULE MCWechatCalls ---------------------------
(* Instances of WechatCalls for TLC.                                       *)
EXTENDS WechatCalls, TLC

CONSTANTS c1, c2

\* One coroutine that waits with aiohttp, for either token, and one that holds the loop.
Jobs == (c1 :> {"content", "click"}) @@ (c2 :> {"qrcode"})
=============================================================================
