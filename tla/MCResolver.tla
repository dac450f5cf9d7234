----------------------------- MODULE MCResolver -----------------------------
(* Small instances of Resolver for TLC. *)
EXTENDS Resolver

(* Out of range on both sides, the smallest budget, one that the cache can *)
(* spend, one with room for a second batch.                                *)
MCOptions == {<<0, -1>>, <<9, 2>>, <<1, 1>>, <<2, 2>>, <<3, 9>>, <<4, 3>>}

(* Nothing, a stale file with copies and refused records, more records     *)
(* than MaxResults.                                                        *)
MCCached == {<<>>, <<3>>, <<2, 2, 1>>, <<0, 4, 0>>, <<4, 1, 2, 5>>}

(* Nothing acceptable, the cache over again, copies and refused rows among *)
(* new ones, a row of each.                                                *)
MCFeed == {<<0, 0>>, <<3>>, <<2, 1, 2>>, <<5, 0, 4, 5>>, <<1, 2, 3, 4, 5>>}
=============================================================================
