----------------------------- MODULE MCChannels -----------------------------
(***************************************************************************)
(* Small instance of the channel selection: the clock has 26 values where  *)
(* the program's ticks make a range of 36.4 hours, so that ten hours are 7 *)
(* of them. Four channels, of a join in one band, of a session in three;   *)
(* data rates 0 and 1 stand for SF12 and SF7, data rate 2 for FSK, which   *)
(* only one of the default channels allows.                                *)
(***************************************************************************)
EXTENDS Channels, TLC

Chan(b, drs) == [band |-> b, drs |-> drs, defined |-> TRUE]

MCJoinChannels == [c \in Chnls |-> Chan(0, {0, 1})]

MCDefaults ==
  0 :> Chan(1, {0, 1}) @@ 1 :> Chan(1, {0, 1, 2}) @@ 2 :> Chan(0, {0, 1}) @@ 3 :> Chan(2, {0, 1})

MCCfLists == {{<<3, Chan(1, {0, 1})>>}}

MCAirTime == 0 :> 2 @@ 1 :> 1 @@ 2 :> 1
MCTxCap   == 0 :> 3 @@ 1 :> 2 @@ 2 :> 1 @@ 3 :> 0
MCNewChannels == {<<3, Chan(2, {0, 2})>>}

\* One after the other they leave no channel that allows the data rate.
MCChannelMaps == {<<{0, 1, 2}, 2>>, <<{0, 2}, 3>>}

\* The instance is one that DutyKeptHolds and DutyCapKeptHolds speak of.
ASSUME InstanceFits == TimesFit
=============================================================================
