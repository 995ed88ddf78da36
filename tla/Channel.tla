-------------------------------- MODULE Channel --------------------------------
(***************************************************************************)
(* What an outbox, a topic and a consumer loop promise together: an event  *)
(* is sent by the transaction that writes it, and every event sent is      *)
(* settled by its consumer in the end.  Nothing else is settled, and       *)
(* nothing sent or settled is forgotten.                                   *)
(***************************************************************************)
CONSTANT Event

VARIABLES sent, got

channelVars == <<sent, got>>

ChannelInit == sent = {} /\ got = {}

Send(e) == e \notin sent /\ sent' = sent \union {e} /\ UNCHANGED got

Get(e) == e \in sent \ got /\ got' = got \union {e} /\ UNCHANGED sent

ChannelStep == \E e \in Event : Send(e) \/ Get(e)

ChannelSafe == ChannelInit /\ [][ChannelStep]_channelVars

ChannelSpec == ChannelSafe /\ \A e \in Event : WF_channelVars(Get(e))
=============================================================================
